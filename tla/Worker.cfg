SPECIFICATION FairSpec
CONSTANTS
  Torrents = {t1}
  None = None
  Torn = Torn
  Default = Default
  s1 = s1
  r1 = r1
  o1 = o1
  x1 = x1
  Selections = {Default, s1}
  Rates = {r1}
  Options = {o1}
  Trackers = {x1}
  Requests <- SomeRequests
  SequentialDefault = TRUE
  MaxCommands = 3
  MaxErrors = 1
  MaxCrashes = 1
INVARIANTS
  TypeOK
  
  RemovedLeavesNothing
  SatisfiedIsRemoved
PROPERTIES
  DueIsRemoved
  SessionRecovers
  SettingsAreKept
