SPECIFICATION FairSpec
CONSTANTS
  None = None
  e1 = e1
  u1 = u1
  f1 = f1
  f2 = f2
  l1 = l1
  l2 = l2
  EngineRows = {e1}
  Urls = {u1}
  PolicyRows = {f1, f2}
  PolicyLists = {l1, l2}
  DefaultEngine = e1
  DefaultRow = f1
  DefaultLists = l1
  MaxChanges = 2
  MaxRefreshes = 1
  MaxFetches = 2
  MaxErrors = 1
INVARIANTS
  TypeOK
  StaleIsNoticed
PROPERTIES
  ChangeIsApplied
CHECK_DEADLOCK FALSE
