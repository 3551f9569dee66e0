SPECIFICATION FairSpec
CONSTANTS
  Torrents = {t1, t2}
  Statuses = {s1}
  None = None
  Capacity = 1
  MaxEvents = 2
  MaxOdd = 1
INVARIANTS
  TypeOK
  ViewFollowsCatalog
  MetadataIsSeen
PROPERTIES
  ClientConverges
CHECK_DEADLOCK FALSE
