CONSTANTS
    t1 = t1
    t2 = t2
    Movie = Movie
    Show = Show
    Season = Season
    Pack = Pack
    Extracted = Extracted
    Torrents = {t1}
    Names <- AllNames
    FileName <- OwnNames
    InnerName <- InnerNames
    Forms = {"file"}
    InLibrary = {}
    Policies <- MoveOnly
    MaxCrashes = 1
    MaxFaults = 0
    MaxPolicyChanges = 0
    TornWrites = FALSE
SPECIFICATION Spec
INVARIANTS
    PayloadKept
CHECK_DEADLOCK FALSE
