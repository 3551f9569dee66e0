CONSTANTS
    t1 = t1
    t2 = t2
    Movie = Movie
    Show = Show
    Season = Season
    Pack = Pack
    Extracted = Extracted
    Torrents = {t1, t2}
    Names <- AllNames
    FileName <- OwnNames
    InnerName <- InnerNames
    Forms = {"file", "dir"}
    InLibrary = {t2}
    Policies <- NoExtract
    MaxCrashes = 0
    MaxFaults = 0
    MaxPolicyChanges = 1
    TornWrites = FALSE
SPECIFICATION Spec
INVARIANTS
    CompletedIsPlaced
    PayloadKept
PROPERTIES
    CompletedIsFinal
CHECK_DEADLOCK FALSE
