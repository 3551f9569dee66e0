CONSTANTS
    t1 = t1
    t2 = t2
    Movie = Movie
    Show = Show
    Season = Season
    Pack = Pack
    Extracted = Extracted
    Torrents = {t1}
    Names <- AllNames
    FileName <- OwnNames
    InnerName <- InnerNames
    Forms = {"archive", "file", "dir"}
    InLibrary = {}
    Policies <- AnyMode
    MaxCrashes = 1
    MaxFaults = 1
    MaxPolicyChanges = 1
    TornWrites = TRUE
SPECIFICATION FairSpec
INVARIANTS
    TypeOK
    CompletedIsDurable
    SafeUnlessMoveInterrupted
    ChecksumsCurrent
PROPERTIES
    CompletedIsFinal
    RetriesComplete
CHECK_DEADLOCK FALSE
