CONSTANTS
    MaxApplies = 3
    MaxErrors = 2
    MaxRemovals = 2
    MaxCrashes = 1
SPECIFICATION FairSpec
INVARIANTS
    TypeOK
    SettledHasOutcome
    ErrorIffFailed
PROPERTIES
    OutcomeIsRecorded
CHECK_DEADLOCK FALSE
