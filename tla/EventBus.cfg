SPECIFICATION FairSpec
CONSTANTS
    Senders = {s1, s2}
    Clients = {c1}
    Capacity = 2
    MaxEvents = 3
    MaxConnects = 3
INVARIANTS
    TypeOK
    ReplayIdsUnique
    NoGapBeforeEviction
    FreshSubscriberComplete
PROPERTIES
    UnreadIsDelivered
CHECK_DEADLOCK FALSE
