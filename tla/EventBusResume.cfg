CONSTANTS
    Senders = {s1}
    Clients = {c1}
    Capacity = 4
    MaxEvents = 3
    MaxConnects = 2
SPECIFICATION Spec
INVARIANTS
    ResumeDeliversMissed
CHECK_DEADLOCK FALSE
