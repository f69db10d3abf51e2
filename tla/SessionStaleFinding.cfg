SPECIFICATION Spec
CONSTANTS
    Person = {u1, u2}
    SessionTtl = 2
    StateTtl = 1
    LastTick = 2
    MaxEvents = 2
CHECK_DEADLOCK FALSE
INVARIANTS
    NoStalePrivilege
