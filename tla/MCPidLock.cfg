SPECIFICATION FairSpec
CONSTANTS
    Procs = {p1, p2, p3, p4}
    Waiting = {p1, p2, p3}
    None = None
    MaxKills = 2
CHECK_DEADLOCK FALSE
INVARIANTS
    Exclusive
PROPERTIES
    Served
