SPECIFICATION Spec
CONSTANTS
    MaxId = 3
    MaxDay = 1
    Byte = 2
    Half = 3
    Long = 20
    Percent = 60
    Confs <- Some
    MaxKills = 1
    None = None
CHECK_DEADLOCK FALSE
INVARIANTS
    NothingLost
    NumbersKept
    Purged
