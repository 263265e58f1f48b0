SPECIFICATION Spec
CONSTANTS
    Links = {l1}
    MaxPackets = 2
    None = None
    Methods <- Alike
    AddArcs = {TRUE, FALSE}
    Truncs = {TRUE, FALSE}
    Big = {2}
    ArcSize = 1
    LastSlot = 1
    Week = 2
    MaxDay = 2
    MaxFails = 1
    Days = 1
CHECK_DEADLOCK FALSE
INVARIANTS
    NothingLost
    Told
PROPERTIES
    SentAsRead
    FreshNames
    NoOldBundle
