SPECIFICATION MCSpec
CONSTANTS
    h1 = h1
    h2 = h2
    l1 = l1
    l2 = l2
    Home = {h1, h2}
    Pers = Pers
    Bad = Bad
    Dupes = Dupes
    Dead = Dead
    Unknown = Unknown
    Net = Net
    Junk = Junk
    Link = {l1, l2}
    ReadOnly = {}
    Stranger = Stranger
    None = None
    Behaviour = "backup"
    Carbon = "copy"
    Both = TRUE
    KillDupes = FALSE
    DropBad = FALSE
    Senders = {l1, l2}
    Kinds <- KindsCore
    Contended = {h1}
    MaxKills = 0
    MaxPackets = 2
    MaxLen = 2
INVARIANTS
    NothingLost
    OnePlace
    RightArea
    AllServed
    SweptFirst
PROPERTY
    EveryRunEnds
