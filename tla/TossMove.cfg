SPECIFICATION Spec
CONSTANTS
    Home = {h1, h2}
    Pers = Pers
    Bad = Bad
    Dupes = Dupes
    Dead = Dead
    Unknown = Unknown
    Net = Net
    Junk = Junk
    Link = {l1, l2}
    ReadOnly = {}
    Stranger = Stranger
    None = None
    Behaviour = "backup"
    Carbon = "move"
    Both = TRUE
    KillDupes = FALSE
    DropBad = FALSE
    Senders = {l1}
    Kinds <- KindsEcho
    Contended = {Pers}
    MaxKills = 0
    MaxPackets = 2
    MaxLen = 2
INVARIANTS
    NothingLost
