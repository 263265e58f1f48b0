SPECIFICATION FairSpec
CONSTANTS
    None = None
    Areas = {"a", "b", "c", "d", "e"}
    Addresses = {1, 2, 3, 9}
    Junk = 9
    Groups = {"L", "g"}
    Passwords = {"p", "q"}
    Starts <- MCStarts
    Uplinks <- MCUplinks
    EchoLists <- MCEchoLists
    Upper <- MCUpper
    Garbage <- MCGarbage
    Default = "g"
    DefaultPassthr = TRUE
    Gric = FALSE
    KillOrphan = TRUE
    DelFiles = TRUE
    DelDays = 0
    Naming = "next"
    LongName <- MCLongName
    Letters <- MCLetters
    Orders <- MCOrders
    NewAreas <- MCNewAreas
    MaxLetters = 2
    MaxDay = 1
    MaxBase = 6
    MaxKills = 1
CHECK_DEADLOCK FALSE
INVARIANTS
    LinesKept
    OthersKept
    RequestsDone
    AllAsked
    OwnBases
PROPERTIES
    Served
