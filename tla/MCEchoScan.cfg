SPECIFICATION MCSpec
CONSTANTS
    None = None
    l1 = l1
    l2 = l2
    Link = {l1, l2}
    Modes = {"in", "out", "both", "rescan"}
    Limit = 2
    NoFresh = FALSE
    During = FALSE
    Deletable = "older"
    Purges = TRUE
    Crashes = TRUE
    MaxMsg = 3
    MaxUid = 5
INVARIANTS
    NothingPassed
    SentIsServed
    AtMostOnce
PROPERTY
    EditorServed
