SPECIFICATION Spec
CONSTANTS
    None = None
    l1 = l1
    l2 = l2
    Link = {l1, l2}
    Modes = {"in", "out", "both"}
    Limit = 0
    NoFresh = FALSE
    During = TRUE
    Deletable = "none"
    Purges = FALSE
    Crashes = FALSE
    MaxMsg = 3
    MaxUid = 6
SYMMETRY LinkSymmetry
INVARIANTS
    NothingPassed
