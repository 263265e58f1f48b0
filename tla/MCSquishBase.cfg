SPECIFICATION MCSpec
CONSTANTS
    Sizes = {1, 2}
    Limits = {0, 2, 3}
    Skip = 0
    NoFresh = FALSE
    MaxId = 6
    Editor = "some"
    Crashes = FALSE
INVARIANTS
    TwoChains
    IndexReadable
PROPERTIES
    ImplementsList
    CallEnds
