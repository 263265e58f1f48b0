SPECIFICATION MCSpec
CONSTANTS
    c1 = c1
    c2 = c2
    Crc = {c1, c2, c3}
    Zero = Zero
    Cap = 2
    Area = {a1, a2}
    NoArea = NoArea
    NoFile = NoFile
    Empty = Empty
    Limits = {0, 1, 2}
    Conditions = {}
SYMMETRY Symmetry
INVARIANTS
    LastNRemembered
    OnlyOwnDupes
    NetDupesOwn
