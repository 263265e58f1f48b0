SPECIFICATION Spec
CONSTANTS
    k1 = k1
    k2 = k2
    k3 = k3
    Link <- Three
    Nobody = Nobody
    PktSize = 2
    Safes = {0, 2}
    Handles = 3
    MaxMsg = 3
CHECK_DEADLOCK FALSE
INVARIANTS
    WrittenOpen
    OneCurrent
PROPERTIES
    ImplementsQueues
