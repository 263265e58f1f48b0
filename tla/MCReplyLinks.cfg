SPECIFICATION Spec
CONSTANTS
    Slots = 2
    Ways = {"fast", "slow", "net"}
    Kind = {"reply", "subj", "flat", "timed"}
    Originals <- Earlier
    Subjects = {1, 2}
    MaxNet = 2
    MaxId = 4
    MaxPosts = 5
CHECK_DEADLOCK FALSE
INVARIANTS
    LinksMatch
    ThreadsRight
    TreeRight
    Settled
