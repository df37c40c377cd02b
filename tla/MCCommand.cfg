SPECIFICATION FairSpec
CONSTANTS
    Reqs = {r1, r2, r3}
    None = None
INVARIANTS
    OutputIsEarned
    TwoRepliesOnlyAtTimeout
PROPERTIES
    LateResponseDropped
    WaiterAnswered
CHECK_DEADLOCK FALSE
