SPECIFICATION FairSpec
CONSTANTS
    Users = {u1}
    Devs = {d1}
    DevOf <- MCDevOf
    Timed = {u1}
    Cap = 1
    BrCap = 1
    PipeCap = 1
    MaxKeys = 2
    MaxPrints = 2
    MaxEnds = 1
    None = None
INVARIANTS
    TypeOK
    RelayInOrder
    CrashTakesTimer
PROPERTY
    BrokerWaitsOnlyFor
CHECK_DEADLOCK FALSE
