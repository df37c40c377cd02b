SPECIFICATION HeartbeatFairSpec
CONSTANTS
    Second = 4
    MaxSilence = 50
INVARIANTS
    KilledOnlySilent
PROPERTY
    GoneIsClosed
CHECK_DEADLOCK FALSE
