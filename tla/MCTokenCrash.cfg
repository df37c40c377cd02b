SPECIFICATION Spec
CONSTANTS
    Streams = {s1}
    Tunnels = {t1}
    TunnelOf <- MCTunnelOf
    MaxChunks = 1
    MaxQueue = 2
    None = None
    MaxDrops = 0
INVARIANT
    CleanupSurvived
CHECK_DEADLOCK FALSE
