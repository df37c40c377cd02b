SPECIFICATION FairSpec
CONSTANTS
    Streams = {s1}
    Tunnels = {t1}
    TunnelOf <- MCTunnelOf
    MaxChunks = 2
    MaxQueue = 1
    None = None
    MaxDrops = 2
INVARIANTS
    ReplyStartsResponse
    OnlyWaitingStreams
    TunnelKnown
PROPERTY
    RequestReturns
CHECK_DEADLOCK FALSE
