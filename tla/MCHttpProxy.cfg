SPECIFICATION FairSpec
CONSTANTS
    WebConns = {w1}
    PortConns = {p1}
    Addrs = {x1, x2}
    MaxChunks = 2
    MaxPosts = 1
    RespCap = 1
    None = None
VIEW View
INVARIANTS
    TypeOK
    ReplyIsOwn
    EntryLastsAsConnection
PROPERTY
    RevokedConnectionsClose
CHECK_DEADLOCK FALSE
