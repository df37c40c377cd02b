SPECIFICATION FairSpec
CONSTANTS
    Conns = {c1}
    Users = {u1}
    DevIds = {id}
    DevId <- MCDevId
    Target <- MCTarget
    Admissible = {c1}
    None = None
PROPERTIES
    LoginResolved
    ConnectionsReaped
    HangUpEndsShell
CHECK_DEADLOCK FALSE
