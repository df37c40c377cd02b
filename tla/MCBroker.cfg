SPECIFICATION Spec
CONSTANTS
    Conns = {c1, c2}
    Users = {u1}
    DevIds = {id}
    DevId <- MCDevId
    Target <- MCTarget
    Admissible = {c1, c2}
    None = None
SYMMETRY Symmetric
INVARIANTS
    RegistryConsistent
    SessionOnRegistrant
    RefusedStaysOut
    ShellAccounted
PROPERTIES
    NoHangUpOnLiveSession
    ImplementsDirectory
CHECK_DEADLOCK FALSE
