SPECIFICATION Spec
CONSTANTS
    a1 = a1
    a2 = a2
    a3 = a3
    p1 = p1
    p2 = p2
    x1 = x1
    x2 = x2
    Creators = {a1, a2, a3}
    Deleters = {d1}
    Cleaner = Cleaner
    Restorer = Restorer
    Targets = {x1, x2}
    Want <- MCWant
    Ports = {p1, p2}
    MaxRestarts = 1
    MaxOverlaps = 1
    None = None
SYMMETRY Symmetric
VIEW StateView
INVARIANTS
    TypeOK
    LiveTunnelServed
    OneTunnelPerTarget
    NoDeadListener
CHECK_DEADLOCK FALSE
