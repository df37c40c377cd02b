SPECIFICATION Spec
CONSTANTS
    Users = {u1, u2}
    Devices = {d1}
    Sids = {s1}
    Reqs = {r1, r2}
    TTL = 1
    MaxTime = 2
    Nobody = Nobody
    Local = Local
    None = None
INVARIANTS
    SignedOutStaysOut
    UsedSessionKept
    OneAdmin
    BoundToUser
SYMMETRY Symmetry
CHECK_DEADLOCK FALSE
