SPECIFICATION FairSpec
CONSTANTS
    Conns = {c1}
    Users = {}
    DevIds = {id}
    DevId <- MCDevId
    Target <- MCTarget
    Admissible = {c1}
    None = None
PROPERTY LostDeviceFreesId
CHECK_DEADLOCK FALSE
