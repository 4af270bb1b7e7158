CONSTANTS
    k1 = k1
    k2 = k2
    o1 = o1
    Keeper <- MCKeeper
    Owner <- MCOwner
    Port = {1, 2}
    MaxQdrants = 4
    MaxFaults = 1
    RestartLimit = 1
SPECIFICATION SidecarFairSpec
CHECK_DEADLOCK FALSE
INVARIANTS
    LiveRecorded
    OneQdrant
    SidecarInv
PROPERTIES
    QdrantComesBack
