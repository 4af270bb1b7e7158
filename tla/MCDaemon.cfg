\* Two proxies, a first daemon and its successor, one signal or crash, one killed proxy.
SPECIFICATION DaemonFairSpec
CONSTANTS
    Proxy = {p1, p2}
    MaxDaemons = 2
    MaxConns = 2
    MaxRetries = 1
    MaxFaults = 1
    MaxKilled = 1
    Timeout = 1
CHECK_DEADLOCK FALSE
INVARIANTS
    DaemonInv
    OneListener
    PidFileNamesServer
PROPERTIES
    IdleExitSparesClients
    IdleExitPromise
    LockFreed
    DaemonsGo
