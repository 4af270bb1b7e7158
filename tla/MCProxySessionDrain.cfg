\* stdin closes while the pump is about to forward the last response.
SPECIFICATION ProxySpec
CONSTANTS
    Id = {i1}
    Key = {k1}
    MaxLines = 1
    MaxAttempts = 2
CHECK_DEADLOCK FALSE
INVARIANT
    DrainDelivers
