\* A replay that is attempted twice while the client finishes its handshake.
SPECIFICATION ProxySpec
CONSTANTS
    Id = {i1, i2}
    Key = {k1}
    MaxLines = 3
    MaxAttempts = 2
CHECK_DEADLOCK FALSE
INVARIANT
    InitializedOnce
