\* Three client lines: a handshake, losses and requests around it; every step is fair.
SPECIFICATION ProxyFairSpec
CONSTANTS
    Id = {i1, i2}
    Key = {k1, k2}
    MaxLines = 3
    MaxAttempts = 2
CHECK_DEADLOCK FALSE
INVARIANTS
    SessionInv
    EveryAnswerAwaited
    ResendBounded
    NeverExitsOnceReady
    HandshakeFirst
    KeyAnnounced
PROPERTIES
    WritesAwaited
    ResentOnlyBeforeReady
    RequestAnswered
    DrainEnds
