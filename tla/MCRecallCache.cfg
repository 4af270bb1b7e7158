\* Two concurrent writes against two recalls, in one server that is restarted at will.
SPECIFICATION RecallSpec
CONSTANTS
    Req = {r1, r2}
    Reader = {q1, q2}
    Proc = {p1}
    Commands = {}
    NS = {n1, n2}
    Fact = {f1}
    Text <- MCText
    Closeness <- MCCloseness
    Inputs <- MCInputs
    Legacy = {}
SYMMETRY MCSymmetry
INVARIANTS
    EntriesExplained
    RecallSeesAcknowledged
    StaleOnlyAcross
    StoresAgree
    CommittedStoreDurable
    ForgottenStaysGone
    InvalidationHasReplacement
PROPERTIES
    MemoryLifePromise
