\* A database an older build left behind, a server with one more request, and commands that
\* recover and audit beside it; recovery is fair.
SPECIFICATION AuditFairSpec
CONSTANTS
    Req = {r1, r2}
    Proc = {p1, p2}
    Commands = {p2}
    Seen = {}
    NS = {n1}
    Fact = {f1}
    Text <- MCText
    Closeness <- MCCloseness
    Inputs <- MCInputs
    Legacy = {r1}
    FixLimits = {0, 1}
INVARIANTS
    IInv
    StoresAgree
    AuditMends
PROPERTIES
    RecoveryClearsJournal
    MemoryLifePromise
