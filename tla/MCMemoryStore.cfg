\* One store in a server, and a second process that recovers beside it.
SPECIFICATION Spec
CONSTANTS
    Req = {r1}
    Proc = {p1, p2}
    Commands = {p2}
    NS = {n1}
    Fact = {f1}
    Text <- MCText
    Closeness <- MCCloseness
    Inputs <- MCInputs
    Legacy = {}
INVARIANT
    RecoverySeesOnlyUnwritten
