\* One fact stored in two namespaces, and a recall.
SPECIFICATION RecallSpec
CONSTANTS
    Req = {r1, r2}
    Reader = {q1}
    Proc = {p1}
    Commands = {}
    NS = {n1, n2}
    Fact = {f1}
    Text <- MCText
    Closeness <- MCCloseness
    Inputs <- MCInputs
    Legacy = {}
SYMMETRY MCSymmetry
INVARIANT
    RecallOmitsGone
