CONSTANTS
    r1 = r1
    r2 = r2
    n1 = n1
    n2 = n2
    n3 = n3
    Blank = Blank
    Request <- MCRequest
    Name <- MCName
    Fuzzy <- MCFuzzy
    Near <- MCNear
    Namespace = {x, y}
    MaxNames = 2
    MaxFaults = 1
SPECIFICATION EntityFairSpec
CHECK_DEADLOCK FALSE
INVARIANTS
    PointsHaveRows
    SimilarOnlyConcurrent
PROPERTIES
    RetriesSucceed
