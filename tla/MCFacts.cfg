\* Stores, restarts and backfills under two configurations.
SPECIFICATION FactsSpec
CONSTANTS
    MaxId = 3
    NS = {"n1", "n2"}
    Str <- MCStr
    NameOrder <- MCNameOrder
    TextNormalize <- MCTextNormalize
    Lower <- MCLower
    Similarity <- MCSimilarity
    FUZZY_THRESHOLD = 85
    REFLECT_FUZZY_PREDICATE_THRESHOLD = 75
    Tidy <- MCTidy
    Closeness <- MCCloseness
    Entities <- MCEntities
    Configs <- MCConfigs
    Inputs <- MCInputs
    Legacy <- MCLegacy
INVARIANTS
    FactTwiceOnlyConcurrent
    ContradictionsReported
    BackfillCompletes
