\* A backfill of a row that an older build left, filed under a group's own name.
SPECIFICATION FactsSpec
CONSTANTS
    MaxId = 2
    NS = {"n1", "n2"}
    Str <- MCStr
    NameOrder <- MCNameOrder
    TextNormalize <- MCTextNormalize
    Lower <- MCLower
    Similarity <- MCSimilarity
    FUZZY_THRESHOLD = 85
    REFLECT_FUZZY_PREDICATE_THRESHOLD = 75
    Tidy <- MCTidy
    Closeness <- MCCloseness
    Entities <- MCEntities
    Configs <- MCPlainConfigs
    Inputs <- MCInputs
    Legacy <- MCPlainLegacy
INVARIANT
    BackfillPopulates
