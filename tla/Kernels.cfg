\* One token on its way into bytes and back; decode attention, both variants, with
\* a store of up to two blocks and a ring buffer of one and a half; one estimate.
SPECIFICATION MCSpec
CONSTANTS
    Tokens <- AnyToken
    Significand = 3
    Exponents = 2
    NotFinite = NotFinite
    MaxTokens = 3
    Capacity = 3
    BlockC = 2
    BlockR = 2
    TopScore = 2
    Configs <- AnyConfig
    NoPlan = NoPlan
INVARIANTS
    FillsItsBuffers
    ReadersRecoverKey
    ValueComesBackClose
    TypeOK
    PartialSoftmax
    OutputIsSoftmax
    DenominatorAtLeastOne
    EstimateIsReported
    PlanFits
