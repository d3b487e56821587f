\* A realistic configuration: what its requests allocate, next to the estimate.
SPECIFICATION MCSpec
CONSTANTS
    Tokens <- JustOne
    Significand = 3
    Exponents = 2
    NotFinite = NotFinite
    MaxTokens = 1
    Capacity = 1
    BlockC = 1
    BlockR = 1
    TopScore = 0
    Configs <- ServingConfig
    NoPlan = NoPlan
INVARIANTS
    TotalIsEnough
