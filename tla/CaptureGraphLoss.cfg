\* Decoding in CUDA graphs: what the window pushes out is lost.
SPECIFICATION MCSpec
CONSTANTS
    Capacity = 2
    MaxTokens = 4
    MaxIngest = 5
    MaxChunk = 1
    RepeatedPrefill = FALSE
    GraphMode = TRUE
INVARIANTS
    EveryTokenKept
