\* A prompt in several chunks: what the window pushes out is lost.
SPECIFICATION MCSpec
CONSTANTS
    Capacity = 2
    MaxTokens = 4
    MaxIngest = 5
    MaxChunk = 1
    RepeatedPrefill = TRUE
    GraphMode = FALSE
INVARIANTS
    EveryTokenKept
