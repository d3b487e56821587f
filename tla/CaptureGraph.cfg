\* Decoding in CUDA graphs, prompts in several chunks.
SPECIFICATION MCSpec
CONSTANTS
    Capacity = 3
    MaxTokens = 5
    MaxIngest = 9
    MaxChunk = 1
    RepeatedPrefill = TRUE
    GraphMode = TRUE
INVARIANTS
    KernelSeesRecentTokens
