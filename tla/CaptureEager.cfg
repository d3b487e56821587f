\* Eager decoding, one prefill per request.
SPECIFICATION MCSpec
CONSTANTS
    Capacity = 3
    MaxTokens = 5
    MaxIngest = 10
    MaxChunk = 4
    RepeatedPrefill = FALSE
    GraphMode = FALSE
INVARIANTS
    TypeOK
    KernelSeesRecentTokens
    CountedOnce
    NoBlankAttended
    EveryTokenKept
PROPERTIES
    ImplementsTieredCache
    CallsAddUp
