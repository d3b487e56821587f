\* One request after the other with whole prompts; two of three in a batch with
\* prompts in chunks.
SPECIFICATION Spec
CONSTANTS
    Capacity = 2
    MaxTokens = 12
    Requests <- ABC
    MaxNumSeqs = 1
    Workloads <- SequentialOrConcurrent
    NoAlloc = TRUE
INVARIANTS
    AttendsOwnTokens
    CounterMatches
    SlotsWithinLimit
    AttendsItself
    CapturedOnce
    TQWheneverData
