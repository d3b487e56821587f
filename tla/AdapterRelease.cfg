\* A completed request is released.
SPECIFICATION Spec
CONSTANTS
    Capacity = 2
    MaxTokens = 8
    Requests <- ABC
    MaxNumSeqs = 1
    Workloads <- Short
    NoAlloc = TRUE
INVARIANTS
    ReleaseFrees
