\* A request that ends without a decode step is followed by another.
SPECIFICATION Spec
CONSTANTS
    Capacity = 2
    MaxTokens = 8
    Requests <- ABC
    MaxNumSeqs = 1
    Workloads <- MaybePrefillOnly
    NoAlloc = TRUE
INVARIANTS
    NoForeignTokens
