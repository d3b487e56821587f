\* Two threads in one worker, one in another, one of which may crash.
SPECIFICATION FairSpec
CONSTANTS
    Workers = {"w1", "w2"}
    Threads = {"t1", "t2", "t3"}
    Home <- TwoAndOne
    NumParts = 2
    MaxFaults = 1
    Keys = {"prefill_current"}
    Unlocked = "unlocked"
    MaxStates = 5
    MaxReleases = 1
INVARIANTS
    TypeOK
    TornOnlyWhileWriting
    OneStatePerKey
    NoLateTokens
PROPERTIES
    FileSettles
    LockIsReleased
