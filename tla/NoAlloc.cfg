\* Two workers, tensor or pipeline parallel, either of which may fail.
SPECIFICATION FairSpec
\* Nothing happens after the start of the engine.
CHECK_DEADLOCK FALSE
CONSTANTS
    Workers <- TwoWorkers
    Modules = {"a", "b", "c", "d", "mla", "moe"}
    Kind <- KindOf
    Sharable = {"a", "b", "mla"}
    Deployments <- ModelsByWorker
    None = "none"
    MaxEnables = 2
INVARIANTS
    EveryLayerHasCache
    SharedCacheUnwritten
    HookedOnce
    FreesOnlyHooked
PROPERTIES
    EngineStarts
