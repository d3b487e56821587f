--------------------------- MODULE NoAllocInstall ---------------------------
(***************************************************************************)
(* adapter/vllm_adapter.py: enable_no_alloc(), which patches vLLM's        *)
(* executor so that, when the engine asks for the specs of the key/value   *)
(* caches, every worker first patches its attention layers and lets all of *)
(* them but one give up their own cache; and free_kv_cache().              *)
(*                                                                         *)
(* A model is a sequence of modules per worker, in the order of the static *)
(* forward context: layers that TurboQuant takes (tq), layers that have a  *)
(* cache but are skipped (mla) and modules without attention (other).      *)
(* What vLLM does with a sharing target, to leave the layer out of the     *)
(* specs and to let it use the cache of the target, is external.           *)
(***************************************************************************)
EXTENDS Integers, Sequences, SequencesExt, FiniteSets

CONSTANTS
    Workers,        \* the workers of the executor, in the order of its replies
    Modules,        \* names of modules
    Kind,           \* of each module: tq, mla or other
    Sharable,       \* modules that have kv_sharing_target_layer_name
    Deployments,    \* the sequences of modules that the workers may have
    None,           \* no target
    MaxEnables      \* bound: calls of enable_no_alloc()

ASSUME InstallAssumption ==
    /\ Workers \in Seq(STRING) /\ Workers # <<>>
    /\ Kind \in [Modules -> {"tq", "mla", "other"}]
    /\ Sharable \subseteq Modules
    /\ Deployments \subseteq [ToSet(Workers) -> Seq(Modules)]
    /\ \A d \in Deployments : \A w \in ToSet(Workers) : IsInjective(d[w])
    /\ None \notin Modules
    /\ MaxEnables \in Nat

Worker == ToSet(Workers)

VARIABLES
    deployment,     \* the modules of each worker
    enables,        \* _TQ_NO_ALLOC_CONFIG: the number of the last call, or 0
    wrapped,        \* how often Executor.get_kv_cache_specs is patched
    engine,         \* where the engine is: starting, rpc, started
    pc,             \* where each worker is in _worker_install_tq()
    patches,        \* of each layer: the configurations it was patched with
    target,         \* kv_sharing_target_layer_name of each layer
    reply,          \* shared_layer_names of each worker
    specs,          \* what get_kv_cache_specs() returned for each worker
    caches          \* kv_caches of each worker: whose cache each entry is

vars == <<deployment, enables, wrapped, engine, pc, patches, target, reply,
          specs, caches>>

Init ==
    /\ deployment \in Deployments
    /\ enables = 0
    /\ wrapped = 0
    /\ engine = "starting"
    /\ pc = [w \in Worker |-> "ready"]
    /\ patches = [w \in Worker |-> [m \in Modules |-> <<>>]]
    /\ target = [w \in Worker |-> [m \in Modules |-> None]]
    /\ reply = [w \in Worker |-> <<>>]
    /\ specs = [w \in Worker |-> {}]
    /\ caches = [w \in Worker |-> <<>>]

\* The elements of a sequence that are in S, in their order: a loop with append.
Among(s, S) ==
    LET found[i \in 0 .. Len(s)] ==
            IF i = 0 THEN <<>>
            ELSE IF s[i] \in S THEN Append(found[i - 1], s[i])
            ELSE found[i - 1]
    IN  found[Len(s)]

\* discover_layers()
DiscoverLayers(w) == Among(deployment[w], {m \in Modules : Kind[m] = "tq"})

\* The layers of a worker that have a key/value cache.
Cached(w) == Among(deployment[w], {m \in Modules : Kind[m] # "other"})

\* Executor.get_kv_cache_specs() as vLLM has it: a layer with a sharing target
\* needs no cache of its own.
OrigGetSpecs(w) == {m \in ToSet(Cached(w)) : target[w][m] = None}

\* The layer whose cache a layer uses: vLLM binds a layer without specs to the
\* cache of its target, _patched_layout_update() in layouts that need it early.
CacheOf(w, sp, m) ==
    IF m \in sp[w] THEN m
    ELSE IF target[w][m] \in sp[w] THEN target[w][m] ELSE None

-----------------------------------------------------------------------------
\* Mutant of EnableNoAlloc: the executor is patched on every call.
EnableNoAllocAgain ==
    /\ engine = "starting"
    /\ enables < MaxEnables
    /\ enables' = enables + 1
    /\ wrapped' = wrapped + 1
    /\ UNCHANGED <<deployment, engine, pc, patches, target, reply, specs,
                   caches>>

\* enable_no_alloc(): the configuration is replaced, the executor is patched
\* once.
EnableNoAlloc ==
    /\ engine = "starting"
    /\ enables < MaxEnables
    /\ enables' = enables + 1
    /\ wrapped' = IF wrapped = 0 THEN 1 ELSE wrapped
    /\ UNCHANGED <<deployment, engine, pc, patches, target, reply, specs,
                   caches>>

\* The engine asks for the specs, of an executor that is not patched.
GetSpecs ==
    /\ engine = "starting"
    /\ wrapped = 0
    /\ engine' = "started"
    /\ specs' = [w \in Worker |-> OrigGetSpecs(w)]
    /\ caches' = [w \in Worker |-> Cached(w)]
    /\ UNCHANGED <<deployment, enables, wrapped, pc, patches, target, reply>>

\* patched_get_kv_cache_specs(), up to collective_rpc(): once per wrapper.
PatchedGetSpecs ==
    /\ engine = "starting"
    /\ wrapped > 0
    /\ engine' = "rpc"
    /\ pc' = [w \in Worker |-> "install"]
    /\ UNCHANGED <<deployment, enables, wrapped, patches, target, reply, specs,
                   caches>>

\* Each wrapper installs hooks on top of those of the wrapper that it calls.
Unpatched(w) ==
    {m \in ToSet(DiscoverLayers(w)) : Len(patches[w][m]) < wrapped}

\* One turn of the loop of install_hooks(): the state of a layer is created
\* and its forward and its cache update are patched.
InstallHook(w) ==
    /\ pc[w] = "install"
    /\ \E i \in DOMAIN DiscoverLayers(w) :
         LET m == DiscoverLayers(w)[i]
         IN  /\ m \in Unpatched(w)
             /\ \A j \in 1 .. i - 1 :
                  Len(patches[w][DiscoverLayers(w)[j]]) > Len(patches[w][m])
             /\ patches' = [patches EXCEPT ![w][m] = Append(@, enables)]
    /\ UNCHANGED <<deployment, enables, wrapped, engine, pc, target, reply,
                   specs, caches>>

\* The state of a layer cannot be created: the hooks before it stay.
InstallFails(w) ==
    /\ pc[w] = "install"
    /\ Unpatched(w) # {}
    /\ pc' = [pc EXCEPT ![w] = "failed"]
    /\ UNCHANGED <<deployment, enables, wrapped, engine, patches, target,
                   reply, specs, caches>>

(* Mutants of ShareCaches: the target is the first module with a cache; it *)
(* shares with itself.                                                     *)
ShareCachesOfFirst(w) ==
    /\ pc[w] = "install"
    /\ Unpatched(w) = {}
    /\ LET tq == DiscoverLayers(w)
           shared == Among(tq, Sharable \ {Head(Cached(w))})
       IN  /\ target' = [target EXCEPT ![w] = [m \in Modules |->
                           IF m \in ToSet(shared) THEN Head(Cached(w))
                           ELSE target[w][m]]]
           /\ reply' = [reply EXCEPT ![w] = shared]
    /\ pc' = [pc EXCEPT ![w] = "replied"]
    /\ UNCHANGED <<deployment, enables, wrapped, engine, patches, specs, caches>>

ShareCachesWithItself(w) ==
    /\ pc[w] = "install"
    /\ Unpatched(w) = {}
    /\ LET tq == DiscoverLayers(w)
           shared == Among(tq, Sharable)
       IN  /\ target' = [target EXCEPT ![w] = [m \in Modules |->
                           IF m \in ToSet(shared) THEN Head(tq)
                           ELSE target[w][m]]]
           /\ reply' = [reply EXCEPT ![w] = shared]
    /\ pc' = [pc EXCEPT ![w] = "replied"]
    /\ UNCHANGED <<deployment, enables, wrapped, engine, patches, specs, caches>>

\* All TurboQuant layers of the worker but the first share the cache of the
\* first, those that can.
ShareCaches(w) ==
    /\ pc[w] = "install"
    /\ Unpatched(w) = {}
    /\ LET tq == DiscoverLayers(w)
           shared == IF Len(tq) > 1 THEN Among(Tail(tq), Sharable) ELSE <<>>
       IN  /\ target' = [target EXCEPT ![w] = [m \in Modules |->
                           IF m \in ToSet(shared) THEN Head(tq)
                           ELSE IF Len(tq) > 1 /\ m = Head(tq) THEN None
                           ELSE target[w][m]]]
           /\ reply' = [reply EXCEPT ![w] = shared]
    /\ pc' = [pc EXCEPT ![w] = "replied"]
    /\ UNCHANGED <<deployment, enables, wrapped, engine, patches, specs, caches>>

\* Mutant of RpcReturns: only the answers of the others count.
RpcReturnsIfAllReply ==
    /\ engine = "rpc"
    /\ \A w \in Worker : pc[w] = "replied"
    /\ engine' = "started"
    /\ specs' = [w \in Worker |->
                   OrigGetSpecs(w) \ ToSet(reply[Workers[1]])]
    /\ caches' = [w \in Worker |->
                    [i \in DOMAIN Cached(w) |-> CacheOf(w, specs', Cached(w)[i])]]
    /\ UNCHANGED <<deployment, enables, wrapped, pc, patches, target, reply>>

\* collective_rpc() returns, or raises what a worker raised; then all specs are
\* kept, otherwise those that the first worker reports are removed from the
\* specs of all.  vLLM allocates the caches.
RpcReturns ==
    /\ engine = "rpc"
    /\ \A w \in Worker : pc[w] \in {"replied", "failed"}
    /\ engine' = "started"
    /\ specs' = [w \in Worker |->
                   IF \E v \in Worker : pc[v] = "failed" THEN OrigGetSpecs(w)
                   ELSE OrigGetSpecs(w) \ ToSet(reply[Workers[1]])]
    /\ caches' = [w \in Worker |->
                    [i \in DOMAIN Cached(w) |-> CacheOf(w, specs', Cached(w)[i])]]
    /\ UNCHANGED <<deployment, enables, wrapped, pc, patches, target, reply>>

\* layer_idx, an index into the static forward context.
LayerIdx(w, m) == CHOOSE i \in DOMAIN deployment[w] : deployment[w][i] = m

\* Mutant of FreeKvCache: the index is that of the layer among the TurboQuant
\* layers.
FreeKvCacheByRank(w) ==
    /\ engine = "started"
    /\ LET tq   == {m \in Modules : patches[w][m] # <<>>}
           rank == {i \in DOMAIN DiscoverLayers(w) : DiscoverLayers(w)[i] \in tq}
       IN  caches' = [caches EXCEPT ![w] = [i \in DOMAIN @ |->
                        IF i \in rank THEN None ELSE @[i]]]
    /\ UNCHANGED <<deployment, enables, wrapped, engine, pc, patches, target,
                   reply, specs>>

\* free_kv_cache(): the entries at the indices of the layers of the adapter
\* become placeholders.
FreeKvCache(w) ==
    /\ engine = "started"
    /\ pc[w] # "failed"
    /\ LET freed == {LayerIdx(w, m) :
                       m \in {n \in Modules : patches[w][n] # <<>>}}
       IN  caches' = [caches EXCEPT ![w] = [i \in DOMAIN @ |->
                        IF i \in freed THEN None ELSE @[i]]]
    /\ UNCHANGED <<deployment, enables, wrapped, engine, pc, patches, target,
                   reply, specs>>

Installing(w) == InstallHook(w) \/ InstallFails(w) \/ ShareCaches(w)

Next ==
    \/ EnableNoAlloc
    \/ GetSpecs
    \/ PatchedGetSpecs
    \/ RpcReturns
    \/ \E w \in Worker : Installing(w) \/ FreeKvCache(w)

Spec == Init /\ [][Next]_vars

\* vLLM starts its engine, and the workers run what they are sent.
FairSpec ==
    /\ Spec
    /\ WF_vars(GetSpecs \/ PatchedGetSpecs)
    /\ WF_vars(RpcReturns)
    /\ \A w \in Worker : WF_vars(Installing(w))

-----------------------------------------------------------------------------
(* A condition on how vLLM places a model.                                 *)

\* Tensor parallel workers hold the same modules, the stages of a pipeline
\* different ones: what the first worker shares no other worker keeps.
ReplicasOrStages ==
    \A d \in Deployments : \A v, w \in Worker :
        d[v] = d[w] \/ ToSet(d[v]) \cap ToSet(d[w]) = {}

-----------------------------------------------------------------------------
(* Properties.                                                             *)

Hooked(w, m) == patches[w][m] # <<>>

\* Whatever fails on whichever worker, no layer is left without a cache: what
\* it gives up it has a target for, and the target keeps its own.
EveryLayerHasCache ==
    engine = "started" =>
        \A w \in Worker : \A m \in ToSet(Cached(w)) :
            CacheOf(w, specs, m) # None

\* Layers that share a cache are patched, all of them, so that none writes its
\* keys over those of another: a worker on which the installation failed
\* halfway, whose other layers still write, shares nothing.
SharedCacheUnwritten ==
    engine = "started" =>
        \A w \in Worker : \A m, n \in ToSet(Cached(w)) :
            m # n /\ CacheOf(w, specs, m) = CacheOf(w, specs, n)
            => Hooked(w, m) /\ Hooked(w, n)

\* However often enable_no_alloc() is called, a layer is patched once, so that
\* no token is captured twice, and with the last configuration.
HookedOnce ==
    \A w \in Worker, m \in Modules :
        patches[w][m] # <<>> => patches[w][m] = <<enables>>

\* The index of a layer in the context is also that of its cache, which
\* layer_idx takes for granted: no module without a cache comes before it.
IndicesAgree(w) ==
    \A i \in DOMAIN Cached(w) : deployment[w][i] = Cached(w)[i]

\* free_kv_cache() takes the cache of no layer that still writes to it, be it
\* a layer that is skipped or one whose installation failed.
FreesOnlyHooked ==
    engine = "started" =>
        \A w \in Worker : IndicesAgree(w) =>
            \A i \in DOMAIN caches[w] :
                caches[w][i] # CacheOf(w, specs, Cached(w)[i])
                => Hooked(w, Cached(w)[i])

\* The engine starts, with the specs of all workers, also when some fail.
EngineStarts == <>(engine = "started")

=============================================================================
