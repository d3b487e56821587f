------------------------ MODULE NoAllocInstallProofs ------------------------
(***************************************************************************)
(* The installation patches a layer once and with the last configuration,  *)
(* shares the caches of patched layers only and frees those only, for any  *)
(* workers, models and number of calls of enable_no_alloc(); and if the    *)
(* workers are replicas or stages of one model, every layer has a cache.   *)
(***************************************************************************)
EXTENDS NoAllocInstall, FiniteInduction

HookTypeOK ==
    /\ wrapped \in 0 .. 1
    /\ enables \in Nat
    /\ pc \in [Worker -> {"ready", "install", "replied", "failed"}]
    /\ patches \in [Worker -> [Modules -> Seq(Nat)]]

\* Nothing is installed before the engine asks for the specs, after which
\* the configuration stays.
NothingInstalled ==
    engine = "starting" =>
        \A w \in Worker : /\ pc[w] # "install"
                          /\ \A m \in Modules : patches[w][m] = <<>>

IInv == HookTypeOK /\ NothingInstalled /\ HookedOnce

LEMMA InitInvariant == Init => IInv
<1> SUFFICES ASSUME Init PROVE IInv
  OBVIOUS
<1>1. patches \in [Worker -> [Modules -> Seq(Nat)]]
  <2>1. <<>> \in Seq(Nat)
    OBVIOUS
  <2>2. QED
    BY <2>1 DEF Init
<1>2. \A w \in Worker : \A m \in Modules : patches[w][m] = <<>>
  BY DEF Init
<1>3. QED
  BY <1>1, <1>2 DEF Init, IInv, HookTypeOK, NothingInstalled, HookedOnce

\* With one wrapper a layer is patched only if it has not been patched.
LEMMA InstallHookStep ==
  ASSUME IInv, NEW w \in Worker, InstallHook(w)
  PROVE  IInv'
<1>1. PICK m \in Unpatched(w) :
        patches' = [patches EXCEPT ![w][m] = Append(@, enables)]
  BY DEF InstallHook
<1>2. /\ pc[w] = "install" /\ engine # "starting"
      /\ UNCHANGED <<wrapped, enables, pc, engine>>
  BY DEF InstallHook, IInv, NothingInstalled
<1>3. \A v \in Worker, n \in Modules :
        IF v = w /\ n = m THEN patches'[v][n] = Append(patches[v][n], enables)
                          ELSE patches'[v][n] = patches[v][n]
  BY <1>1 DEF IInv, HookTypeOK
<1>4. m \in Modules => patches'[w][m] = <<enables>>
  <2>1. SUFFICES ASSUME m \in Modules PROVE patches'[w][m] = <<enables>>
    OBVIOUS
  <2>2. patches[w][m] \in Seq(Nat)
    BY <2>1 DEF IInv, HookTypeOK
  <2>3. Len(patches[w][m]) < wrapped /\ wrapped <= 1
    BY DEF Unpatched, IInv, HookTypeOK
  <2>4. patches[w][m] = <<>>
    BY <2>2, <2>3 DEF IInv, HookTypeOK
  <2>5. QED
    BY <1>3, <2>1, <2>4
<1>5. HookTypeOK'
  <2>1. <<enables>> \in Seq(Nat)
    BY DEF IInv, HookTypeOK
  <2>2. \A v \in Worker, n \in Modules : patches'[v][n] \in Seq(Nat)
    BY <1>3, <1>4, <2>1 DEF IInv, HookTypeOK
  <2>3. patches' = [v \in Worker |-> [n \in Modules |-> patches'[v][n]]]
    BY <1>1 DEF IInv, HookTypeOK
  <2>4. patches' \in [Worker -> [Modules -> Seq(Nat)]]
    BY <2>2, <2>3
  <2>5. QED
    BY <1>2, <2>4 DEF IInv, HookTypeOK
<1>6. HookedOnce'
  BY <1>2, <1>3, <1>4 DEF IInv, HookedOnce
<1>7. NothingInstalled'
  BY <1>2 DEF NothingInstalled
<1>8. QED
  BY <1>5, <1>6, <1>7 DEF IInv

\* A new configuration comes before any layer is patched.
LEMMA EnableStep ==
  ASSUME IInv, EnableNoAlloc
  PROVE  IInv'
BY DEF IInv, HookTypeOK, NothingInstalled, HookedOnce, EnableNoAlloc

\* The other steps patch no layer.
LEMMA OthersStep ==
  ASSUME IInv, UNCHANGED <<enables, wrapped, patches>>,
         pc' \in [Worker -> {"ready", "install", "replied", "failed"}],
         engine' = "starting" => engine = "starting" /\ pc' = pc
  PROVE  IInv'
BY DEF IInv, HookTypeOK, NothingInstalled, HookedOnce

LEMMA NextInvariant == IInv /\ [Next]_vars => IInv'
<1> SUFFICES ASSUME IInv, [Next]_vars PROVE IInv'
  OBVIOUS
<1> USE DEF IInv, HookTypeOK
<1>1. CASE EnableNoAlloc
  BY <1>1, EnableStep
<1>2. CASE GetSpecs \/ PatchedGetSpecs \/ RpcReturns
  BY <1>2, OthersStep DEF GetSpecs, PatchedGetSpecs, RpcReturns
<1>3. ASSUME NEW w \in Worker, InstallHook(w) PROVE IInv'
  BY <1>3, InstallHookStep
<1>4. ASSUME NEW w \in Worker, InstallFails(w) \/ ShareCaches(w) PROVE IInv'
  <2>1. pc[w] = "install" /\ engine # "starting"
    BY <1>4 DEF InstallFails, ShareCaches, NothingInstalled
  <2>2. UNCHANGED <<enables, wrapped, patches, engine>>
    BY <1>4 DEF InstallFails, ShareCaches
  <2>3. pc' \in [Worker -> {"ready", "install", "replied", "failed"}]
    BY <1>4 DEF InstallFails, ShareCaches
  <2>4. QED
    BY <2>1, <2>2, <2>3, OthersStep
<1>5. ASSUME NEW w \in Worker, FreeKvCache(w) PROVE IInv'
  BY <1>5, OthersStep DEF FreeKvCache
<1>6. CASE UNCHANGED vars
  BY <1>6, OthersStep DEF vars
<1>7. QED
  BY <1>1, <1>2, <1>3, <1>4, <1>5, <1>6 DEF Next, Installing

\* vllm_adapter.py:810-846: however often enable_no_alloc() is called before
\* the engine starts, every layer is patched at most once, and with the
\* configuration of the last call.
THEOREM PatchedOnce == Spec => []HookedOnce
<1>1. IInv => HookedOnce
  BY DEF IInv
<1>2. QED
  BY <1>1, InitInvariant, NextInvariant, PTL DEF Spec

-----------------------------------------------------------------------------
(* The layers that are picked from a context.                              *)

\* What Among() has found of the first n elements of s.
FoundOf(f, s, n, S, A) ==
  /\ f \in Seq(A)
  /\ \A m : m \in ToSet(f) <=> m \in S /\ \E j \in 1 .. n : s[j] = m
  /\ IsInjective(s) => IsInjective(f)

LEMMA FoundNothing ==
  ASSUME NEW s, NEW S, NEW A
  PROVE  FoundOf(<<>>, s, 0, S, A)
<1>1. ToSet(<<>>) = {} /\ IsInjective(<<>>)
  BY DEF ToSet, IsInjective
<1>2. QED
  BY <1>1 DEF FoundOf

LEMMA FoundNext ==
  ASSUME NEW S, NEW A, NEW s \in Seq(A), NEW n \in 1 .. Len(s),
         NEW f, FoundOf(f, s, n - 1, S, A)
  PROVE  FoundOf(IF s[n] \in S THEN Append(f, s[n]) ELSE f, s, n, S, A)
<1>1. f \in Seq(A) /\ s[n] \in A
  BY DEF FoundOf
<1>2. \A j : j \in 1 .. n <=> j \in 1 .. n - 1 \/ j = n
  OBVIOUS
<1>3. CASE s[n] \notin S
  BY <1>2, <1>3 DEF FoundOf
<1>4. CASE s[n] \in S
  <2> DEFINE g == Append(f, s[n])
  <2>1. /\ g \in Seq(A) /\ DOMAIN g = 1 .. Len(f) + 1 /\ g[Len(f) + 1] = s[n]
        /\ Len(f) \in Nat /\ DOMAIN f = 1 .. Len(f)
        /\ \A j \in 1 .. Len(f) : g[j] = f[j]
    BY <1>1
  <2> HIDE DEF g
  <2>2. \A m : m \in ToSet(g) <=> m \in ToSet(f) \/ m = s[n]
    BY <2>1 DEF ToSet
  <2>3. \A m : m \in ToSet(g) <=> m \in S /\ \E j \in 1 .. n : s[j] = m
    BY <1>2, <1>4, <2>2 DEF FoundOf
  <2>4. ASSUME IsInjective(s) PROVE IsInjective(g)
    <3>1. IsInjective(f)
      BY <2>4 DEF FoundOf
    <3>2. s[n] \notin ToSet(f)
      <4>1. SUFFICES ASSUME NEW j \in 1 .. n - 1, s[j] = s[n] PROVE FALSE
        BY DEF FoundOf
      <4>2. j \in DOMAIN s /\ n \in DOMAIN s /\ j # n
        OBVIOUS
      <4>3. QED
        BY <2>4, <4>1, <4>2 DEF IsInjective
    <3>3. \A j \in 1 .. Len(f) : g[j] # s[n]
      BY <2>1, <3>2 DEF ToSet
    <3>4. \A a, b \in 1 .. Len(f) : g[a] = g[b] => a = b
      BY <2>1, <3>1 DEF IsInjective
    <3>5. \A j : j \in DOMAIN g <=> j \in 1 .. Len(f) \/ j = Len(f) + 1
      BY <2>1
    <3>6. QED
      BY <2>1, <3>3, <3>4, <3>5 DEF IsInjective
  <2>5. FoundOf(g, s, n, S, A)
    BY <2>1, <2>3, <2>4 DEF FoundOf
  <2>6. QED
    BY <1>4, <2>5 DEF g
<1>5. QED
  BY <1>3, <1>4

\* Among() has the elements of s that are in S, and has none twice that s
\* does not have twice.
LEMMA AmongFacts ==
  ASSUME NEW S, NEW A, NEW s \in Seq(A)
  PROVE  FoundOf(Among(s, S), s, Len(s), S, A)
<1> DEFINE N == Len(s)
           Z == Seq(A)
           next(f, i) == IF s[i] \in S THEN Append(f, s[i]) ELSE f
           h == [x \in (1 .. N) \X Z |-> next(x[2], x[1])]
           loop(f) == [i \in 0 .. N |-> IF i = 0 THEN <<>>
                                        ELSE IF s[i] \in S
                                             THEN Append(f[i - 1], s[i])
                                        ELSE f[i - 1]]
           found == CHOOSE f : f = loop(f)
<1>1. N \in Nat /\ <<>> \in Z
  OBVIOUS
<1>2. h \in [(1 .. N) \X Z -> Z]
  <2>1. ASSUME NEW f \in Z, NEW i \in 1 .. N PROVE next(f, i) \in Z
    BY <2>1
  <2> HIDE DEF next, Z
  <2>2. QED
    BY <2>1
<1>3. \E f : f = loop(f)
  <2> HIDE DEF Z, N, h
  <2>1. PICK f : Loop(f, N, Z, <<>>, h)
    BY <1>1, <1>2, LoopExists
  <2>2. ASSUME NEW i \in 0 .. N, i # 0
        PROVE  h[<<i, f[i - 1]>>] = next(f[i - 1], i)
    <3>1. i \in 1 .. N /\ f[i - 1] \in Z
      BY <1>1, <2>1, <2>2 DEF Loop
    <3>2. QED
      BY <3>1 DEF h
  <2>3. f = loop(f)
    BY <2>1, <2>2 DEF Loop
  <2>4. QED
    BY <2>3
<1>4. found = loop(found)
  <2> HIDE DEF loop
  <2>1. QED
    BY <1>3
<1>5. Among(s, S) = found[N]
  BY DEF Among
<1> HIDE DEF found
<1>6. found[0] = <<>> /\ \A i \in 1 .. N : found[i] = next(found[i - 1], i)
  <2>1. \A i \in 0 .. N : found[i] = IF i = 0 THEN <<>> ELSE next(found[i - 1], i)
    BY <1>4
  <2> HIDE DEF N, loop, next
  <2>2. QED
    BY <1>1, <2>1
<1> DEFINE T == {i \in 0 .. N : FoundOf(found[i], s, i, S, A)}
<1>7. 0 \in T
  BY <1>1, <1>6, FoundNothing
<1>8. ASSUME NEW i \in 0 .. N - 1, i \in T
      PROVE  i + 1 \in T
  <2>1. i + 1 \in 1 .. Len(s) /\ (i + 1) - 1 = i
    BY <1>1
  <2>2. FoundOf(found[i], s, (i + 1) - 1, S, A)
    BY <1>8, <2>1
  <2>3. found[i + 1] = next(found[i], i + 1)
    BY <1>6, <2>1
  <2>4. FoundOf(next(found[i], i + 1), s, i + 1, S, A)
    BY <2>1, <2>2, FoundNext
  <2>5. QED
    BY <2>1, <2>3, <2>4
<1>9. QED
  <2> HIDE DEF T, N
  <2>1. \A i \in 0 .. N : i \in T
    BY <1>1, <1>7, <1>8, UpToInduction
  <2>2. QED
    BY <1>1, <1>5, <2>1 DEF T, N

-----------------------------------------------------------------------------
(* The layers of a worker, and those that share.                           *)

\* The layers of w that share the cache of its first.
Shared(w) ==
  IF Len(DiscoverLayers(w)) > 1
  THEN Among(Tail(DiscoverLayers(w)), Sharable) ELSE <<>>

\* A layer of w that TurboQuant takes, a layer of w that has a cache.
IsTQ(w, m)     == m \in ToSet(deployment[w]) /\ Kind[m] = "tq"
HasCache(w, m) == m \in ToSet(deployment[w]) /\ Kind[m] # "other"

LayersAreFound(w) ==
  /\ DiscoverLayers(w) \in Seq(Modules)
  /\ IsInjective(DiscoverLayers(w))
  /\ \A m : m \in ToSet(DiscoverLayers(w)) <=> IsTQ(w, m)
  /\ Cached(w) \in Seq(Modules)
  /\ \A m : m \in ToSet(Cached(w)) <=> HasCache(w, m)

LEMMA LayersFacts ==
  ASSUME deployment \in Deployments, NEW w \in Worker
  PROVE  LayersAreFound(w)
<1> DEFINE d == deployment[w]
           TQ == {m \in Modules : Kind[m] = "tq"}
           CK == {m \in Modules : Kind[m] # "other"}
<1>1. d \in Seq(Modules) /\ IsInjective(d)
  BY InstallAssumption DEF Worker
<1>2. \A m : m \in ToSet(d) <=> \E j \in 1 .. Len(d) : d[j] = m
  BY <1>1 DEF ToSet
<1>3. \A m \in ToSet(d) : m \in Modules
  BY <1>1 DEF ToSet
<1>4. /\ FoundOf(DiscoverLayers(w), d, Len(d), TQ, Modules)
      /\ FoundOf(Cached(w), d, Len(d), CK, Modules)
  BY <1>1, AmongFacts DEF DiscoverLayers, Cached
<1> HIDE DEF d
<1>5. /\ \A m : m \in ToSet(DiscoverLayers(w)) <=> m \in ToSet(d) /\ Kind[m] = "tq"
      /\ \A m : m \in ToSet(Cached(w)) <=> m \in ToSet(d) /\ Kind[m] # "other"
  BY <1>2, <1>3, <1>4 DEF FoundOf
<1>6. QED
  BY <1>1, <1>4, <1>5 DEF FoundOf, LayersAreFound, IsTQ, HasCache, d

\* A worker that shares a cache shares that of its first layer, which keeps
\* its own.
SharedIsOK(w) ==
  \A m \in ToSet(Shared(w)) :
    /\ IsTQ(w, m)
    /\ Head(DiscoverLayers(w)) \in Modules
    /\ IsTQ(w, Head(DiscoverLayers(w)))
    /\ Head(DiscoverLayers(w)) \notin ToSet(Shared(w))

LEMMA SharedFacts ==
  ASSUME deployment \in Deployments, NEW w \in Worker
  PROVE  SharedIsOK(w)
<1> DEFINE tq == DiscoverLayers(w)
           tl == Tail(tq)
<1>1. /\ tq \in Seq(Modules) /\ IsInjective(tq)
      /\ \A m : m \in ToSet(tq) <=> IsTQ(w, m)
  BY LayersFacts DEF LayersAreFound
<1> SUFFICES ASSUME NEW m \in ToSet(Shared(w))
             PROVE  /\ IsTQ(w, m)
                    /\ Head(tq) \in Modules
                    /\ IsTQ(w, Head(tq))
                    /\ Head(tq) \notin ToSet(Shared(w))
  BY DEF SharedIsOK
<1>2. Len(tq) > 1 /\ Shared(w) = Among(tl, Sharable)
  <2>1. CASE Len(tq) > 1
    BY <2>1 DEF Shared
  <2>2. CASE ~ (Len(tq) > 1)
    <3>1. Shared(w) = <<>>
      BY <2>2 DEF Shared
    <3>2. QED
      BY <3>1 DEF ToSet
  <2>3. QED
    BY <2>1, <2>2
<1> HIDE DEF tq
<1>3. /\ tl \in Seq(Modules) /\ Len(tl) = Len(tq) - 1
      /\ \A j \in 1 .. Len(tl) : tl[j] = tq[j + 1]
      /\ Head(tq) = tq[1] /\ Head(tq) \in Modules
  BY <1>1, <1>2
<1>4. FoundOf(Shared(w), tl, Len(tl), Sharable, Modules)
  BY <1>2, <1>3, AmongFacts
<1>5. \A n \in ToSet(Shared(w)) : \E j \in 1 .. Len(tl) : tl[j] = n
  BY <1>4 DEF FoundOf
<1>6. \A n \in ToSet(Shared(w)) : \E j \in 2 .. Len(tq) : tq[j] = n
  <2>1. ASSUME NEW n \in ToSet(Shared(w))
        PROVE  \E j \in 2 .. Len(tq) : tq[j] = n
    <3>1. PICK j \in 1 .. Len(tl) : tl[j] = n
      BY <1>5
    <3>2. j + 1 \in 2 .. Len(tq) /\ tq[j + 1] = n
      BY <1>1, <1>3, <3>1
    <3>3. QED
      BY <3>2
  <2>2. QED
    BY <2>1
<1>7. DOMAIN tq = 1 .. Len(tq) /\ 1 \in 1 .. Len(tq)
  BY <1>1, <1>2
<1>8. IsTQ(w, m)
  BY <1>1, <1>6, <1>7 DEF ToSet
<1>9. IsTQ(w, Head(tq))
  BY <1>1, <1>3, <1>7 DEF ToSet
<1>10. Head(tq) \notin ToSet(Shared(w))
  BY <1>3, <1>1, <1>6, <1>7 DEF IsInjective
<1>11. QED
  BY <1>3, <1>8, <1>9, <1>10

-----------------------------------------------------------------------------
(* What the workers have agreed on, and what is allocated from it.         *)

\* What is known of worker w: only its own layers are patched; its layers
\* have targets once it has replied, when all of them are patched.
WorkerOK(w) ==
  /\ \A m \in Modules : Hooked(w, m) => IsTQ(w, m)
  /\ pc[w] # "ready" => wrapped = 1
  /\ pc[w] # "replied" => /\ \A m \in Modules : target[w][m] = None
                          /\ reply[w] = <<>>
  /\ pc[w] = "replied" =>
       /\ \A m \in Modules : IsTQ(w, m) => Hooked(w, m)
       /\ \A m \in Modules : target[w][m] =
            IF m \in ToSet(Shared(w)) THEN Head(DiscoverLayers(w)) ELSE None
       /\ reply[w] = Shared(w)

\* The specs that a worker is left with.
SpecsOK(w) ==
  specs[w] = IF \E v \in Worker : pc[v] # "replied" THEN OrigGetSpecs(w)
             ELSE OrigGetSpecs(w) \ ToSet(reply[Workers[1]])

\* The indices of the patched layers of a worker.
HookedAt(w, i) == \E m \in Modules : Hooked(w, m) /\ i = LayerIdx(w, m)

\* An entry of kv_caches is the cache that the layer uses, unless its index is
\* that of a patched layer.
CachesOK(w) ==
  /\ DOMAIN caches[w] = DOMAIN Cached(w)
  /\ \A i \in DOMAIN caches[w] :
       caches[w][i] = CacheOf(w, specs, Cached(w)[i]) \/ HookedAt(w, i)

SharingInv ==
  /\ deployment \in Deployments
  /\ engine \in {"starting", "rpc", "started"}
  /\ target \in [Worker -> [Modules -> Modules \cup {None}]]
  /\ DOMAIN reply = Worker /\ DOMAIN caches = Worker
  /\ \A w \in Worker : WorkerOK(w)
  /\ engine = "starting" => \A w \in Worker : pc[w] = "ready"
  /\ engine = "started" =>
       \A w \in Worker : pc[w] # "install" /\ SpecsOK(w) /\ CachesOK(w)

IndInv == IInv /\ SharingInv

LEMMA InitSharing == Init => SharingInv
<1> SUFFICES ASSUME Init PROVE SharingInv
  OBVIOUS
<1>1. \A w \in Worker : WorkerOK(w)
  BY DEF Init, WorkerOK, Hooked
<1>2. QED
  BY <1>1 DEF Init, SharingInv

LEMMA EnableSharing ==
  ASSUME IndInv, EnableNoAlloc
  PROVE  SharingInv'
<1>1. UNCHANGED <<deployment, engine, pc, patches, target, reply, specs, caches>>
      /\ engine = "starting"
  BY DEF EnableNoAlloc
<1>2. \A w \in Worker : WorkerOK(w) /\ pc[w] = "ready"
  BY <1>1 DEF IndInv, SharingInv
<1>3. \A w \in Worker : WorkerOK(w)'
  BY <1>1, <1>2 DEF WorkerOK, Hooked, IsTQ
<1>4. QED
  BY <1>1, <1>2, <1>3 DEF IndInv, SharingInv

\* A layer with a cache and without a target has specs of its own.
LEMMA CachedFacts ==
  ASSUME deployment \in Deployments, NEW w \in Worker
  PROVE  /\ \A i \in DOMAIN Cached(w) : Cached(w)[i] \in Modules
         /\ \A i \in DOMAIN Cached(w) : Cached(w)[i] \in ToSet(Cached(w))
         /\ \A m \in ToSet(Cached(w)) :
              m \in Modules /\ (target[w][m] = None <=> m \in OrigGetSpecs(w))
<1>1. Cached(w) \in Seq(Modules)
  BY LayersFacts DEF LayersAreFound
<1>2. QED
  BY <1>1 DEF ToSet, OrigGetSpecs

LEMMA GetSpecsSharing ==
  ASSUME IndInv, GetSpecs
  PROVE  SharingInv'
<1>1. /\ UNCHANGED <<deployment, wrapped, pc, patches, target, reply>>
      /\ specs' = [w \in Worker |-> OrigGetSpecs(w)]
      /\ caches' = [w \in Worker |-> Cached(w)]
      /\ engine' = "started" /\ engine = "starting"
  BY DEF GetSpecs
<1>2. deployment \in Deployments /\ \A w \in Worker : WorkerOK(w) /\ pc[w] = "ready"
  BY <1>1 DEF IndInv, SharingInv
<1>3. \A w \in Worker : WorkerOK(w)'
  BY <1>1, <1>2 DEF WorkerOK, Hooked, IsTQ
<1>4. ASSUME NEW w \in Worker PROVE SpecsOK(w)'
  <2>1. \E v \in Worker : pc'[v] # "replied"
    BY <1>1, <1>2
  <2>2. specs'[w] = OrigGetSpecs(w) /\ OrigGetSpecs(w)' = OrigGetSpecs(w)
    BY <1>1 DEF OrigGetSpecs, Cached
  <2>3. QED
    BY <2>1, <2>2 DEF SpecsOK
<1>5. ASSUME NEW w \in Worker PROVE CachesOK(w)'
  <2>1. caches'[w] = Cached(w) /\ Cached(w)' = Cached(w)
    BY <1>1 DEF Cached
  <2>2. ASSUME NEW i \in DOMAIN Cached(w)
        PROVE  Cached(w)[i] = CacheOf(w, specs, Cached(w)[i])'
    <3>1. Cached(w)[i] \in ToSet(Cached(w)) /\ Cached(w)[i] \in Modules
      BY <1>2, CachedFacts
    <3>2. target[w][Cached(w)[i]] = None
      BY <1>2, <3>1 DEF WorkerOK
    <3>3. Cached(w)[i] \in OrigGetSpecs(w)
      BY <1>2, <3>1, <3>2, CachedFacts
    <3>4. Cached(w)[i] \in specs'[w]
      BY <1>1, <3>3
    <3>5. QED
      BY <2>1, <3>4 DEF CacheOf
  <2>3. QED
    BY <2>1, <2>2 DEF CachesOK
<1>6. QED
  BY <1>1, <1>2, <1>3, <1>4, <1>5 DEF IndInv, SharingInv

LEMMA PatchedGetSpecsSharing ==
  ASSUME IndInv, PatchedGetSpecs
  PROVE  SharingInv'
<1>1. /\ UNCHANGED <<deployment, wrapped, patches, target, reply, specs, caches>>
      /\ engine' = "rpc" /\ engine = "starting" /\ wrapped > 0
      /\ pc' = [w \in Worker |-> "install"]
  BY DEF PatchedGetSpecs
<1>2. /\ \A w \in Worker : WorkerOK(w) /\ pc[w] = "ready"
      /\ wrapped \in 0 .. 1
  BY <1>1 DEF IndInv, SharingInv, IInv, HookTypeOK
<1>3. \A w \in Worker : WorkerOK(w)'
  BY <1>1, <1>2 DEF WorkerOK, Hooked, IsTQ
<1>4. QED
  BY <1>1, <1>2, <1>3 DEF IndInv, SharingInv

LEMMA InstallHookSharing ==
  ASSUME IndInv, NEW w \in Worker, InstallHook(w)
  PROVE  SharingInv'
<1>1. PICK m \in Unpatched(w) :
        patches' = [patches EXCEPT ![w][m] = Append(@, enables)]
  BY DEF InstallHook
<1>2. /\ UNCHANGED <<deployment, enables, wrapped, engine, pc, target, reply,
                     specs, caches>>
      /\ pc[w] = "install"
  BY DEF InstallHook
<1>3. IsTQ(w, m)
  <2>1. LayersAreFound(w)
    BY LayersFacts DEF IndInv, SharingInv
  <2>2. QED
    BY <2>1 DEF LayersAreFound, Unpatched
<1>4. \A v \in Worker, n \in Modules :
        patches'[v][n] # patches[v][n] => v = w /\ n = m
  BY <1>1 DEF IndInv, IInv, HookTypeOK
<1>5. ASSUME NEW v \in Worker PROVE WorkerOK(v)'
  <2>1. WorkerOK(v)
    BY DEF IndInv, SharingInv
  <2>2. CASE v = w
    BY <1>2, <1>3, <1>4, <2>1, <2>2 DEF WorkerOK, Hooked, IsTQ
  <2>3. CASE v # w
    <3>1. \A n \in Modules : patches'[v][n] = patches[v][n]
      BY <1>4, <2>3
    <3>2. Shared(v)' = Shared(v) /\ DiscoverLayers(v)' = DiscoverLayers(v)
      BY <1>2 DEF Shared, DiscoverLayers
    <3>3. QED
      BY <1>2, <2>1, <3>1, <3>2 DEF WorkerOK, Hooked, IsTQ
  <2>4. QED
    BY <2>2, <2>3
<1>6. engine # "started"
  BY <1>2 DEF IndInv, SharingInv
<1>7. QED
  BY <1>2, <1>5, <1>6 DEF IndInv, SharingInv

LEMMA InstallFailsSharing ==
  ASSUME IndInv, NEW w \in Worker, InstallFails(w)
  PROVE  SharingInv'
<1>1. /\ UNCHANGED <<deployment, wrapped, engine, patches, target, reply,
                     specs, caches>>
      /\ pc' = [pc EXCEPT ![w] = "failed"] /\ pc[w] = "install"
  BY DEF InstallFails
<1>2. ASSUME NEW v \in Worker PROVE WorkerOK(v)'
  <2>1. WorkerOK(v)
    BY DEF IndInv, SharingInv
  <2>2. pc'[v] = IF v = w THEN "failed" ELSE pc[v]
    BY <1>1 DEF IndInv, IInv, HookTypeOK
  <2>3. Shared(v)' = Shared(v) /\ DiscoverLayers(v)' = DiscoverLayers(v)
    BY <1>1 DEF Shared, DiscoverLayers
  <2>4. QED
    BY <1>1, <2>1, <2>2, <2>3 DEF WorkerOK, Hooked, IsTQ
<1>3. engine = "rpc"
  BY <1>1 DEF IndInv, SharingInv
<1>4. QED
  BY <1>1, <1>2, <1>3 DEF IndInv, SharingInv

\* All layers of the worker are patched when it gives up their caches.
LEMMA ShareCachesSharing ==
  ASSUME IndInv, NEW w \in Worker, ShareCaches(w)
  PROVE  SharingInv'
<1> DEFINE first == Head(DiscoverLayers(w))
<1>1. /\ UNCHANGED <<deployment, enables, wrapped, engine, patches, specs, caches>>
      /\ pc' = [pc EXCEPT ![w] = "replied"] /\ pc[w] = "install"
      /\ Unpatched(w) = {}
      /\ reply' = [reply EXCEPT ![w] = Shared(w)]
      /\ target' = [target EXCEPT ![w] = [m \in Modules |->
                      IF m \in ToSet(Shared(w)) THEN first
                      ELSE IF Len(DiscoverLayers(w)) > 1 /\ m = first THEN None
                      ELSE target[w][m]]]
  BY DEF ShareCaches, Shared
<1>2. /\ deployment \in Deployments
      /\ \A v \in Worker : WorkerOK(v)
      /\ pc \in [Worker -> {"ready", "install", "replied", "failed"}]
      /\ target \in [Worker -> [Modules -> Modules \cup {None}]]
      /\ DOMAIN reply = Worker /\ wrapped \in 0 .. 1
      /\ patches \in [Worker -> [Modules -> Seq(Nat)]]
  BY DEF IndInv, IInv, HookTypeOK, SharingInv
<1>3. SharedIsOK(w) /\ LayersAreFound(w)
  BY <1>2, LayersFacts, SharedFacts
<1>4. \A m \in Modules : target[w][m] = None
  BY <1>1, <1>2 DEF WorkerOK
<1>5. \A m \in Modules : target'[w][m] =
        IF m \in ToSet(Shared(w)) THEN first ELSE None
  BY <1>1, <1>2, <1>4
<1>6. \A m \in Modules : m \in ToSet(Shared(w)) => first \in Modules
  BY <1>3 DEF SharedIsOK
<1>7. target' \in [Worker -> [Modules -> Modules \cup {None}]]
  <2> DEFINE t == [m \in Modules |->
                      IF m \in ToSet(Shared(w)) THEN first
                      ELSE IF Len(DiscoverLayers(w)) > 1 /\ m = first THEN None
                      ELSE target[w][m]]
  <2>1. t \in [Modules -> Modules \cup {None}]
    BY <1>2, <1>6
  <2>2. target' = [target EXCEPT ![w] = t]
    BY <1>1
  <2> HIDE DEF t
  <2>3. QED
    BY <1>2, <2>1, <2>2
<1>8. ASSUME NEW v \in Worker PROVE WorkerOK(v)'
  <2>1. Shared(v)' = Shared(v) /\ DiscoverLayers(v)' = DiscoverLayers(v)
    BY <1>1 DEF Shared, DiscoverLayers
  <2>2. CASE v # w
    <3>1. UNCHANGED <<pc[v], target[v], reply[v], patches[v], wrapped, deployment>>
      BY <1>1, <1>2, <2>2
    <3>2. QED
      BY <1>2, <2>1, <3>1 DEF WorkerOK, Hooked, IsTQ
  <2>3. CASE v = w
    <3>1. pc'[w] = "replied" /\ reply'[w] = Shared(w) /\ wrapped' = 1
      BY <1>1, <1>2 DEF WorkerOK
    <3>2. \A m \in Modules : IsTQ(w, m) => Hooked(w, m)
      <4>1. SUFFICES ASSUME NEW m \in Modules, IsTQ(w, m) PROVE Hooked(w, m)
        OBVIOUS
      <4>2. ~ (Len(patches[w][m]) < wrapped) /\ wrapped = 1
        BY <1>1, <1>2, <1>3, <4>1, <3>1 DEF Unpatched, LayersAreFound
      <4>3. Len(<<>>) = 0
        OBVIOUS
      <4>4. QED
        BY <4>2, <4>3 DEF Hooked
    <3>3. \A m \in Modules : (IsTQ(w, m) => Hooked(w, m))'
      BY <1>1, <3>2 DEF IsTQ, Hooked
    <3>4. \A m \in Modules : (Hooked(w, m) => IsTQ(w, m))'
      BY <1>1, <1>2 DEF WorkerOK, IsTQ, Hooked
    <3>5. QED
      BY <1>5, <2>1, <2>3, <3>1, <3>3, <3>4 DEF WorkerOK
  <2>4. QED
    BY <2>2, <2>3
<1>9. engine = "rpc"
  BY <1>1 DEF IndInv, SharingInv
<1>10. DOMAIN reply' = Worker /\ DOMAIN caches' = Worker
  BY <1>1 DEF IndInv, SharingInv
<1>11. QED
  BY <1>1, <1>2, <1>7, <1>8, <1>9, <1>10 DEF SharingInv

LEMMA RpcReturnsSharing ==
  ASSUME IndInv, RpcReturns
  PROVE  SharingInv'
<1>1. /\ UNCHANGED <<deployment, wrapped, pc, patches, target, reply>>
      /\ engine' = "started"
      /\ \A w \in Worker : pc[w] \in {"replied", "failed"}
      /\ specs' = [w \in Worker |->
                     IF \E v \in Worker : pc[v] = "failed" THEN OrigGetSpecs(w)
                     ELSE OrigGetSpecs(w) \ ToSet(reply[Workers[1]])]
      /\ caches' = [w \in Worker |-> [i \in DOMAIN Cached(w) |->
                      CacheOf(w, specs', Cached(w)[i])]]
  BY DEF RpcReturns
<1>2. \A w \in Worker : WorkerOK(w)
  BY DEF IndInv, SharingInv
<1>3. ASSUME NEW w \in Worker PROVE WorkerOK(w)'
  <2>1. Shared(w)' = Shared(w) /\ DiscoverLayers(w)' = DiscoverLayers(w)
    BY <1>1 DEF Shared, DiscoverLayers
  <2>2. QED
    BY <1>1, <1>2, <2>1 DEF WorkerOK, Hooked, IsTQ
<1>4. ASSUME NEW w \in Worker PROVE SpecsOK(w)'
  <2>1. (\E v \in Worker : pc[v] = "failed") <=> \E v \in Worker : pc[v] # "replied"
    BY <1>1
  <2>2. OrigGetSpecs(w)' = OrigGetSpecs(w)
    BY <1>1 DEF OrigGetSpecs, Cached
  <2>3. QED
    BY <1>1, <2>1, <2>2 DEF SpecsOK
<1>5. ASSUME NEW w \in Worker PROVE CachesOK(w)'
  <2>1. Cached(w)' = Cached(w)
    BY <1>1 DEF Cached
  <2>2. \A m : CacheOf(w, specs, m)' = CacheOf(w, specs', m)
    BY <1>1 DEF CacheOf
  <2>3. caches'[w] = [i \in DOMAIN Cached(w) |-> CacheOf(w, specs', Cached(w)[i])]
    BY <1>1
  <2>4. QED
    BY <2>1, <2>2, <2>3 DEF CachesOK
<1>6. QED
  BY <1>1, <1>3, <1>4, <1>5 DEF IndInv, SharingInv

LEMMA FreeKvCacheSharing ==
  ASSUME IndInv, NEW w \in Worker, FreeKvCache(w)
  PROVE  SharingInv'
<1> DEFINE freed == {LayerIdx(w, m) : m \in {n \in Modules : patches[w][n] # <<>>}}
<1>1. /\ UNCHANGED <<deployment, wrapped, engine, pc, patches, target, reply, specs>>
      /\ caches' = [caches EXCEPT ![w] = [i \in DOMAIN @ |->
                      IF i \in freed THEN None ELSE @[i]]]
      /\ engine = "started"
  BY DEF FreeKvCache
<1>2. /\ \A v \in Worker : WorkerOK(v) /\ pc[v] # "install" /\ SpecsOK(v) /\ CachesOK(v)
      /\ DOMAIN caches = Worker
  BY <1>1 DEF IndInv, SharingInv
<1>3. \A i \in freed : HookedAt(w, i)
  BY DEF HookedAt, Hooked
<1> HIDE DEF freed
<1>4. ASSUME NEW v \in Worker PROVE CachesOK(v)'
  <2>1. /\ Cached(v)' = Cached(v)
        /\ \A m : CacheOf(v, specs, m)' = CacheOf(v, specs, m)
    BY <1>1 DEF Cached, CacheOf
  <2>2. \A i : HookedAt(v, i)' <=> HookedAt(v, i)
    BY <1>1 DEF HookedAt, Hooked, LayerIdx
  <2>3. DOMAIN caches'[v] = DOMAIN caches[v]
    BY <1>1, <1>2
  <2>4. ASSUME NEW i \in DOMAIN caches[v]
        PROVE  caches'[v][i] = caches[v][i] \/ HookedAt(v, i)
    <3>1. CASE v = w
      <4>1. caches'[v] = [j \in DOMAIN caches[v] |->
                            IF j \in freed THEN None ELSE caches[v][j]]
        BY <1>1, <1>2, <3>1
      <4>2. QED
        BY <1>3, <3>1, <4>1
    <3>2. CASE v # w
      BY <1>1, <1>2, <3>2
    <3>3. QED
      BY <3>1, <3>2
  <2>5. QED
    BY <1>2, <2>1, <2>2, <2>3, <2>4 DEF CachesOK
<1>5. ASSUME NEW v \in Worker PROVE WorkerOK(v)' /\ SpecsOK(v)'
  <2>1. Shared(v)' = Shared(v) /\ DiscoverLayers(v)' = DiscoverLayers(v)
    BY <1>1 DEF Shared, DiscoverLayers
  <2>2. OrigGetSpecs(v)' = OrigGetSpecs(v)
    BY <1>1 DEF OrigGetSpecs, Cached
  <2>3. WorkerOK(v)'
    BY <1>1, <1>2, <2>1 DEF WorkerOK, Hooked, IsTQ
  <2>4. SpecsOK(v)'
    BY <1>1, <1>2, <2>2 DEF SpecsOK
  <2>5. QED
    BY <2>3, <2>4
<1>6. DOMAIN caches' = Worker
  BY <1>1, <1>2
<1>7. QED
  BY <1>1, <1>2, <1>4, <1>5, <1>6 DEF IndInv, SharingInv

LEMMA UnchangedSharing ==
  ASSUME IndInv, UNCHANGED vars
  PROVE  SharingInv'
<1>1. UNCHANGED <<deployment, wrapped, engine, pc, patches, target, reply, specs,
                  caches>>
  BY DEF vars
<1>2. ASSUME NEW v \in Worker
      PROVE  /\ WorkerOK(v)' <=> WorkerOK(v)
             /\ SpecsOK(v)' <=> SpecsOK(v)
             /\ CachesOK(v)' <=> CachesOK(v)
  <2>1. /\ Shared(v)' = Shared(v) /\ DiscoverLayers(v)' = DiscoverLayers(v)
        /\ OrigGetSpecs(v)' = OrigGetSpecs(v) /\ Cached(v)' = Cached(v)
        /\ \A m : CacheOf(v, specs, m)' = CacheOf(v, specs, m)
        /\ \A i : HookedAt(v, i)' <=> HookedAt(v, i)
    BY <1>1 DEF Shared, DiscoverLayers, OrigGetSpecs, Cached, CacheOf,
                HookedAt, Hooked, LayerIdx
  <2>2. QED
    BY <1>1, <2>1 DEF WorkerOK, SpecsOK, CachesOK, Hooked, IsTQ
<1>3. QED
  BY <1>1, <1>2 DEF IndInv, SharingInv

LEMMA NextSharing == IndInv /\ [Next]_vars => IndInv'
<1> SUFFICES ASSUME IndInv, [Next]_vars PROVE IndInv'
  OBVIOUS
<1>1. IInv'
  BY NextInvariant DEF IndInv
<1>2. SharingInv'
  <2>1. ASSUME NEW w \in Worker, Installing(w) \/ FreeKvCache(w)
        PROVE  SharingInv'
    BY <2>1, InstallHookSharing, InstallFailsSharing, ShareCachesSharing,
       FreeKvCacheSharing DEF Installing
  <2>2. QED
    BY <2>1, EnableSharing, GetSpecsSharing, PatchedGetSpecsSharing,
       RpcReturnsSharing, UnchangedSharing DEF Next
<1>3. QED
  BY <1>1, <1>2 DEF IndInv

LEMMA AlwaysShared == Spec => []IndInv
<1>1. Init => IndInv
  BY InitInvariant, InitSharing DEF IndInv
<1>2. QED
  BY <1>1, NextSharing, PTL DEF Spec

-----------------------------------------------------------------------------
(* The properties.                                                         *)

\* A layer without specs is one that a worker has given up, unless it is
\* another worker that has a layer of the same name.
LEMMA SpecsFacts ==
  ASSUME IndInv, engine = "started", NEW w \in Worker,
         NEW m \in ToSet(Cached(w))
  PROVE  /\ m \in Modules
         /\ target[w][m] = None => m \in specs[w] \/
              /\ \A v \in Worker : pc[v] = "replied"
              /\ Workers[1] \in Worker
              /\ m \in ToSet(Shared(Workers[1]))
         /\ target[w][m] # None =>
              /\ m \notin specs[w]
              /\ pc[w] = "replied"
              /\ m \in ToSet(Shared(w))
              /\ target[w][m] = Head(DiscoverLayers(w))
<1>1. /\ deployment \in Deployments
      /\ \A v \in Worker : WorkerOK(v) /\ SpecsOK(v)
  BY DEF IndInv, SharingInv
<1>2. /\ m \in Modules
      /\ target[w][m] = None <=> m \in OrigGetSpecs(w)
  BY <1>1, CachedFacts
<1>3. Workers[1] \in Worker
  BY InstallAssumption DEF Worker, ToSet
<1>4. ASSUME \A v \in Worker : pc[v] = "replied"
      PROVE  ToSet(reply[Workers[1]]) = ToSet(Shared(Workers[1]))
  BY <1>1, <1>3, <1>4 DEF WorkerOK
<1>5. ASSUME target[w][m] = None
      PROVE  m \in specs[w] \/ /\ \A v \in Worker : pc[v] = "replied"
                               /\ m \in ToSet(Shared(Workers[1]))
  BY <1>1, <1>2, <1>4, <1>5 DEF SpecsOK
<1>6. ASSUME target[w][m] # None
      PROVE  /\ m \notin specs[w] /\ pc[w] = "replied"
             /\ m \in ToSet(Shared(w))
             /\ target[w][m] = Head(DiscoverLayers(w))
  BY <1>1, <1>2, <1>6 DEF SpecsOK, WorkerOK
<1>7. QED
  BY <1>2, <1>3, <1>5, <1>6

\* vllm_adapter.py:865-920: whichever workers fail, in whatever order they
\* answer, no layer of a worker is left without a cache, when the workers are
\* replicas and stages: the specs of all are cut by what the first has given
\* up, and each of them has given up the same or has no such layer.
THEOREM CachesForAll ==
  ASSUME ReplicasOrStages
  PROVE  Spec => []EveryLayerHasCache
<1>1. ASSUME IndInv PROVE EveryLayerHasCache
  <2> SUFFICES ASSUME engine = "started", NEW w \in Worker,
                      NEW m \in ToSet(Cached(w))
               PROVE  CacheOf(w, specs, m) # None
    BY DEF EveryLayerHasCache
  <2> DEFINE first == Head(DiscoverLayers(w))
  <2>1. /\ deployment \in Deployments
        /\ \A v \in Worker : WorkerOK(v) /\ SpecsOK(v)
    BY <1>1 DEF IndInv, SharingInv
  <2>2. m \in Modules /\ m # None
    BY <1>1, SpecsFacts, InstallAssumption
  <2>3. LayersAreFound(w) /\ SharedIsOK(w)
    BY <2>1, LayersFacts, SharedFacts
  <2>4. ASSUME \A v \in Worker : pc[v] = "replied", Workers[1] \in Worker,
               NEW n \in ToSet(Shared(Workers[1])), n \in ToSet(deployment[w])
        PROVE  n \in ToSet(Shared(w))
    <3>1. n \in ToSet(deployment[Workers[1]])
      BY <2>1, <2>4, SharedFacts DEF SharedIsOK, IsTQ
    <3>2. deployment[w] = deployment[Workers[1]]
      BY <2>1, <2>4, <3>1 DEF ReplicasOrStages
    <3>3. Shared(w) = Shared(Workers[1])
      BY <3>2 DEF Shared, DiscoverLayers
    <3>4. QED
      BY <2>4, <3>3
  <2>5. m \in ToSet(deployment[w])
    BY <2>3 DEF LayersAreFound, HasCache
  <2>6. CASE target[w][m] = None
    <3>1. m \notin ToSet(Shared(w)) \/ pc[w] # "replied"
      BY <2>1, <2>2, <2>3, <2>6, InstallAssumption DEF WorkerOK, SharedIsOK
    <3>2. m \in specs[w]
      BY <1>1, <2>4, <2>5, <2>6, <3>1, SpecsFacts
    <3>3. QED
      BY <2>2, <3>2 DEF CacheOf
  <2>7. CASE target[w][m] # None
    <3>1. /\ m \in ToSet(Shared(w)) /\ target[w][m] = first
          /\ m \notin specs[w] /\ pc[w] = "replied"
      BY <1>1, <2>7, SpecsFacts
    <3>2. first \in Modules /\ IsTQ(w, first) /\ first \notin ToSet(Shared(w))
      BY <2>3, <3>1 DEF SharedIsOK
    <3>3. first \in ToSet(Cached(w)) /\ first \in ToSet(deployment[w])
      BY <2>3, <3>2 DEF LayersAreFound, IsTQ, HasCache
    <3>4. target[w][first] = None
      BY <2>1, <3>1, <3>2 DEF WorkerOK
    <3>5. first \in specs[w]
      BY <1>1, <2>4, <3>2, <3>3, <3>4, SpecsFacts
    <3>6. QED
      BY <2>7, <3>1, <3>5, <3>2, InstallAssumption DEF CacheOf
  <2>8. QED
    BY <2>6, <2>7
<1>2. QED
  BY <1>1, AlwaysShared, PTL

\* vllm_adapter.py:879-893, 903: two layers of a worker use the same cache only
\* if both are patched, whatever fails: nobody writes to a shared cache.
THEOREM SharedOnlyIfPatched == Spec => []SharedCacheUnwritten
<1>1. ASSUME IndInv PROVE SharedCacheUnwritten
  <2>1. SUFFICES ASSUME engine = "started", NEW w \in Worker,
                        NEW m \in ToSet(Cached(w)), NEW n \in ToSet(Cached(w)),
                        m # n, CacheOf(w, specs, m) = CacheOf(w, specs, n)
                 PROVE  Hooked(w, m)
    BY DEF SharedCacheUnwritten
  <2> DEFINE first == Head(DiscoverLayers(w))
  <2>2. /\ deployment \in Deployments
        /\ \A v \in Worker : WorkerOK(v) /\ SpecsOK(v)
    BY <1>1, <2>1 DEF IndInv, SharingInv
  <2>3. m \in Modules /\ n \in Modules
    BY <1>1, <2>1, SpecsFacts
  <2>4. SharedIsOK(w) /\ LayersAreFound(w)
    BY <2>2, LayersFacts, SharedFacts
  <2>5. SUFFICES ASSUME ~ Hooked(w, m) PROVE FALSE
    OBVIOUS
  <2>6. target[w][m] = None
    <3>1. SUFFICES ASSUME target[w][m] # None PROVE FALSE
      OBVIOUS
    <3>2. m \in ToSet(Shared(w)) /\ pc[w] = "replied"
      BY <1>1, <2>1, <3>1, SpecsFacts
    <3>3. IsTQ(w, m)
      BY <2>4, <3>2 DEF SharedIsOK
    <3>4. QED
      BY <2>2, <2>3, <2>5, <3>2, <3>3 DEF WorkerOK
  <2>7. m \in specs[w]
    <3>1. SUFFICES ASSUME m \notin specs[w] PROVE FALSE
      OBVIOUS
    <3>2. /\ \A v \in Worker : pc[v] = "replied"
          /\ Workers[1] \in Worker /\ m \in ToSet(Shared(Workers[1]))
      BY <1>1, <2>1, <2>6, <3>1, SpecsFacts
    <3>3. Kind[m] = "tq"
      BY <2>2, <3>2, SharedFacts DEF SharedIsOK, IsTQ
    <3>4. IsTQ(w, m)
      BY <2>4, <3>3 DEF LayersAreFound, HasCache, IsTQ
    <3>5. QED
      BY <2>2, <2>3, <2>5, <3>2, <3>4 DEF WorkerOK
  <2>8. CacheOf(w, specs, n) = m
    BY <2>1, <2>7 DEF CacheOf
  <2>9. n \notin specs[w] /\ target[w][n] = m
    BY <2>1, <2>3, <2>8, InstallAssumption DEF CacheOf
  <2>10. target[w][n] # None
    BY <2>3, <2>9, InstallAssumption
  <2>11. n \in ToSet(Shared(w)) /\ pc[w] = "replied" /\ m = first
    BY <1>1, <2>1, <2>9, <2>10, SpecsFacts
  <2>12. IsTQ(w, m)
    BY <2>4, <2>11 DEF SharedIsOK
  <2>13. QED
    BY <2>2, <2>3, <2>5, <2>11, <2>12 DEF WorkerOK
<1>2. QED
  BY <1>1, AlwaysShared, PTL

\* vllm_adapter.py:316-336: free_kv_cache() takes the cache of no layer that
\* still writes to it, where the indices of the caches are those of the layers.
THEOREM FreesPatchedOnly == Spec => []FreesOnlyHooked
<1>1. ASSUME IndInv PROVE FreesOnlyHooked
  <2>1. SUFFICES ASSUME engine = "started", NEW w \in Worker, IndicesAgree(w),
                        NEW i \in DOMAIN caches[w],
                        caches[w][i] # CacheOf(w, specs, Cached(w)[i])
                 PROVE  Hooked(w, Cached(w)[i])
    BY DEF FreesOnlyHooked
  <2>2. /\ deployment \in Deployments
        /\ WorkerOK(w) /\ CachesOK(w)
    BY <1>1, <2>1 DEF IndInv, SharingInv
  <2>3. HookedAt(w, i) /\ i \in DOMAIN Cached(w)
    BY <2>1, <2>2 DEF CachesOK
  <2>4. PICK m \in Modules : Hooked(w, m) /\ i = LayerIdx(w, m)
    BY <2>3 DEF HookedAt
  <2>5. m \in ToSet(deployment[w])
    BY <2>2, <2>4 DEF WorkerOK, IsTQ
  <2>6. deployment[w][LayerIdx(w, m)] = m
    BY <2>5 DEF ToSet, LayerIdx
  <2>7. Cached(w)[i] = m
    BY <2>1, <2>3, <2>4, <2>6 DEF IndicesAgree
  <2>8. QED
    BY <2>4, <2>7
<1>2. QED
  BY <1>1, AlwaysShared, PTL

=============================================================================
