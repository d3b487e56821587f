-------------------------- MODULE KVCaptureProofs --------------------------
(***************************************************************************)
(* Theorems about the capture engine for every capacity, store size, bound *)
(* and caller.  IInv is the inductive invariant behind the first four,     *)
(* Accounted the one that NothingLost adds for the caller that the code    *)
(* was written for (eager decoding, one prefill per request).  For that    *)
(* caller the engine implements TieredCache: the invariants say where the  *)
(* tokens are, and the part on TieredCache adds their order in the ring    *)
(* buffer and their number in the store.  The last part is about the steps *)
(* of a call: they add up to the function of CaptureCalls that stands for  *)
(* it, with the history that MCKVCapture keeps.                            *)
(***************************************************************************)
EXTENDS MCKVCapture, RingBufferTheorems, FiniteInduction, FiniteSetTheorems

\* How many of the slots behind the write position hold recent tokens: all of
\* those in use, except while the tail of a long prefill replaces older ones,
\* which are not adjacent to the tail when the head went to the store.
Settled == IF call.op = "prefill_tail" THEN Capacity - call.todo ELSE ring.count

\* The tokens that the engine holds somewhere.
Held == StoredTokens(store) \cup RecentTokens(ring) \cup ToSet(call.overflow)

CallOK ==
    /\ Idle => call = NoCall
    /\ Idle => ring.count_tensor = ring.count
    /\ call.op = "prefill_tail" =>
         call.todo <= Capacity /\ Capacity - call.todo <= ring.count

IInv ==
    /\ TypeOK
    /\ RingOK(ring)
    /\ store.n_tensor = store.num_stored
    /\ CallOK
    /\ Recency(ring, Settled, next)
    /\ Held \subseteq 0 .. next - 1
    /\ CountedOnce

Accounted ==
    /\ base <= next
    /\ rejected \subseteq 0 .. next - 1
    /\ Held = (base .. next - 1) \ rejected
    /\ call.op \in {"prefill", "prefill_tail"} =>
         ring.count + call.todo <= Capacity /\ call.overflow = <<>>

-----------------------------------------------------------------------------
\* What append_chunk() does to the tokens stored, when it is handed tokens
\* that are different from each other and from those stored.
LEMMA ArchiveTokens ==
    ASSUME store \in Store, store.n_tensor = store.num_stored,
           Injective(store.buf, EagerView(store)),
           rejected \subseteq Nat,
           NEW chunk \in Seq(Nat), Injective(chunk, DOMAIN chunk),
           StoredTokens(store) \cap ToSet(chunk) = {},
           Archive(chunk)
    PROVE  /\ store' \in Store
           /\ store'.n_tensor = store'.num_stored
           /\ Injective(store'.buf, EagerView(store'))
           /\ rejected' \subseteq Nat
           /\ \/ /\ StoredTokens(store')
                     = StoredTokens(store) \cup ToSet(chunk)
                 /\ rejected' = rejected
              \/ /\ StoredTokens(store') = StoredTokens(store)
                 /\ rejected' = rejected \cup ToSet(chunk)
<1>1. store' = AppendChunk(store, chunk) BY DEF Archive
<1>2. store' \in Store /\ store'.n_tensor = store'.num_stored
  BY <1>1, AppendChunkType
<1>3. CASE Fits(store, chunk)
  <2>1. rejected' = rejected BY <1>3 DEF Archive
  <2>2. StoredTokens(store') = StoredTokens(store) \cup ToSet(chunk)
    BY <1>1, <1>3, AppendChunkTokens
  <2>3. Injective(store'.buf, EagerView(store'))
    BY <1>1, <1>3, AppendChunkTokens DEF Injective
  <2>4. QED BY <1>2, <2>1, <2>2, <2>3
<1>4. CASE ~ Fits(store, chunk)
  <2>1. store' = store BY <1>1, <1>4 DEF AppendChunk
  <2>2. rejected' = rejected \cup ToSet(chunk) BY <1>4 DEF Archive
  <2>3. ToSet(chunk) \subseteq Nat BY DEF ToSet
  <2>4. QED BY <1>2, <2>1, <2>2, <2>3
<1>5. QED BY <1>3, <1>4

\* CountedOnce in the vocabulary of the lemmas.
LEMMA CountedOnceParts ==
    CountedOnce <=>
      /\ Injective(store.buf, EagerView(store))
      /\ Injective(ring.slots, LiveSlots(ring))
      /\ Injective(call.overflow, DOMAIN call.overflow)
      /\ StoredTokens(store) \cap RecentTokens(ring) = {}
      /\ ToSet(call.overflow)
           \cap (StoredTokens(store) \cup RecentTokens(ring)) = {}
BY DEF CountedOnce, Injective

-----------------------------------------------------------------------------
LEMMA InitInvariant == Init => IInv
<1> USE CapacityAssumption, MaxTokensAssumption
<1>1. SUFFICES ASSUME Init PROVE IInv OBVIOUS
<1> USE EmptyRingFacts, EmptyStoreFacts
<1>2. /\ ring = EmptyRing /\ store = EmptyStore /\ call = NoCall /\ next = 0
      /\ base = 0 /\ rejected = {} /\ is_prefill_phase = TRUE
  BY <1>1 DEF Init
<1>3. call \in Calls /\ ToSet(call.overflow) = {}
  BY <1>2 DEF NoCall, Calls, ToSet
<1>4. TypeOK BY <1>2, <1>3 DEF TypeOK, RingOK
<1>5. Settled = 0 BY <1>2 DEF Settled, NoCall
<1>6. Held = {} BY <1>2, <1>3 DEF Held
<1>7. CountedOnce BY <1>2, <1>3 DEF CountedOnce, NoCall
<1>8. CallOK BY <1>2 DEF CallOK, Idle, NoCall
<1>9. QED
  BY <1>2, <1>4, <1>5, <1>6, <1>7, <1>8 DEF IInv, Recency

\* A write of the next token, as both writers make it.
LEMMA WriteStep ==
    ASSUME IInv
    PROVE  LET w == WriteToken(ring, next)
           IN  /\ RingOK(w)
               /\ w.count \in Nat /\ ring.count <= w.count
               /\ w.count <= ring.count + 1
               /\ w.count = ring.count => ring.count = Capacity
               /\ w.count_tensor = ring.count_tensor
               /\ Injective(w.slots, LiveSlots(w))
               /\ RecentTokens(w) \cup ToSet(Evicted(ring))
                    = RecentTokens(ring) \cup {next}
               /\ RecentTokens(w) \cap ToSet(Evicted(ring)) = {}
               /\ next \notin Held
<1> DEFINE w == WriteToken(ring, next)
<1> USE CapacityAssumption
<1>1. RingOK(ring) /\ next \in Nat BY DEF IInv, TypeOK
<1>2. next \notin Held BY <1>1 DEF IInv
<1>3. RingOK(w) BY <1>1, WriteTokenOK
<1>4. next \notin RecentTokens(ring) BY <1>2 DEF Held
<1>5. /\ RecentTokens(w) \cup ToSet(Evicted(ring))
            = RecentTokens(ring) \cup {next}
      /\ RecentTokens(w) \cap ToSet(Evicted(ring)) = {}
      /\ Injective(w.slots, LiveSlots(w))
  BY <1>1, <1>4, WriteTokenTokens DEF IInv, CountedOnce, Injective
<1>6. /\ w.count \in Nat /\ ring.count <= w.count
      /\ w.count <= ring.count + 1
      /\ w.count = ring.count => ring.count = Capacity
      /\ w.count_tensor = ring.count_tensor
  BY <1>1 DEF RingOK, Ring, WriteToken, IsFull
<1>7. QED BY <1>2, <1>3, <1>5, <1>6

-----------------------------------------------------------------------------
\* A step that changes no token keeps the invariant.
LEMMA QuietKeeps ==
    ASSUME IInv, UNCHANGED <<ring, store, call, next, base, rejected>>,
           is_prefill_phase' \in BOOLEAN
    PROVE  IInv'
<1>1. /\ ring' = ring /\ store' = store /\ call' = call /\ next' = next
      /\ base' = base /\ rejected' = rejected
  OBVIOUS
<1>2. TypeOK' BY <1>1 DEF IInv, TypeOK
<1>3. CallOK' BY <1>1 DEF IInv, CallOK, Idle
<1>4. Recency(ring, Settled, next)' BY <1>1 DEF IInv, Recency, Settled
<1>5. (Held \subseteq 0 .. next - 1)' BY <1>1 DEF IInv, Held
<1>6. CountedOnce'
  <2>1. CountedOnce BY DEF IInv
  <2>2. QED BY <1>1, <2>1 DEF CountedOnce
<1>7. QED BY <1>1, <1>2, <1>3, <1>4, <1>5, <1>6 DEF IInv

\* The call starts: nothing moves, and the tokens in use are still recent.
LEMMA BeginKeeps ==
    ASSUME IInv, Idle, NEW n \in Nat, NEW op \in {"prefill", "decode"},
           call' = Writing(op, n),
           UNCHANGED <<ring, store, next, base, rejected>>,
           is_prefill_phase' \in BOOLEAN
    PROVE  IInv'
<1>1. call = NoCall /\ call.overflow = <<>> /\ call'.overflow = <<>>
      /\ call.op = "none" /\ call'.op = op /\ call'.op # "none"
  BY DEF IInv, CallOK, Idle, NoCall, Writing
<1>2. TypeOK'
  <2>1. call' \in Calls BY DEF Writing, Calls
  <2>2. QED BY <2>1 DEF IInv, TypeOK
<1>3. CallOK' BY <1>1 DEF CallOK, Idle
<1>4. Settled' = Settled BY <1>1 DEF Settled
<1>5. Recency(ring, Settled, next)' BY <1>4 DEF IInv, Recency
<1>6. (Held \subseteq 0 .. next - 1)' BY <1>1 DEF IInv, Held, StoredTokens,
        EagerView, RecentTokens, LiveSlots
<1>7. CountedOnce'
  <2>1. store' = store /\ ring' = ring /\ call'.overflow = call.overflow
    BY <1>1
  <2>2. CountedOnce BY DEF IInv
  <2>3. QED BY <2>1, <2>2 DEF CountedOnce
<1>8. QED BY <1>2, <1>3, <1>5, <1>6, <1>7 DEF IInv, RingOK

\* One iteration of the loop adds the next token to those held, and no other
\* change is made to them.
LEMMA WriteLoopHeld ==
    ASSUME IInv, WriteLoop
    PROVE  Held' = Held \cup {next}
<1> DEFINE w == WriteToken(ring, next)
           e == Evicted(ring)
<1>1. /\ ring' = w /\ store' = store
      /\ call'.overflow = call.overflow \o e
  BY DEF WriteLoop
<1>2. RecentTokens(w) \cup ToSet(e) = RecentTokens(ring) \cup {next}
  BY WriteStep
<1>3. RingOK(ring) /\ RecentTokens(ring) \subseteq Nat
      /\ call.overflow \in Seq(Nat)
  BY DEF IInv, TypeOK, Calls, Held
<1>4. ToSet(call.overflow \o e) = ToSet(call.overflow) \cup ToSet(e)
  BY <1>3, EvictedFacts, ConcatFacts
<1>5. Held' = StoredTokens(store) \cup RecentTokens(w)
                \cup ToSet(call.overflow \o e)
  BY <1>1 DEF Held
<1>6. QED BY <1>2, <1>4, <1>5 DEF Held

\* One iteration of the loop.
LEMMA WriteLoopKeeps ==
    ASSUME IInv, WriteLoop
    PROVE  IInv'
<1> USE CapacityAssumption
<1> DEFINE w == WriteToken(ring, next)
           o == call.overflow
           e == Evicted(ring)
<1>1. /\ ring' = w /\ next' = next + 1 /\ store' = store
      /\ call' = [op |-> call.op, todo |-> call.todo - 1, overflow |-> o \o e]
      /\ is_prefill_phase' = is_prefill_phase /\ base' = base
      /\ rejected' = rejected /\ call.todo > 0
  BY DEF WriteLoop
<1>2. /\ RingOK(ring) /\ call \in Calls /\ next \in Nat /\ o \in Seq(Nat)
      /\ call.todo \in Nat /\ Held \subseteq 0 .. next - 1
      /\ ring.count \in 0 .. Capacity
  BY DEF IInv, TypeOK, Calls, RingOK, Ring
<1>3. ~ Idle BY <1>1 DEF IInv, CallOK, NoCall
<1>4. /\ RingOK(w) /\ w.count \in Nat /\ ring.count <= w.count
      /\ w.count <= ring.count + 1
      /\ w.count = ring.count => ring.count = Capacity
      /\ Injective(w.slots, LiveSlots(w))
      /\ RecentTokens(w) \cup ToSet(e) = RecentTokens(ring) \cup {next}
      /\ RecentTokens(w) \cap ToSet(e) = {}
      /\ next \notin Held
  BY WriteStep
<1>5. e \in Seq(Nat) /\ ToSet(e) \subseteq RecentTokens(ring)
      /\ Injective(e, DOMAIN e)
  BY <1>2, EvictedFacts DEF Held
<1>6. /\ Injective(store.buf, EagerView(store))
      /\ Injective(o, DOMAIN o)
      /\ StoredTokens(store) \cap RecentTokens(ring) = {}
      /\ ToSet(o) \cap (StoredTokens(store) \cup RecentTokens(ring)) = {}
  BY CountedOnceParts DEF IInv
<1>7. /\ o \o e \in Seq(Nat)
      /\ ToSet(o \o e) = ToSet(o) \cup ToSet(e)
      /\ Injective(o \o e, DOMAIN (o \o e))
  BY <1>2, <1>5, <1>6, ConcatFacts
<1>8. TypeOK'
  <2>1. call' \in Calls BY <1>1, <1>2, <1>7 DEF Calls
  <2>2. QED BY <1>1, <1>2, <1>4, <2>1 DEF IInv, TypeOK, RingOK
<1>9. CallOK' BY <1>1, <1>2, <1>3, <1>4, SMTT(30) DEF IInv, CallOK, Idle
<1>10. Recency(ring, Settled, next)'
  <2> DEFINE m == IF call.op = "prefill_tail"
                  THEN Capacity - (call.todo - 1) ELSE w.count
  <2>1. Settled' = m BY <1>1 DEF Settled
  <2>2. w.count \in 0 .. Capacity BY <1>4 DEF RingOK, Ring
  <2>3. Settled \in 0 .. Capacity /\ m \in 0 .. Capacity /\ m <= Settled + 1
    BY <1>1, <1>2, <1>4, <2>2, SMTT(30) DEF Settled, IInv, CallOK
  <2>4. Recency(w, m, next + 1)
    BY <1>2, <2>3, WriteTokenRecency DEF IInv
  <2>5. QED BY <1>1, <2>1, <2>4 DEF Recency
<1>11. Held' = Held \cup {next} BY WriteLoopHeld
<1>12. (Held \subseteq 0 .. next - 1)' BY <1>1, <1>2, <1>11
<1>13. CountedOnce'
  <2>1. StoredTokens(store) \cap RecentTokens(w) = {}
    BY <1>4, <1>6 DEF Held
  <2>2. ToSet(o \o e) \cap (StoredTokens(store) \cup RecentTokens(w)) = {}
    <3>1. ToSet(o) \cap RecentTokens(w) = {} BY <1>4, <1>6 DEF Held
    <3>2. QED BY <3>1, <1>4, <1>5, <1>6, <1>7
  <2>3. QED BY <1>1, <1>4, <1>6, <1>7, <2>1, <2>2 DEF CountedOnce, Injective
<1>14. QED BY <1>1, <1>4, <1>8, <1>9, <1>10, <1>12, <1>13 DEF IInv

\* The call returns: SyncCounter, and the overflow is archived or dropped.
LEMMA ReturnKeeps ==
    ASSUME IInv, ~ Idle, call.todo = 0,
           ring' = SyncCounter(ring), call' = NoCall,
           UNCHANGED <<next, base>>, is_prefill_phase' \in BOOLEAN,
           \/ UNCHANGED <<store, rejected>>
           \/ Archive(call.overflow)
    PROVE  IInv'
<1> USE CapacityAssumption
<1>1. /\ RingOK(ring) /\ call.overflow \in Seq(Nat) /\ store \in Store
      /\ store.n_tensor = store.num_stored /\ rejected \subseteq Nat
      /\ next \in Nat /\ base \in Nat
  BY DEF IInv, TypeOK, Calls
<1>2. /\ Injective(store.buf, EagerView(store))
      /\ Injective(ring.slots, LiveSlots(ring))
      /\ Injective(call.overflow, DOMAIN call.overflow)
      /\ StoredTokens(store) \cap RecentTokens(ring) = {}
      /\ ToSet(call.overflow)
           \cap (StoredTokens(store) \cup RecentTokens(ring)) = {}
  BY CountedOnceParts DEF IInv
<1>3. /\ store' \in Store /\ store'.n_tensor = store'.num_stored
      /\ rejected' \subseteq Nat
      /\ Injective(store'.buf, EagerView(store'))
      /\ StoredTokens(store') \subseteq StoredTokens(store) \cup ToSet(call.overflow)
  <2>1. CASE UNCHANGED <<store, rejected>> BY <2>1, <1>1, <1>2
  <2>2. CASE Archive(call.overflow)
    <3>1. StoredTokens(store) \cap ToSet(call.overflow) = {} BY <1>2
    <3>2. QED BY <2>2, <3>1, <1>1, <1>2, ArchiveTokens
  <2>3. QED BY <2>1, <2>2
<1>4. /\ RingOK(ring') /\ ring'.count_tensor = ring'.count
      /\ ring'.count = ring.count /\ ring'.slots = ring.slots
      /\ ring'.write_pos = ring.write_pos
      /\ LiveSlots(ring') = LiveSlots(ring)
      /\ RecentTokens(ring') = RecentTokens(ring)
  BY <1>1, SyncCounterFacts
<1>5. call'.op = "none" /\ call'.overflow = <<>> /\ ToSet(call'.overflow) = {}
      /\ call' \in Calls
  BY DEF NoCall, ToSet, Calls
<1>6. TypeOK' BY <1>1, <1>3, <1>4, <1>5 DEF TypeOK, RingOK
<1>7. CallOK' BY <1>4, <1>5 DEF CallOK
<1>8. Recency(ring, Settled, next)'
  <2>1. ring.count <= Settled
    BY <1>1 DEF IInv, CallOK, Settled, RingOK, Ring
  <2>2. Settled' = ring.count BY <1>4, <1>5 DEF Settled
  <2>3. ring.count \in Nat /\ Settled \in Int
    BY <1>1 DEF Settled, RingOK, Ring
  <2>4. QED BY <1>4, <2>1, <2>2, <2>3 DEF IInv, Recency
<1>9. (Held \subseteq 0 .. next - 1)'
  BY <1>3, <1>4, <1>5 DEF IInv, Held
<1>10. CountedOnce'
  <2>1. StoredTokens(store') \cap RecentTokens(ring') = {}
    BY <1>2, <1>3, <1>4
  <2>2. QED BY <1>2, <1>3, <1>4, <1>5, <2>1 DEF CountedOnce, Injective
<1>11. QED BY <1>3, <1>4, <1>6, <1>7, <1>8, <1>9, <1>10 DEF IInv

-----------------------------------------------------------------------------
\* The head of a long prefill is handed to the store.
LEMMA IngestLongPrefillKeeps ==
    ASSUME IInv, NEW n \in 1 .. MaxIngest, IngestLongPrefill(n)
    PROVE  IInv'
<1> USE CapacityAssumption, BoundsAssumption
<1> DEFINE h == n - Capacity
           chunk == [i \in 1 .. h |-> next + i - 1]
<1>1. /\ Idle /\ n > Capacity /\ Archive(chunk) /\ next' = next + h
      /\ call' = Writing("prefill_tail", Capacity)
      /\ ring' = ring /\ is_prefill_phase' = is_prefill_phase /\ base' = base
  BY DEF IngestLongPrefill, MayPrefill
<1>2. /\ RingOK(ring) /\ store \in Store /\ next \in Nat /\ h \in Nat
      /\ store.n_tensor = store.num_stored /\ rejected \subseteq Nat
      /\ Held \subseteq 0 .. next - 1 /\ ring.count \in 0 .. Capacity
  BY <1>1 DEF IInv, TypeOK, RingOK, Ring
<1>3. /\ Injective(store.buf, EagerView(store))
      /\ Injective(ring.slots, LiveSlots(ring))
      /\ StoredTokens(store) \cap RecentTokens(ring) = {}
  BY CountedOnceParts DEF IInv
<1>4. chunk \in Seq(Nat) /\ Injective(chunk, DOMAIN chunk)
  BY <1>2 DEF Injective
<1>5. ToSet(chunk) \subseteq next .. next + h - 1 BY <1>2 DEF ToSet
<1> HIDE DEF h, chunk
<1>6. ToSet(chunk) \cap Held = {} BY <1>2, <1>5
<1>7. /\ store' \in Store /\ store'.n_tensor = store'.num_stored
      /\ rejected' \subseteq Nat
      /\ Injective(store'.buf, EagerView(store'))
      /\ StoredTokens(store') \subseteq StoredTokens(store) \cup ToSet(chunk)
  <2>1. StoredTokens(store) \cap ToSet(chunk) = {} BY <1>6 DEF Held
  <2>2. QED BY <2>1, <1>1, <1>2, <1>3, <1>4, ArchiveTokens
<1>8. /\ call'.op = "prefill_tail" /\ call'.todo = Capacity
      /\ call'.overflow = <<>> /\ ToSet(call'.overflow) = {}
      /\ call' \in Calls
  BY <1>1 DEF Writing, Calls, ToSet
<1>9. TypeOK' BY <1>1, <1>2, <1>7, <1>8 DEF IInv, TypeOK
<1>10. CallOK' BY <1>1, <1>2, <1>8 DEF CallOK, Idle
<1>11. Recency(ring, Settled, next)' BY <1>8 DEF Recency, Settled
<1>12. (Held \subseteq 0 .. next - 1)'
  <2>1. Held' \subseteq Held \cup ToSet(chunk)
    BY <1>1, <1>7, <1>8 DEF Held
  <2>2. QED BY <2>1, <1>1, <1>2, <1>5
<1>13. CountedOnce'
  <2>1. StoredTokens(store') \cap RecentTokens(ring) = {}
    BY <1>3, <1>6, <1>7 DEF Held
  <2>2. QED BY <1>1, <1>3, <1>7, <1>8, <2>1 DEF CountedOnce, Injective
<1>14. QED
  BY <1>1, <1>2, <1>7, <1>9, <1>10, <1>11, <1>12, <1>13 DEF IInv, RingOK

\* A token is decoded inside a CUDA graph.
LEMMA IngestDecodeGraphKeeps ==
    ASSUME IInv, IngestDecodeGraph
    PROVE  IInv'
<1> USE CapacityAssumption
<1> DEFINE w == WriteToken(ring, next)
<1>1. /\ Idle /\ ring' = SyncCounter(w) /\ next' = next + 1
      /\ UNCHANGED <<store, is_prefill_phase, call, base, rejected>>
  BY DEF IngestDecodeGraph, WriteSingleGraph
<1>2. /\ RingOK(ring) /\ next \in Nat /\ Held \subseteq 0 .. next - 1
      /\ call = NoCall /\ ring.count \in 0 .. Capacity
  BY <1>1 DEF IInv, TypeOK, CallOK, RingOK, Ring
<1>3. /\ RingOK(w) /\ w.count \in Nat /\ w.count <= ring.count + 1
      /\ Injective(w.slots, LiveSlots(w))
      /\ RecentTokens(w) \subseteq RecentTokens(ring) \cup {next}
      /\ next \notin Held
  BY WriteStep
<1>4. /\ RingOK(ring') /\ ring'.count_tensor = ring'.count
      /\ ring'.count = w.count /\ ring'.slots = w.slots
      /\ ring'.write_pos = w.write_pos
      /\ LiveSlots(ring') = LiveSlots(w)
      /\ RecentTokens(ring') = RecentTokens(w)
  BY <1>1, <1>3, SyncCounterFacts
<1>5. /\ Injective(store.buf, EagerView(store))
      /\ StoredTokens(store) \cap RecentTokens(ring) = {}
  BY CountedOnceParts DEF IInv
<1>6. call.op = "none" /\ call.overflow = <<>> /\ ToSet(call.overflow) = {}
  BY <1>2 DEF NoCall, ToSet
<1>7. TypeOK' BY <1>1, <1>2, <1>4 DEF IInv, TypeOK, RingOK
<1>8. CallOK' BY <1>1, <1>2, <1>4, <1>6 DEF CallOK
<1>9. Recency(ring, Settled, next)'
  <2>1. w.count \in 0 .. Capacity BY <1>3 DEF RingOK, Ring
  <2>2. Settled = ring.count BY <1>6 DEF Settled
  <2>3. Recency(w, w.count, next + 1)
    BY <1>2, <1>3, <2>1, <2>2, WriteTokenRecency DEF IInv
  <2>4. Settled' = w.count BY <1>1, <1>4, <1>6 DEF Settled
  <2>5. QED BY <1>1, <1>4, <2>3, <2>4 DEF Recency
<1>10. (Held \subseteq 0 .. next - 1)'
  <2>1. Held' \subseteq Held \cup {next}
    BY <1>1, <1>3, <1>4, <1>6 DEF Held
  <2>2. QED BY <2>1, <1>1, <1>2
<1>11. CountedOnce'
  <2>1. StoredTokens(store) \cap RecentTokens(w) = {} BY <1>3, <1>5 DEF Held
  <2>2. QED BY <1>1, <1>3, <1>4, <1>5, <1>6, <2>1 DEF CountedOnce, Injective
<1>12. QED BY <1>1, <1>4, <1>7, <1>8, <1>9, <1>10, <1>11 DEF IInv

\* flush() hands the ring over and empties it.
LEMMA FlushKeeps ==
    ASSUME IInv, Flush
    PROVE  IInv'
<1> USE EmptyRingFacts
<1> DEFINE chunk == ReadAll(ring)
<1>1. /\ Idle /\ Archive(chunk) /\ ring' = EmptyRing
      /\ UNCHANGED <<is_prefill_phase, call, next, base>>
  BY DEF Flush
<1>2. /\ RingOK(ring) /\ store \in Store /\ next \in Nat
      /\ store.n_tensor = store.num_stored /\ rejected \subseteq Nat
      /\ Held \subseteq 0 .. next - 1 /\ call = NoCall
  BY <1>1 DEF IInv, TypeOK, CallOK
<1>3. /\ Injective(store.buf, EagerView(store))
      /\ Injective(ring.slots, LiveSlots(ring))
      /\ StoredTokens(store) \cap RecentTokens(ring) = {}
  BY CountedOnceParts DEF IInv
<1>4. chunk \in Seq(Nat) /\ Injective(chunk, DOMAIN chunk)
      /\ ToSet(chunk) = RecentTokens(ring)
  <2>1. RecentTokens(ring) \subseteq Nat BY <1>2 DEF Held
  <2>2. QED BY <1>2, <1>3, <2>1, ReadAllTokens DEF Injective
<1>5. /\ store' \in Store /\ store'.n_tensor = store'.num_stored
      /\ rejected' \subseteq Nat
      /\ Injective(store'.buf, EagerView(store'))
      /\ StoredTokens(store') \subseteq StoredTokens(store) \cup ToSet(chunk)
  BY <1>1, <1>2, <1>3, <1>4, ArchiveTokens
<1>6. call.op = "none" /\ call.overflow = <<>> /\ ToSet(call.overflow) = {}
  BY <1>2 DEF NoCall, ToSet
<1>7. TypeOK' BY <1>1, <1>5 DEF IInv, TypeOK, RingOK
<1>8. CallOK' BY <1>1, <1>2, <1>6 DEF CallOK
<1>9. Recency(ring, Settled, next)'
  BY <1>1, <1>6 DEF Recency, Settled
<1>10. (Held \subseteq 0 .. next - 1)'
  BY <1>1, <1>2, <1>4, <1>5, <1>6 DEF Held
<1>11. CountedOnce'
  BY <1>1, <1>5, <1>6 DEF CountedOnce, Injective
<1>12. QED BY <1>1, <1>5, <1>7, <1>8, <1>9, <1>10, <1>11 DEF IInv

\* reset() empties both tiers.
LEMMA ResetKeeps ==
    ASSUME IInv, Reset
    PROVE  IInv'
<1> USE EmptyRingFacts, EmptyStoreFacts
<1>1. /\ Idle /\ store' = EmptyStore /\ ring' = EmptyRing /\ base' = next
      /\ is_prefill_phase' = TRUE /\ rejected' = {}
      /\ call' = call /\ next' = next
  BY DEF Reset
<1>2. call = NoCall /\ next \in Nat BY <1>1 DEF IInv, TypeOK, CallOK
<1>3. call.op = "none" /\ call.overflow = <<>> /\ ToSet(call.overflow) = {}
  BY <1>2 DEF NoCall, ToSet
<1>4. TypeOK' BY <1>1, <1>2 DEF IInv, TypeOK, RingOK
<1>5. CallOK' BY <1>1, <1>2, <1>3 DEF CallOK
<1>6. Recency(ring, Settled, next)' BY <1>1, <1>3 DEF Recency, Settled
<1>7. (Held \subseteq 0 .. next - 1)' BY <1>1, <1>3 DEF Held
<1>8. CountedOnce' BY <1>1, <1>3 DEF CountedOnce
<1>9. QED BY <1>1, <1>4, <1>5, <1>6, <1>7, <1>8 DEF IInv

\* Every step keeps the invariant.
LEMMA NextInvariant == IInv /\ [Next]_vars => IInv'
<1>1. SUFFICES ASSUME IInv, [Next]_vars PROVE IInv' OBVIOUS
<1> USE <1>1
<1>2. ASSUME NEW n \in 1 .. MaxIngest, IngestShortPrefill(n) PROVE IInv'
  <2>1. n \in Nat BY BoundsAssumption
  <2>2. is_prefill_phase \in BOOLEAN BY DEF IInv, TypeOK
  <2>3. QED
    BY <1>2, <2>1, <2>2, BeginKeeps DEF IngestShortPrefill, MayPrefill
<1>3. ASSUME NEW n \in 1 .. MaxIngest, IngestLongPrefill(n) PROVE IInv'
  BY <1>3, IngestLongPrefillKeeps
<1>4. ASSUME NEW n \in 1 .. MaxChunk, IngestDecode(n) PROVE IInv'
  <2>1. n \in Nat BY BoundsAssumption
  <2>2. is_prefill_phase \in BOOLEAN BY DEF IInv, TypeOK
  <2>3. QED BY <1>4, <2>1, <2>2, BeginKeeps DEF IngestDecode
<1>5. CASE WriteLoop BY <1>5, WriteLoopKeeps
<1>6. CASE EndPrefill BY <1>6, ReturnKeeps DEF EndPrefill, Idle
<1>7. CASE EndDecode
  <2>1. is_prefill_phase \in BOOLEAN BY DEF IInv, TypeOK
  <2>2. QED BY <1>7, <2>1, ReturnKeeps DEF EndDecode, Idle
<1>8. CASE IngestDecodeGraph BY <1>8, IngestDecodeGraphKeeps
<1>9. CASE UNCHANGED vars
  <2>1. is_prefill_phase \in BOOLEAN BY DEF IInv, TypeOK
  <2>2. QED BY <1>9, <2>1, QuietKeeps DEF vars
<1>10. CASE PrepareForDecode BY <1>10, QuietKeeps DEF PrepareForDecode
<1>11. CASE Flush BY <1>11, FlushKeeps
<1>12. CASE Reset BY <1>12, ResetKeeps
<1>13. QED
  BY <1>2, <1>3, <1>4, <1>5, <1>6, <1>7, <1>8, <1>9, <1>10, <1>11, <1>12
     DEF Next, CheckOverflowAndCompress

\* IInv is an invariant of every run of the engine.
THEOREM Invariance == Spec => []IInv
<1>1. QED BY InitInvariant, NextInvariant, PTL DEF Spec

\* Type correctness.
THEOREM TypeCorrect == Spec => []TypeOK
<1>1. IInv => TypeOK BY DEF IInv
<1>2. QED BY <1>1, Invariance, PTL

\* No token is ever held twice.
THEOREM HeldOnce == Spec => []CountedOnce
<1>1. IInv => CountedOnce BY DEF IInv
<1>2. QED BY <1>1, Invariance, PTL

\* Neither kernel ever attends to a slot or position that was not written.
THEOREM BlanksHidden == Spec => []NoBlankAttended
<1>1. IInv => NoBlankAttended
  <2>1. SUFFICES ASSUME IInv PROVE NoBlankAttended OBVIOUS
  <2>2. KernelSlots(ring) \subseteq LiveSlots(ring)
    BY <2>1, CapacityAssumption
       DEF IInv, RingOK, Ring, KernelSlots, LiveSlots, Slot
  <2>3. GraphView(store) = EagerView(store)
    BY <2>1 DEF IInv, GraphView, EagerView
  <2>4. RecentTokens(ring) \subseteq Nat /\ StoredTokens(store) \subseteq Nat
    BY <2>1 DEF IInv, TypeOK, Held
  <2>5. \A p \in LiveSlots(ring) : ring.slots[p] \in Nat
    BY <2>4 DEF RecentTokens
  <2>6. \A j \in EagerView(store) : store.buf[j] \in Nat
    BY <2>4 DEF StoredTokens
  <2>7. QED BY <2>2, <2>3, <2>5, <2>6 DEF NoBlankAttended, Zero, Blank
<1>2. QED BY <1>1, Invariance, PTL

\* Between calls the kernel sees exactly the most recent tokens.
THEOREM WindowSeen == Spec => []KernelSeesRecentTokens
<1>1. IInv => KernelSeesRecentTokens
  <2>1. SUFFICES ASSUME IInv, Idle
                 PROVE  {ring.slots[p] : p \in KernelSlots(ring)}
                          = next - ring.count .. next - 1
    BY DEF KernelSeesRecentTokens
  <2>2. RingOK(ring) /\ next \in Nat /\ Settled = ring.count
    BY <2>1 DEF IInv, TypeOK, Settled, Idle
  <2>3. KernelSlots(ring) = LiveSlots(ring)
    BY <2>1 DEF IInv, CallOK, KernelSlots, LiveSlots
  <2>4. RecentTokens(ring) = next - ring.count .. next - 1
    BY <2>1, <2>2, WindowIsRecent DEF IInv
  <2>5. QED BY <2>3, <2>4 DEF RecentTokens
<1>2. QED BY <1>1, Invariance, PTL

-----------------------------------------------------------------------------
\* When nothing has arrived since reset(), the ring buffer is empty.
LEMMA NothingArrived ==
    ASSUME IInv, Accounted, next = base
    PROVE  Held = {} /\ ring.count = 0
<1>1. Held = {} BY DEF Accounted, IInv, TypeOK
<1>2. ring.count \in 0 .. Capacity BY DEF IInv, RingOK, Ring
<1>3. CASE ring.count > 0
  <2>1. 0 \in LiveSlots(ring)
    BY <1>2, <1>3, CapacityAssumption DEF LiveSlots, Slot
  <2>2. QED BY <2>1, <1>1 DEF Held, RecentTokens
<1>4. QED BY <1>1, <1>2, <1>3

\* Every step of the caller that the code was written for accounts for every
\* token.
LEMMA NextAccounted ==
    ASSUME ~ RepeatedPrefill, ~ GraphMode, IInv, Accounted, [Next]_vars
    PROVE  Accounted'
<1> USE CapacityAssumption, BoundsAssumption
<1>1. /\ next \in Nat /\ base \in Nat /\ RingOK(ring) /\ call \in Calls
      /\ ring.count \in 0 .. Capacity /\ call.overflow \in Seq(Nat)
      /\ call.todo \in Nat
  BY DEF IInv, TypeOK, RingOK, Ring, Calls
<1>2. /\ store \in Store /\ store.n_tensor = store.num_stored
      /\ rejected \subseteq Nat
      /\ Injective(store.buf, EagerView(store))
      /\ Injective(ring.slots, LiveSlots(ring))
      /\ Injective(call.overflow, DOMAIN call.overflow)
      /\ StoredTokens(store) \cap RecentTokens(ring) = {}
      /\ ToSet(call.overflow)
           \cap (StoredTokens(store) \cup RecentTokens(ring)) = {}
  BY CountedOnceParts DEF IInv, TypeOK
<1>3. /\ base <= next /\ rejected \subseteq 0 .. next - 1
      /\ Held = (base .. next - 1) \ rejected
  BY DEF Accounted
<1>4. Idle => call.op = "none" /\ ToSet(call.overflow) = {}
  BY DEF IInv, CallOK, NoCall, ToSet
<1>5. ToSet(<<>>) = {} BY DEF ToSet
<1>6. ASSUME NEW n \in 1 .. MaxIngest, IngestShortPrefill(n) PROVE Accounted'
  <2>1. ring.count = 0
    BY <1>6, NothingArrived DEF IngestShortPrefill, MayPrefill
  <2>2. /\ ring' = ring /\ store' = store /\ next' = next /\ base' = base
        /\ rejected' = rejected /\ Idle /\ n <= Capacity
        /\ call' = [op |-> "prefill", todo |-> n, overflow |-> <<>>]
    BY <1>6 DEF IngestShortPrefill, MayPrefill, Writing
  <2>3. Held' = Held BY <2>2, <1>4, <1>5 DEF Held
  <2>4. QED BY <2>1, <2>2, <2>3, <1>3 DEF Accounted
<1>7. ASSUME NEW n \in 1 .. MaxIngest, IngestLongPrefill(n) PROVE Accounted'
  <2> DEFINE h == n - Capacity
             chunk == [i \in 1 .. h |-> next + i - 1]
  <2>1. ring.count = 0 /\ Held = {}
    BY <1>7, NothingArrived DEF IngestLongPrefill, MayPrefill
  <2>2. /\ ring' = ring /\ next' = next + h /\ base' = base /\ next = base
        /\ Archive(chunk) /\ h \in Nat
        /\ call' = [op |-> "prefill_tail", todo |-> Capacity, overflow |-> <<>>]
    BY <1>7 DEF IngestLongPrefill, MayPrefill, Writing
  <2>3. chunk \in Seq(Nat) /\ Injective(chunk, DOMAIN chunk)
    BY <1>1, <2>2 DEF Injective
  <2>4. ToSet(chunk) = next .. next + h - 1
    <3>1. ToSet(chunk) \subseteq next .. next + h - 1
      BY <1>1, <2>2 DEF ToSet
    <3>2. ASSUME NEW x \in next .. next + h - 1 PROVE x \in ToSet(chunk)
      <4>1. x - next + 1 \in DOMAIN chunk /\ chunk[x - next + 1] = x
        BY <1>1, <2>2
      <4>2. QED BY <4>1 DEF ToSet
    <3>3. QED BY <3>1, <3>2
  <2> HIDE DEF h, chunk
  <2>5. StoredTokens(store) \cap ToSet(chunk) = {} BY <2>1 DEF Held
  <2>6. \/ /\ StoredTokens(store') = StoredTokens(store) \cup ToSet(chunk)
           /\ rejected' = rejected
        \/ /\ StoredTokens(store') = StoredTokens(store)
           /\ rejected' = rejected \cup ToSet(chunk)
    BY <1>2, <2>2, <2>3, <2>5, ArchiveTokens
  <2>7. Held' = StoredTokens(store') \cup RecentTokens(ring)
    BY <2>2, <1>5 DEF Held
  <2>8. base .. next' - 1 = ToSet(chunk)
    <3>1. base = next /\ next' = next + h BY <2>2
    <3>2. next' - 1 = next + h - 1 BY <3>1, <1>1, <2>2
    <3>3. QED BY <3>1, <3>2, <2>4, Zenon
  <2>9. rejected \cap ToSet(chunk) = {} BY <1>1, <1>3, <2>2, <2>4
  <2>10. Held' = (base' .. next' - 1) \ rejected'
    BY <2>1, <2>2, <2>6, <2>7, <2>8, <2>9 DEF Held
  <2>11. rejected' \subseteq 0 .. next' - 1
    <3>1. ToSet(chunk) \subseteq 0 .. next' - 1
      BY <1>1, <2>2, <2>8
    <3>2. rejected \subseteq 0 .. next' - 1 BY <1>1, <1>3, <2>2
    <3>3. QED BY <3>1, <3>2, <2>6
  <2>12. QED BY <1>1, <2>1, <2>2, <2>10, <2>11 DEF Accounted
<1>8. ASSUME NEW n \in 1 .. MaxChunk, IngestDecode(n) PROVE Accounted'
  <2>1. /\ ring' = ring /\ store' = store /\ next' = next /\ base' = base
        /\ rejected' = rejected /\ Idle
        /\ call' = [op |-> "decode", todo |-> n, overflow |-> <<>>]
    BY <1>8 DEF IngestDecode, Writing
  <2>2. Held' = Held BY <2>1, <1>4, <1>5 DEF Held
  <2>3. QED BY <2>1, <2>2, <1>3 DEF Accounted
<1>9. CASE WriteLoop
  <2>1. Held' = Held \cup {next} BY <1>9, WriteLoopHeld
  <2>2. /\ next' = next + 1 /\ base' = base /\ rejected' = rejected
        /\ ring' = WriteToken(ring, next) /\ call.todo > 0
        /\ call' = [op |-> call.op, todo |-> call.todo - 1,
                    overflow |-> call.overflow \o Evicted(ring)]
    BY <1>9 DEF WriteLoop
  <2>3. Held' = (base' .. next' - 1) \ rejected'
    BY <1>1, <1>3, <2>1, <2>2
  <2>4. ASSUME call.op \in {"prefill", "prefill_tail"}
        PROVE  ring'.count + call'.todo <= Capacity /\ call'.overflow = <<>>
    <3>1. ring.count + call.todo <= Capacity /\ call.overflow = <<>>
      BY <2>4 DEF Accounted
    <3>2. ~ IsFull(ring) BY <3>1, <2>2, <1>1 DEF IsFull
    <3>3. ring'.count = ring.count + 1 /\ Evicted(ring) = <<>>
      BY <3>2, <2>2 DEF WriteToken, Evicted
    <3>4. QED BY <1>1, <2>2, <3>1, <3>3
  <2>5. rejected' \subseteq 0 .. next' - 1 /\ base' <= next'
    BY <1>1, <1>3, <2>2
  <2>6. QED BY <2>2, <2>3, <2>4, <2>5 DEF Accounted
<1>10. CASE EndPrefill
  <2>1. /\ store' = store /\ next' = next /\ base' = base
        /\ rejected' = rejected /\ ring' = SyncCounter(ring)
        /\ call' = NoCall /\ call.op \in {"prefill", "prefill_tail"}
    BY <1>10 DEF EndPrefill
  <2>2. call.overflow = <<>> /\ call'.overflow = <<>> /\ call'.op = "none"
    BY <2>1 DEF Accounted, NoCall
  <2>3. RecentTokens(ring') = RecentTokens(ring)
    BY <1>1, <2>1, SyncCounterFacts
  <2>4. Held' = Held BY <2>1, <2>2, <2>3 DEF Held
  <2>5. QED BY <2>1, <2>2, <2>4, <1>3 DEF Accounted
<1>11. CASE EndDecode
  <2>1. /\ next' = next /\ base' = base /\ ring' = SyncCounter(ring)
        /\ call' = NoCall /\ Archive(call.overflow)
    BY <1>11 DEF EndDecode
  <2>2. ToSet(call'.overflow) = {} /\ call'.op = "none"
    BY <2>1, <1>5 DEF NoCall
  <2>3. RecentTokens(ring') = RecentTokens(ring)
    BY <1>1, <2>1, SyncCounterFacts
  <2>4. \/ /\ StoredTokens(store')
              = StoredTokens(store) \cup ToSet(call.overflow)
           /\ rejected' = rejected
        \/ /\ StoredTokens(store') = StoredTokens(store)
           /\ rejected' = rejected \cup ToSet(call.overflow)
    <3>1. StoredTokens(store) \cap ToSet(call.overflow) = {} BY <1>2
    <3>2. QED BY <1>1, <1>2, <2>1, <3>1, ArchiveTokens
  <2>5. Held' = StoredTokens(store') \cup RecentTokens(ring)
    BY <2>2, <2>3 DEF Held
  <2>6. Held' = (base .. next - 1) \ rejected'
    BY <1>2, <1>3, <2>4, <2>5 DEF Held
  <2>7. rejected' \subseteq 0 .. next - 1
    BY <2>4, <1>3 DEF Held, IInv
  <2>8. QED BY <1>3, <2>1, <2>2, <2>6, <2>7 DEF Accounted
<1>12. CASE IngestDecodeGraph BY <1>12 DEF IngestDecodeGraph
<1>13. CASE UNCHANGED vars \/ PrepareForDecode
  <2>1. /\ ring' = ring /\ store' = store /\ call' = call /\ next' = next
        /\ base' = base /\ rejected' = rejected
    BY <1>13 DEF vars, PrepareForDecode
  <2>2. Held' = Held BY <2>1 DEF Held
  <2>3. QED BY <2>1, <2>2 DEF Accounted
<1>14. CASE Flush
  <2>1. /\ next' = next /\ base' = base /\ ring' = EmptyRing /\ Idle
        /\ call' = call /\ Archive(ReadAll(ring))
    BY <1>14 DEF Flush
  <2>2. /\ ReadAll(ring) \in Seq(Nat)
        /\ Injective(ReadAll(ring), DOMAIN ReadAll(ring))
        /\ ToSet(ReadAll(ring)) = RecentTokens(ring)
    <3>1. RecentTokens(ring) \subseteq Nat BY DEF IInv, Held
    <3>2. QED BY <1>1, <1>2, <3>1, ReadAllTokens DEF Injective
  <2>3. \/ /\ StoredTokens(store')
              = StoredTokens(store) \cup RecentTokens(ring)
           /\ rejected' = rejected
        \/ /\ StoredTokens(store') = StoredTokens(store)
           /\ rejected' = rejected \cup RecentTokens(ring)
    BY <1>2, <2>1, <2>2, ArchiveTokens
  <2>4. Held' = StoredTokens(store') /\ call'.op = "none"
    BY <2>1, <1>4, EmptyRingFacts DEF Held
  <2>5. Held = StoredTokens(store) \cup RecentTokens(ring)
    BY <2>1, <1>4 DEF Held
  <2>6. Held' = (base .. next - 1) \ rejected'
    BY <1>2, <1>3, <2>3, <2>4, <2>5
  <2>7. rejected' \subseteq 0 .. next - 1 BY <2>3, <2>5, <1>3 DEF IInv
  <2>8. QED BY <1>3, <2>1, <2>4, <2>6, <2>7 DEF Accounted
<1>15. CASE Reset
  <2>1. /\ next' = next /\ base' = next /\ ring' = EmptyRing /\ Idle
        /\ store' = EmptyStore /\ call' = call /\ rejected' = {}
    BY <1>15 DEF Reset
  <2>2. Held' = {} /\ call'.op = "none"
    BY <2>1, <1>4, EmptyRingFacts, EmptyStoreFacts DEF Held
  <2>3. next .. next - 1 = {} BY <1>1
  <2>4. QED BY <1>1, <2>1, <2>2, <2>3 DEF Accounted
<1>16. QED
  BY <1>6, <1>7, <1>8, <1>9, <1>10, <1>11, <1>12, <1>13, <1>14, <1>15
     DEF Next, CheckOverflowAndCompress

LEMMA AccountedInvariance ==
    ASSUME ~ RepeatedPrefill, ~ GraphMode
    PROVE  Spec => []Accounted
<1>1. Init => Accounted
  <2>1. SUFFICES ASSUME Init PROVE Accounted OBVIOUS
  <2>2. /\ ring = EmptyRing /\ store = EmptyStore /\ call.overflow = <<>>
        /\ call.op = "none" /\ next = 0 /\ base = 0 /\ rejected = {}
    BY <2>1 DEF Init, NoCall
  <2>3. Held = {}
    BY <2>2, EmptyRingFacts, EmptyStoreFacts DEF Held, ToSet
  <2>4. QED BY <2>2, <2>3 DEF Accounted
<1>2. IInv /\ Accounted /\ [Next]_vars => Accounted' BY NextAccounted
<1>3. QED BY <1>1, <1>2, Invariance, PTL DEF Spec

\* With one prefill per request and eager decoding no token is ever lost other
\* than to a store that has no room: the kernels attend to all the others.
THEOREM NothingLost ==
    ASSUME ~ RepeatedPrefill, ~ GraphMode
    PROVE  Spec => []EveryTokenKept
<1>1. IInv /\ Accounted => EveryTokenKept
  <2>1. SUFFICES ASSUME IInv, Accounted, Idle
                 PROVE  {ring.slots[p] : p \in KernelSlots(ring)}
                          \cup {store.buf[j] : j \in GraphView(store)}
                        = (base .. next - 1) \ rejected
    BY DEF EveryTokenKept
  <2>2. KernelSlots(ring) = LiveSlots(ring)
    BY <2>1 DEF IInv, CallOK, KernelSlots, LiveSlots
  <2>3. GraphView(store) = EagerView(store)
    BY <2>1 DEF IInv, GraphView, EagerView
  <2>4. Held = StoredTokens(store) \cup RecentTokens(ring)
    BY <2>1 DEF IInv, CallOK, NoCall, Held, ToSet
  <2>5. QED
    BY <2>1, <2>2, <2>3, <2>4 DEF Accounted, StoredTokens, RecentTokens
<1>2. QED BY <1>1, Invariance, AccountedInvariance, PTL

-----------------------------------------------------------------------------
(* The ring buffer by age.                                                 *)

LEMMA SameSequence ==
    ASSUME NEW S, NEW s \in Seq(S), NEW t \in Seq(S), Len(s) = Len(t),
           \A i \in 1 .. Len(s) : s[i] = t[i]
    PROVE  s = t
OBVIOUS

\* The slot that holds the i-th oldest token.
AgeSlot(r, i) == (r.write_pos - r.count + i - 1) % Capacity

LEMMA ByAgeSequence ==
    ASSUME NEW r, RingOK(r)
    PROVE  /\ ByAge(r) \in Seq(Nat \cup {Zero})
           /\ Len(ByAge(r)) = r.count
           /\ \A i \in 1 .. r.count : ByAge(r)[i] = r.slots[AgeSlot(r, i)]
<1>1. r.write_pos \in Nat /\ r.count \in 0 .. Capacity
      /\ r.slots \in [Slot -> Nat \cup {Zero}]
  BY DEF RingOK, Ring
<1>2. \A i \in 1 .. r.count : AgeSlot(r, i) \in Slot
  <2>1. TAKE i \in 1 .. r.count
  <2>2. r.write_pos - r.count + i - 1 \in Int BY <1>1
  <2>3. QED BY <2>2, CapacityAssumption, Division DEF AgeSlot, Slot
<1>3. ByAge(r) = [i \in 1 .. r.count |-> r.slots[AgeSlot(r, i)]]
  BY DEF ByAge, AgeSlot
<1>4. \A i \in 1 .. r.count : r.slots[AgeSlot(r, i)] \in Nat \cup {Zero}
  BY <1>1, <1>2
<1> HIDE DEF AgeSlot
<1>5. QED BY <1>1, <1>3, <1>4

\* A token written to a ring with free slots is added to the others.
LEMMA ByAgeGrows ==
    ASSUME NEW r, RingOK(r), NEW tok \in Nat, ~ IsFull(r)
    PROVE  ByAge(WriteToken(r, tok)) = Append(ByAge(r), tok)
<1> DEFINE w == WriteToken(r, tok)
<1> USE CapacityAssumption
<1>1. /\ r.write_pos \in Nat /\ r.count \in 0 .. Capacity - 1
      /\ r.write_pos = r.count
      /\ w.write_pos = r.write_pos + 1 /\ w.count = r.count + 1
      /\ Pos(r) = r.count
  BY PosProperties DEF RingOK, Ring, WriteToken, IsFull
<1>2. RingOK(w) BY WriteTokenOK
<1>3. \A i \in 1 .. r.count + 1 : AgeSlot(w, i) = i - 1
  <2>1. TAKE i \in 1 .. r.count + 1
  <2>2. i - 1 \in 0 .. Capacity - 1 /\ i - 1 = (i - 1) + Capacity * 0 BY <1>1
  <2>3. w.write_pos - w.count + i - 1 = i - 1 BY <1>1
  <2>4. QED BY <2>2, <2>3, SlotOf DEF AgeSlot
<1>4. \A i \in 1 .. r.count : AgeSlot(r, i) = i - 1
  <2>1. TAKE i \in 1 .. r.count
  <2>2. i - 1 \in 0 .. Capacity - 1 /\ i - 1 = (i - 1) + Capacity * 0 BY <1>1
  <2>3. r.write_pos - r.count + i - 1 = i - 1 BY <1>1
  <2>4. QED BY <2>2, <2>3, SlotOf DEF AgeSlot
<1>5. /\ w.slots[Pos(r)] = tok
      /\ \A p \in Slot \ {Pos(r)} : w.slots[p] = r.slots[p]
  BY WriteTokenSlots
<1>6. \A i \in 1 .. r.count : ByAge(w)[i] = ByAge(r)[i]
  <2>1. TAKE i \in 1 .. r.count
  <2>2. i - 1 \in Slot \ {Pos(r)} BY <1>1 DEF Slot
  <2>3. ByAge(w)[i] = w.slots[i - 1]
    <3>1. i \in 1 .. w.count BY <1>1
    <3>2. ByAge(w)[i] = w.slots[AgeSlot(w, i)] BY <1>2, <3>1, ByAgeSequence
    <3>3. AgeSlot(w, i) = i - 1 BY <1>1, <1>3
    <3>4. QED BY <3>2, <3>3
  <2>4. ByAge(r)[i] = r.slots[i - 1] BY <1>4, ByAgeSequence
  <2>5. QED BY <1>5, <2>2, <2>3, <2>4
<1>7. ByAge(w)[r.count + 1] = tok
  <2>1. ByAge(w)[r.count + 1] = w.slots[(r.count + 1) - 1]
    BY <1>1, <1>2, <1>3, ByAgeSequence
  <2>2. QED BY <1>1, <1>5, <2>1
<1>8. /\ ByAge(w) \in Seq(Nat \cup {Zero}) /\ Len(ByAge(w)) = r.count + 1
      /\ ByAge(r) \in Seq(Nat \cup {Zero}) /\ Len(ByAge(r)) = r.count
  BY <1>1, <1>2, ByAgeSequence
<1> HIDE DEF w
<1>9. QED
  <2> DEFINE a == Append(ByAge(r), tok)
  <2>1. a \in Seq(Nat \cup {Zero}) /\ Len(a) = r.count + 1 BY <1>8
  <2>2. \A i \in 1 .. r.count + 1 : ByAge(w)[i] = a[i]
    BY <1>1, <1>6, <1>7, <1>8
  <2> HIDE DEF a
  <2>3. ByAge(w) = a BY <1>8, <2>1, <2>2, SameSequence
  <2>4. QED BY <2>3 DEF a, w

\* A token written to a full ring takes the slot of the oldest one.
LEMMA ByAgeSlides ==
    ASSUME NEW r, RingOK(r), NEW tok \in Nat, IsFull(r)
    PROVE  /\ ByAge(WriteToken(r, tok)) = Append(Tail(ByAge(r)), tok)
           /\ Evicted(r) = <<Head(ByAge(r))>>
<1> DEFINE w == WriteToken(r, tok)
<1> USE CapacityAssumption
<1>1. /\ r.write_pos \in Nat /\ r.count = Capacity
      /\ w.write_pos = r.write_pos + 1 /\ w.count = Capacity
      /\ Pos(r) = r.write_pos % Capacity
  BY PosProperties DEF RingOK, Ring, WriteToken, IsFull, Pos
<1>2. RingOK(w) BY WriteTokenOK
<1>3. /\ w.slots[Pos(r)] = tok
      /\ \A p \in Slot \ {Pos(r)} : w.slots[p] = r.slots[p]
  BY WriteTokenSlots
<1>4. AgeSlot(r, 1) = Pos(r)
  <2>1. /\ r.write_pos = Capacity * (r.write_pos \div Capacity) + Pos(r)
        /\ r.write_pos \div Capacity \in Int /\ Pos(r) \in 0 .. Capacity - 1
    <3>1. r.write_pos \in Int BY <1>1
    <3>2. /\ r.write_pos
                = Capacity * (r.write_pos \div Capacity) + (r.write_pos % Capacity)
          /\ r.write_pos \div Capacity \in Int
          /\ r.write_pos % Capacity \in 0 .. Capacity - 1
      BY <3>1, Division
    <3>3. Pos(r) = r.write_pos % Capacity BY DEF Pos
    <3>4. QED BY <3>2, <3>3
  <2> DEFINE q == (r.write_pos \div Capacity) - 1
  <2>2. q \in Int /\ Capacity * q = Capacity * (r.write_pos \div Capacity) - Capacity
    BY <2>1
  <2> DEFINE d == Capacity * (r.write_pos \div Capacity)
  <2>6. d \in Int /\ r.write_pos = d + Pos(r) /\ Capacity * q = d - Capacity
    BY <2>1, <2>2
  <2> HIDE DEF d, q
  <2>3. r.write_pos - r.count + 1 - 1 = Pos(r) + Capacity * q
    BY <1>1, <2>1, <2>2, <2>6
  <2>4. r.write_pos - r.count + 1 - 1 \in Int BY <1>1
  <2>5. QED BY <2>1, <2>2, <2>3, <2>4, SlotOf DEF AgeSlot
<1>5. \A i \in 1 .. Capacity - 1 :
         AgeSlot(w, i) = AgeSlot(r, i + 1) /\ AgeSlot(w, i) \in Slot \ {Pos(r)}
  <2>1. TAKE i \in 1 .. Capacity - 1
  <2> DEFINE b == r.write_pos - Capacity + i
  <2>2. /\ w.write_pos - w.count + i - 1 = b
        /\ r.write_pos - r.count + (i + 1) - 1 = b
        /\ b \in Int /\ r.write_pos - b > 0 /\ r.write_pos - b < Capacity
    BY <1>1
  <2>3. AgeSlot(w, i) = b % Capacity /\ AgeSlot(r, i + 1) = b % Capacity
    BY <2>2 DEF AgeSlot
  <2> HIDE DEF b
  <2>4. b % Capacity \in Slot BY <2>2, Division DEF Slot
  <2>5. b % Capacity # Pos(r) BY <1>1, <2>2, SlotsDiffer
  <2>6. QED BY <2>3, <2>4, <2>5
<1>6. AgeSlot(w, Capacity) = Pos(r)
  <2>1. w.write_pos - w.count + Capacity - 1 = r.write_pos BY <1>1
  <2>2. QED BY <1>1, <2>1 DEF AgeSlot
<1>7. /\ ByAge(w) \in Seq(Nat \cup {Zero}) /\ Len(ByAge(w)) = Capacity
      /\ ByAge(r) \in Seq(Nat \cup {Zero}) /\ Len(ByAge(r)) = Capacity
      /\ \A i \in 1 .. Capacity : ByAge(w)[i] = w.slots[AgeSlot(w, i)]
      /\ \A i \in 1 .. Capacity : ByAge(r)[i] = r.slots[AgeSlot(r, i)]
  BY <1>1, <1>2, ByAgeSequence
<1>8. \A i \in 1 .. Capacity - 1 : ByAge(w)[i] = ByAge(r)[i + 1]
  BY <1>3, <1>5, <1>7, SMTT(30)
<1>9. ByAge(w)[Capacity] = tok BY <1>3, <1>6, <1>7
<1>10. Evicted(r) = <<Head(ByAge(r))>>
  <2>1. Head(ByAge(r)) = r.slots[Pos(r)] BY <1>4, <1>7
  <2>2. QED BY <2>1 DEF Evicted
<1> HIDE DEF w
<1>11. ByAge(w) = Append(Tail(ByAge(r)), tok)
  <2> DEFINE a == Append(Tail(ByAge(r)), tok)
  <2>1. /\ Tail(ByAge(r)) \in Seq(Nat \cup {Zero})
        /\ Len(Tail(ByAge(r))) = Capacity - 1
        /\ \A i \in 1 .. Capacity - 1 : Tail(ByAge(r))[i] = ByAge(r)[i + 1]
    BY <1>7
  <2>2. a \in Seq(Nat \cup {Zero}) /\ Len(a) = Capacity BY <2>1
  <2>3. \A i \in 1 .. Capacity : ByAge(w)[i] = a[i]
    BY <1>8, <1>9, <2>1
  <2> HIDE DEF a
  <2>4. ByAge(w) = a BY <1>7, <2>2, <2>3, SameSequence
  <2>5. QED BY <2>4 DEF a
<1>12. QED BY <1>10, <1>11 DEF w

\* An empty ring has no ages, and the device counter has no part in them.
LEMMA ByAgeEmpty == ASSUME NEW r, RingOK(r), r.count = 0 PROVE ByAge(r) = <<>>
BY ByAgeSequence

LEMMA ByAgeSync ==
    ASSUME NEW r, RingOK(r) PROVE ByAge(SyncCounter(r)) = ByAge(r)
BY SyncCounterFacts DEF ByAge

\* By age or by slot, the tokens are the same.
LEMMA ByAgeTokens ==
    ASSUME NEW r, RingOK(r), NEW k \in Nat, Recency(r, r.count, k)
    PROVE  Tiered!Members(ByAge(r)) = RecentTokens(r)
<1> USE CapacityAssumption
<1>1. r.write_pos \in Nat /\ r.count \in 0 .. Capacity BY DEF RingOK, Ring
<1>2. RecentTokens(r) = k - r.count .. k - 1 BY WindowIsRecent
<1>3. \A i \in 1 .. r.count : ByAge(r)[i] = k - r.count + i - 1
  <2>1. TAKE i \in 1 .. r.count
  <2> DEFINE j == r.count - i + 1
  <2>2. j \in 1 .. r.count /\ r.write_pos - j = r.write_pos - r.count + i - 1
        /\ k - j = k - r.count + i - 1
    BY <1>1
  <2>3. ByAge(r)[i] = r.slots[(r.write_pos - j) % Capacity]
    BY <2>2, ByAgeSequence DEF AgeSlot
  <2> HIDE DEF j
  <2>4. QED BY <2>2, <2>3 DEF Recency
<1>4. DOMAIN ByAge(r) = 1 .. r.count BY ByAgeSequence
<1>5. \A x \in k - r.count .. k - 1 : x - k + r.count + 1 \in 1 .. r.count
         /\ x = k - r.count + (x - k + r.count + 1) - 1
  BY <1>1
<1>6. QED BY <1>1, <1>2, <1>3, <1>4, <1>5 DEF Tiered!Members

-----------------------------------------------------------------------------
LEMMA TieredCardinality == \A S : Tiered!Cardinality(S) = Cardinality(S)
BY DEF Tiered!Cardinality, Cardinality

\* append_chunk() keeps a chunk whole or loses it whole.
LEMMA ArchiveKeepsWhole ==
    ASSUME store \in Store, Injective(store.buf, EagerView(store)),
           NEW chunk \in Seq(Nat), Injective(chunk, DOMAIN chunk),
           Archive(chunk)
    PROVE  Tiered!Keep(ToSet(chunk))
<1>1. Cardinality(StoredTokens(store)) = store.num_stored BY StoredCount
<1>2. Cardinality(ToSet(chunk)) = Len(chunk) BY ChunkCount
<1>3. CASE Fits(store, chunk)
  <2>1. Cardinality(StoredTokens(store)) + Cardinality(ToSet(chunk)) <= MaxTokens
    BY <1>1, <1>2, <1>3 DEF Fits
  <2>2. StoredTokens(store)' = StoredTokens(store) \cup ToSet(chunk)
    <3>1. StoredTokens(store)' = StoredTokens(AppendChunk(store, chunk))
      BY DEF Archive, StoredTokens, EagerView
    <3>2. QED BY <1>3, <3>1, AppendChunkTokens
  <2>3. rejected' = rejected BY <1>3 DEF Archive
  <2>4. QED BY <2>1, <2>2, <2>3, TieredCardinality DEF Tiered!Keep
<1>4. CASE ~ Fits(store, chunk)
  <2>1. ~ Cardinality(StoredTokens(store)) + Cardinality(ToSet(chunk)) <= MaxTokens
    BY <1>1, <1>2, <1>4 DEF Fits
  <2>2. store' = store /\ rejected' = rejected \cup ToSet(chunk)
    BY <1>4 DEF Archive, AppendChunk
  <2>3. StoredTokens(store)' = StoredTokens(store)
    BY <2>2 DEF StoredTokens, EagerView
  <2>4. QED BY <2>1, <2>2, <2>3, TieredCardinality DEF Tiered!Keep
<1>5. QED BY <1>3, <1>4

-----------------------------------------------------------------------------
(* Every step of the engine is a step of TieredCache, or none.             *)

\* Steps that leave the window, the archive and what is between them alone.
LEMMA StutterStep ==
    ASSUME ByAge(ring)' = ByAge(ring), call'.overflow = call.overflow,
           UNCHANGED <<store, rejected, next>>
    PROVE  UNCHANGED Tiered!vars
<1>1. StoredTokens(store)' = StoredTokens(store)
  BY DEF StoredTokens, EagerView
<1>2. QED BY <1>1 DEF Tiered!vars

\* What the invariants say of an engine between two calls.
LEMMA BetweenCalls ==
    ASSUME IInv, Idle
    PROVE  /\ call = NoCall /\ call.op = "none" /\ call.overflow = <<>>
           /\ Recency(ring, ring.count, next)
           /\ RingOK(ring) /\ next \in Nat
<1>1. call = NoCall /\ call.op = "none" /\ call.overflow = <<>>
  BY DEF IInv, CallOK, NoCall, Idle
<1>2. Settled = ring.count BY <1>1 DEF Settled
<1>3. QED BY <1>1, <1>2 DEF IInv, TypeOK

\* ingest_prefill() of a long prompt: the window is empty, the head goes past it.
LEMMA LongPrefillBypasses ==
    ASSUME ~ RepeatedPrefill, IInv, Accounted,
           NEW n \in 1 .. MaxIngest, IngestLongPrefill(n)
    PROVE  Tiered!Bypass
<1> DEFINE h == n - Capacity
           chunk == [i \in 1 .. h |-> next + i - 1]
<1> USE CapacityAssumption, BoundsAssumption
<1>1. /\ Idle /\ next = base /\ n > Capacity /\ Archive(chunk)
      /\ next' = next + h /\ ring' = ring
      /\ call' = [op |-> "prefill_tail", todo |-> Capacity, overflow |-> <<>>]
  BY DEF IngestLongPrefill, MayPrefill, Writing
<1>2. /\ call.overflow = <<>> /\ RingOK(ring) /\ next \in Nat
      /\ ring.count = 0 /\ h \in Nat \ {0}
  BY <1>1, BetweenCalls, NothingArrived
<1>3. ByAge(ring) = <<>> BY <1>2, ByAgeEmpty
<1>4. chunk \in Seq(Nat) /\ Injective(chunk, DOMAIN chunk)
  BY <1>2 DEF Injective
<1>5. ToSet(chunk) = next .. next' - 1
  <2>1. DOMAIN chunk = 1 .. h BY <1>2
  <2>2. \A i \in 1 .. h : chunk[i] \in next .. next' - 1 BY <1>1, <1>2
  <2>3. \A x \in next .. next' - 1 :
           x - next + 1 \in 1 .. h /\ chunk[x - next + 1] = x
    BY <1>1, <1>2
  <2> HIDE DEF chunk
  <2>4. QED BY <2>1, <2>2, <2>3 DEF ToSet
<1>6. store \in Store /\ Injective(store.buf, EagerView(store))
  BY CountedOnceParts DEF IInv, TypeOK
<1> HIDE DEF chunk
<1>7. Tiered!Keep(ToSet(chunk)) BY <1>1, <1>4, <1>6, ArchiveKeepsWhole
<1>8. Tiered!Keep(next .. next' - 1) BY <1>5, <1>7
<1>9. next' \in Nat /\ next' > next BY <1>1, <1>2
<1>10. ByAge(ring)' = ByAge(ring) /\ call'.overflow = call.overflow
  BY <1>1, <1>2 DEF ByAge
<1>11. QED BY <1>2, <1>3, <1>8, <1>9, <1>10 DEF Tiered!Bypass

\* An iteration of the loop of write() is the arrival of a token.
LEMMA WriteLoopArrives ==
    ASSUME IInv, WriteLoop
    PROVE  Tiered!Arrive
<1> USE CapacityAssumption
<1>1. /\ ring' = WriteToken(ring, next) /\ next' = next + 1
      /\ UNCHANGED <<store, rejected>>
      /\ call'.overflow = call.overflow \o Evicted(ring)
  BY DEF WriteLoop
<1>2. /\ RingOK(ring) /\ next \in Nat /\ call.overflow \in Seq(Nat)
      /\ ring.count \in 0 .. Capacity
  BY DEF IInv, TypeOK, Calls, RingOK, Ring
<1>3. Len(ByAge(ring)) = ring.count BY <1>2, ByAgeSequence
<1>4. ByAge(ring)' = ByAge(WriteToken(ring, next)) BY <1>1 DEF ByAge
<1>5. StoredTokens(store)' = StoredTokens(store)
  BY <1>1 DEF StoredTokens, EagerView
<1>6. CASE ~ IsFull(ring)
  <2>1. Evicted(ring) = <<>> /\ Len(ByAge(ring)) < Capacity
    BY <1>2, <1>3, <1>6 DEF Evicted, IsFull
  <2>2. ByAge(ring)' = Append(ByAge(ring), next)
    BY <1>2, <1>4, <1>6, ByAgeGrows
  <2>3. call'.overflow = call.overflow BY <1>1, <1>2, <2>1
  <2>4. QED BY <1>1, <1>5, <2>1, <2>2, <2>3 DEF Tiered!Arrive
<1>7. CASE IsFull(ring)
  <2>1. ~ Len(ByAge(ring)) < Capacity BY <1>2, <1>3, <1>7 DEF IsFull
  <2>2. /\ ByAge(ring)' = Append(Tail(ByAge(ring)), next)
        /\ Evicted(ring) = <<Head(ByAge(ring))>>
    BY <1>2, <1>4, <1>7, ByAgeSlides
  <2>3. call'.overflow = Append(call.overflow, Head(ByAge(ring)))
    <3>1. Evicted(ring) \in Seq(Nat)
      <4>1. RecentTokens(ring) \subseteq Nat BY <1>2 DEF IInv, Held
      <4>2. QED BY <1>2, <4>1, EvictedFacts
    <3>2. Head(ByAge(ring)) \in Nat BY <2>2, <3>1
    <3>3. QED BY <1>1, <1>2, <2>2, <3>2
  <2>4. QED BY <1>1, <1>5, <2>1, <2>2, <2>3 DEF Tiered!Arrive
<1>8. QED BY <1>6, <1>7

\* The return of ingest_decode(): what left the window is archived, if anything.
LEMMA EndDecodeSettles ==
    ASSUME IInv, EndDecode
    PROVE  Tiered!Settle \/ UNCHANGED Tiered!vars
<1>1. /\ ring' = SyncCounter(ring) /\ Archive(call.overflow)
      /\ call'.overflow = <<>> /\ next' = next
  BY DEF EndDecode, NoCall
<1>2. RingOK(ring) /\ call.overflow \in Seq(Nat) /\ store \in Store
      /\ Injective(store.buf, EagerView(store))
      /\ Injective(call.overflow, DOMAIN call.overflow)
  BY CountedOnceParts DEF IInv, TypeOK, Calls
<1>3. ByAge(ring)' = ByAge(ring)
  <2>1. ByAge(ring)' = ByAge(SyncCounter(ring)) BY <1>1 DEF ByAge
  <2>2. QED BY <1>2, <2>1, ByAgeSync
<1>4. CASE call.overflow # <<>>
  <2>1. Tiered!Keep(ToSet(call.overflow)) BY <1>1, <1>2, ArchiveKeepsWhole
  <2>2. Tiered!Members(call.overflow) = ToSet(call.overflow)
    BY DEF Tiered!Members, ToSet
  <2>3. QED BY <1>1, <1>3, <1>4, <2>1, <2>2 DEF Tiered!Settle
<1>5. CASE call.overflow = <<>>
  <2>1. Fits(store, call.overflow)
    BY <1>2, <1>5, MaxTokensAssumption DEF Fits, Store
  <2>2. StoredTokens(store') = StoredTokens(store) \cup ToSet(call.overflow)
    BY <1>1, <1>2, <2>1, AppendChunkTokens DEF Archive
  <2>3. ToSet(call.overflow) = {} BY <1>5 DEF ToSet
  <2>4. StoredTokens(store)' = StoredTokens(store)
    BY <2>2, <2>3 DEF StoredTokens, EagerView
  <2>5. rejected' = rejected BY <1>1, <2>1 DEF Archive
  <2>6. QED BY <1>1, <1>3, <1>5, <2>4, <2>5 DEF Tiered!vars
<1>6. QED BY <1>4, <1>5

\* flush(), between two calls, archives the whole window.
LEMMA FlushDrains ==
    ASSUME IInv, Flush
    PROVE  Tiered!Drain
<1>1. /\ Idle /\ Archive(ReadAll(ring)) /\ ring' = EmptyRing
      /\ call' = call /\ next' = next
  BY DEF Flush
<1>2. /\ call.overflow = <<>> /\ Recency(ring, ring.count, next)
      /\ RingOK(ring) /\ next \in Nat
  BY <1>1, BetweenCalls
<1>3. /\ store \in Store /\ Injective(store.buf, EagerView(store))
      /\ Injective(ring.slots, LiveSlots(ring))
      /\ RecentTokens(ring) \subseteq Nat
  BY CountedOnceParts DEF IInv, TypeOK, Held
<1>4. /\ ReadAll(ring) \in Seq(Nat)
      /\ ToSet(ReadAll(ring)) = RecentTokens(ring)
      /\ Injective(ReadAll(ring), DOMAIN ReadAll(ring))
  BY <1>2, <1>3, ReadAllTokens DEF Injective
<1>5. Tiered!Keep(RecentTokens(ring)) BY <1>1, <1>3, <1>4, ArchiveKeepsWhole
<1>6. Tiered!Members(ByAge(ring)) = RecentTokens(ring) BY <1>2, ByAgeTokens
<1>7. ByAge(ring)' = <<>>
  <2>1. ByAge(ring)' = ByAge(EmptyRing) BY <1>1 DEF ByAge
  <2>2. QED BY <2>1, EmptyRingFacts, ByAgeEmpty
<1>8. QED BY <1>1, <1>2, <1>5, <1>6, <1>7 DEF Tiered!Drain

\* reset()
LEMMA ResetClears ==
    ASSUME IInv, Reset
    PROVE  Tiered!Clear
<1>1. /\ Idle /\ ring' = EmptyRing /\ store' = EmptyStore /\ rejected' = {}
      /\ call' = call /\ next' = next
  BY DEF Reset
<1>2. call.overflow = <<>> BY <1>1, BetweenCalls
<1>3. ByAge(ring)' = <<>>
  <2>1. ByAge(ring)' = ByAge(EmptyRing) BY <1>1 DEF ByAge
  <2>2. QED BY <2>1, EmptyRingFacts, ByAgeEmpty
<1>4. StoredTokens(store)' = {}
  <2>1. StoredTokens(store)' = StoredTokens(EmptyStore)
    BY <1>1 DEF StoredTokens, EagerView
  <2>2. QED BY <2>1, EmptyStoreFacts
<1>5. QED BY <1>1, <1>2, <1>3, <1>4 DEF Tiered!Clear

LEMMA TieredStep ==
    ASSUME ~ RepeatedPrefill, ~ GraphMode, IInv, Accounted, [Next]_vars
    PROVE  [Tiered!Next]_Tiered!vars
<1>1. ASSUME NEW n \in 1 .. MaxIngest, IngestShortPrefill(n)
      PROVE  UNCHANGED Tiered!vars
  <2>1. Idle /\ call'.overflow = <<>> /\ UNCHANGED <<ring, store, rejected, next>>
    BY <1>1 DEF IngestShortPrefill, MayPrefill, Writing
  <2>2. ByAge(ring)' = ByAge(ring) BY <2>1 DEF ByAge
  <2>3. QED BY <2>1, <2>2, BetweenCalls, StutterStep
<1>2. ASSUME NEW n \in 1 .. MaxIngest, IngestLongPrefill(n)
      PROVE  Tiered!Next
  BY <1>2, LongPrefillBypasses DEF Tiered!Next
<1>3. ASSUME NEW n \in 1 .. MaxChunk, IngestDecode(n)
      PROVE  UNCHANGED Tiered!vars
  <2>1. Idle /\ call'.overflow = <<>> /\ UNCHANGED <<ring, store, rejected, next>>
    BY <1>3 DEF IngestDecode, Writing
  <2>2. ByAge(ring)' = ByAge(ring) BY <2>1 DEF ByAge
  <2>3. QED BY <2>1, <2>2, BetweenCalls, StutterStep
<1>4. WriteLoop => Tiered!Next
  BY WriteLoopArrives DEF Tiered!Next
<1>5. ASSUME EndPrefill PROVE UNCHANGED Tiered!vars
  <2>1. /\ call.op \in {"prefill", "prefill_tail"} /\ ring' = SyncCounter(ring)
        /\ call'.overflow = <<>> /\ UNCHANGED <<store, rejected, next>>
    BY <1>5 DEF EndPrefill, NoCall
  <2>2. call.overflow = <<>> BY <2>1 DEF Accounted
  <2>3. ByAge(ring)' = ByAge(ring)
    <3>1. ByAge(ring)' = ByAge(SyncCounter(ring)) BY <2>1 DEF ByAge
    <3>2. QED BY <3>1, ByAgeSync DEF IInv
  <2>4. QED BY <2>1, <2>2, <2>3, StutterStep
<1>6. EndDecode => [Tiered!Next]_Tiered!vars
  BY EndDecodeSettles DEF Tiered!Next
<1>7. ~ IngestDecodeGraph BY DEF IngestDecodeGraph
<1>8. ASSUME CheckOverflowAndCompress \/ PrepareForDecode \/ UNCHANGED vars
      PROVE  UNCHANGED Tiered!vars
  <2>1. UNCHANGED <<ring, store, call, next, rejected>>
    BY <1>8 DEF CheckOverflowAndCompress, PrepareForDecode, vars
  <2>2. ByAge(ring)' = ByAge(ring) BY <2>1 DEF ByAge
  <2>3. QED BY <2>1, <2>2, StutterStep
<1>9. Flush => Tiered!Next
  BY FlushDrains DEF Tiered!Next
<1>10. Reset => Tiered!Next
  BY ResetClears DEF Tiered!Next
<1>11. QED
  BY <1>1, <1>2, <1>3, <1>4, <1>5, <1>6, <1>7, <1>8, <1>9, <1>10 DEF Next

-----------------------------------------------------------------------------
(* The theorem. *)

\* capture.py:43-182: with eager decoding and one prefill per request the
\* slots, counters and calls of the engine amount to a first-in first-out
\* window in front of an archive.
THEOREM EngineIsTieredCache ==
    ASSUME ~ RepeatedPrefill, ~ GraphMode
    PROVE  Spec => ImplementsTieredCache
<1>1. Init => Tiered!Init
  <2>1. SUFFICES ASSUME Init PROVE Tiered!Init OBVIOUS
  <2>2. /\ ring = EmptyRing /\ store = EmptyStore /\ call.overflow = <<>>
        /\ next = 0 /\ rejected = {}
    BY <2>1 DEF Init, NoCall
  <2>3. ByAge(ring) = <<>> BY <2>2, EmptyRingFacts, ByAgeEmpty
  <2>4. StoredTokens(store) = {} BY <2>2, EmptyStoreFacts
  <2>5. QED BY <2>2, <2>3, <2>4 DEF Tiered!Init
<1>2. IInv /\ Accounted /\ [Next]_vars => [Tiered!Next]_Tiered!vars
  BY TieredStep
<1>3. QED
  BY <1>1, <1>2, Invariance, AccountedInvariance, PTL
     DEF Spec, ImplementsTieredCache, Tiered!Spec

-----------------------------------------------------------------------------
(* The steps of a call and the call as a whole.                            *)

\* A turn of the loop of write().
AfterTurn(a, tok) ==
    [ring |-> WriteToken(a.ring, tok), overflow |-> a.overflow \o Evicted(a.ring)]

\* f has what is left after each turn, when the tokens from k on are written.
Turns(f, r, k, n) ==
    /\ f[0] = [ring |-> r, overflow |-> <<>>]
    /\ \A i \in 1 .. n : f[i] = AfterTurn(f[i - 1], k + i - 1)

\* a is what n turns make of the ring r.
Written(r, k, n, a) == \E f : Turns(f, r, k, n) /\ f[n] = a

LEMMA NothingWritten ==
    ASSUME NEW r, NEW k
    PROVE  Written(r, k, 0, [ring |-> r, overflow |-> <<>>])
<1> DEFINE a == [ring |-> r, overflow |-> <<>>]
           f == [i \in {0} |-> a]
<1>1. f[0] = a /\ 1 .. 0 = {}
  OBVIOUS
<1> HIDE DEF f
<1>2. Turns(f, r, k, 0)
  BY <1>1 DEF Turns
<1>3. QED
  BY <1>1, <1>2 DEF Written

LEMMA OneMoreWritten ==
    ASSUME NEW r, NEW k, NEW n \in Nat, NEW a, Written(r, k, n, a)
    PROVE  Written(r, k, n + 1, AfterTurn(a, k + n))
<1> DEFINE b == AfterTurn(a, k + n)
<1>1. PICK f : Turns(f, r, k, n) /\ f[n] = a
  BY DEF Written
<1> DEFINE g == [i \in 0 .. n + 1 |-> IF i = n + 1 THEN b ELSE f[i]]
<1>2. g[n + 1] = b /\ \A i \in 0 .. n : g[i] = f[i]
  OBVIOUS
<1> HIDE DEF g, b
<1>3. g[0] = [ring |-> r, overflow |-> <<>>]
  BY <1>1, <1>2 DEF Turns
<1>4. ASSUME NEW i \in 1 .. n + 1
      PROVE  g[i] = AfterTurn(g[i - 1], k + i - 1)
  <2>1. CASE i = n + 1
    <3>1. i - 1 = n /\ k + i - 1 = k + n /\ g[i - 1] = a
      BY <1>1, <1>2, <2>1
    <3>2. QED
      BY <1>2, <2>1, <3>1 DEF b
  <2>2. CASE i # n + 1
    <3>1. i \in 1 .. n /\ i \in 0 .. n /\ i - 1 \in 0 .. n
      BY <2>2
    <3>2. f[i] = AfterTurn(f[i - 1], k + i - 1)
      BY <1>1, <3>1 DEF Turns
    <3>3. QED
      BY <1>2, <3>1, <3>2
  <2>3. QED
    BY <2>1, <2>2
<1>5. Turns(g, r, k, n + 1)
  BY <1>3, <1>4 DEF Turns
<1>6. QED
  BY <1>2, <1>5 DEF Written, b

\* CaptureCalls has the operators of RingBuffer and CompressedKVStore for
\* themselves; they are the same.
LEMMA SameOperators ==
    /\ \A r, t : Calling!WriteToken(r, t) = WriteToken(r, t)
    /\ \A r : Calling!Evicted(r) = Evicted(r)
    /\ \A r : Calling!SyncCounter(r) = SyncCounter(r)
    /\ \A s, c : Calling!AppendChunk(s, c) = AppendChunk(s, c)
<1>1. \A r, t : Calling!WriteToken(r, t) = WriteToken(r, t)
  BY DEF Calling!WriteToken, WriteToken, Calling!Pos, Pos, Calling!IsFull, IsFull
<1>2. \A r : Calling!Evicted(r) = Evicted(r)
  BY DEF Calling!Evicted, Evicted, Calling!Pos, Pos, Calling!IsFull, IsFull
<1>3. \A r : Calling!SyncCounter(r) = SyncCounter(r)
  BY DEF Calling!SyncCounter, SyncCounter
<1>4. \A s, c : Calling!AppendChunk(s, c) = AppendChunk(s, c)
  BY DEF Calling!AppendChunk, AppendChunk, Calling!Fits, Fits, Calling!Position,
         Position
<1>5. QED
  BY <1>1, <1>2, <1>3, <1>4

\* write() of the tokens from k on.
LEMMA WriteIsWritten ==
    ASSUME NEW r, NEW k, NEW tokens, NEW n \in Nat, Len(tokens) = n,
           \A i \in 1 .. n : tokens[i] = k + i - 1,
           NEW a, Written(r, k, n, a)
    PROVE  Calling!Write(r, tokens)
             = [ring |-> SyncCounter(a.ring), overflow |-> a.overflow]
<1> DEFINE a0 == [ring |-> r, overflow |-> <<>>]
           loop(h) == [i \in 0 .. n |->
                         IF i = 0 THEN a0 ELSE AfterTurn(h[i - 1], tokens[i])]
           turn == CHOOSE h : h = loop(h)
<1>1. PICK f : Turns(f, r, k, n) /\ f[n] = a
  BY DEF Written
<1>2. f[0] = a0 /\ \A i \in 1 .. n : f[i] = AfterTurn(f[i - 1], tokens[i])
  BY <1>1 DEF Turns
<1> HIDE DEF a0
<1>3. \E h : h = loop(h)
  <2> DEFINE g == [i \in 0 .. n |-> f[i]]
  <2>1. ASSUME NEW i \in 0 .. n
        PROVE  f[i] = IF i = 0 THEN a0 ELSE AfterTurn(g[i - 1], tokens[i])
    <3>1. CASE i = 0
      BY <1>2, <3>1
    <3>2. CASE i # 0
      <4>1. i \in 1 .. n /\ i - 1 \in 0 .. n
        BY <3>2
      <4>2. g[i - 1] = f[i - 1]
        BY <4>1
      <4> HIDE DEF g
      <4>3. QED
        BY <1>2, <3>2, <4>1, <4>2
    <3>3. QED
      BY <3>1, <3>2
  <2>2. g = loop(g)
    BY <2>1
  <2>3. QED
    BY <2>2
<1>4. turn = loop(turn)
  <2> HIDE DEF loop
  <2>1. QED
    BY <1>3
<1>5. Calling!Write(r, tokens) = [ring |-> SyncCounter(turn[n].ring),
                                  overflow |-> turn[n].overflow]
  BY SameOperators DEF Calling!Write, AfterTurn, a0
<1> HIDE DEF turn
<1>6. \A i \in 0 .. n : turn[i] = IF i = 0 THEN a0
                                  ELSE AfterTurn(turn[i - 1], tokens[i])
  BY <1>4
<1> HIDE DEF loop
<1> DEFINE T == {i \in 0 .. n : turn[i] = f[i]}
<1>7. 0 \in T
  BY <1>2, <1>6
<1>8. ASSUME NEW i \in 0 .. n - 1, i \in T
      PROVE  i + 1 \in T
  <2>1. i + 1 \in 1 .. n /\ i + 1 \in 0 .. n /\ i + 1 # 0 /\ (i + 1) - 1 = i
    OBVIOUS
  <2>2. turn[i + 1] = AfterTurn(turn[i], tokens[i + 1])
    BY <1>6, <2>1
  <2>3. f[i + 1] = AfterTurn(f[i], tokens[i + 1])
    BY <1>2, <2>1
  <2>4. QED
    BY <1>8, <2>1, <2>2, <2>3
<1>9. turn[n] = a
  <2>1. \A i \in 0 .. n : i \in T
    <3> HIDE DEF T
    <3>1. QED
      BY <1>7, <1>8, UpToInduction
  <2>2. QED
    BY <1>1, <2>1
<1>10. QED
  BY <1>5, <1>9

-----------------------------------------------------------------------------
(* The invariant of a call in progress.                                    *)

\* h tokens from k on.
Arrivals(k, h) == [i \in 1 .. h |-> k + i - 1]

\* The n tokens that have arrived since the call are written, but for the head
\* of a long prefill, which the store was handed at once.
InCall ==
    LET e == before.engine
        n == next - before.first
        a == [ring |-> ring, overflow |-> call.overflow]
        h == n + call.todo - Capacity
    IN  /\ e = [ring |-> e.ring, store |-> e.store]
        /\ before.first \in Nat /\ n \in Nat
        /\ call.op \in {"decode", "prefill"} =>
             store = e.store /\ Written(e.ring, before.first, n, a)
        /\ call.op = "prefill" => n + call.todo <= Capacity
        /\ call.op = "prefill_tail" =>
             /\ h \in Nat \ {0} /\ call.todo <= Capacity
             /\ store = AppendChunk(e.store, Arrivals(before.first, h))
             /\ Written(e.ring, before.first + h, Capacity - call.todo, a)

CallInv == ~ Idle => InCall

LEMMA CallBegins ==
    ASSUME IInv, Idle, MCNext, ~ Idle'
    PROVE  InCall'
<1> USE CapacityAssumption, BoundsAssumption
<1>1. /\ before' = [engine |-> [ring |-> ring, store |-> store], first |-> next]
      /\ Next /\ call = NoCall /\ call.todo = 0 /\ next \in Nat
  BY DEF MCNext, IInv, CallOK, NoCall, TypeOK
<1> DEFINE e == before'.engine
<1>2. /\ e = [ring |-> ring, store |-> store] /\ e.ring = ring /\ e.store = store
      /\ before'.first = next
  BY <1>1
<1>3. e = [ring |-> e.ring, store |-> e.store]
  BY <1>2
<1> HIDE DEF e
<1>4. \/ \E n \in Nat : IngestShortPrefill(n) \/ IngestDecode(n)
      \/ \E n \in Nat : IngestLongPrefill(n)
  <2>1. \A n \in 1 .. MaxIngest : n \in Nat
    OBVIOUS
  <2>2. \A n \in 1 .. MaxChunk : n \in Nat
    OBVIOUS
  <2>3. /\ ~ WriteLoop /\ ~ EndPrefill /\ ~ EndDecode
    BY <1>1 DEF WriteLoop, EndPrefill, EndDecode, NoCall
  <2>4. /\ ~ IngestDecodeGraph /\ ~ CheckOverflowAndCompress /\ ~ PrepareForDecode
        /\ ~ Flush /\ ~ Reset
    BY DEF IngestDecodeGraph, CheckOverflowAndCompress, PrepareForDecode, Flush,
           Reset, Idle, vars
  <2>5. QED
    BY <1>1, <2>1, <2>2, <2>3, <2>4 DEF Next
<1>5. ASSUME NEW n \in Nat, IngestShortPrefill(n) \/ IngestDecode(n)
      PROVE  InCall'
  <2>1. /\ call' \in {Writing("prefill", n), Writing("decode", n)}
        /\ call' = Writing("prefill", n) => n <= Capacity
        /\ ring' = ring /\ store' = store /\ next' = next
    BY <1>5 DEF IngestShortPrefill, IngestDecode, Writing
  <2>2. call'.op \in {"prefill", "decode"} /\ call'.todo = n /\ call'.overflow = <<>>
        /\ (call'.op = "prefill" => n <= Capacity)
    BY <2>1 DEF Writing
  <2>3. next' - before'.first = 0
    BY <1>1, <1>2, <2>1
  <2>4. Written(e.ring, before'.first, 0, [ring |-> ring', overflow |-> call'.overflow])
    BY <1>2, <2>1, <2>2, NothingWritten
  <2>5. QED
    BY <1>1, <1>2, <1>3, <2>1, <2>2, <2>3, <2>4 DEF InCall, e
<1>6. ASSUME NEW n \in Nat, IngestLongPrefill(n)
      PROVE  InCall'
  <2> DEFINE h == n - Capacity
  <2>1. /\ call' = Writing("prefill_tail", Capacity) /\ n > Capacity
        /\ ring' = ring /\ next' = next + h
        /\ store' = AppendChunk(store, Arrivals(next, h))
    BY <1>6 DEF IngestLongPrefill, Archive, Arrivals
  <2>2. call'.op = "prefill_tail" /\ call'.todo = Capacity /\ call'.overflow = <<>>
    BY <2>1 DEF Writing
  <2>3. h \in Nat \ {0}
    BY <2>1
  <2> HIDE DEF h
  <2>4. /\ next' - before'.first = h
        /\ (next' - before'.first) + call'.todo - Capacity = h
        /\ Capacity - call'.todo = 0
    BY <1>1, <1>2, <2>1, <2>2, <2>3
  <2>5. Written(e.ring, before'.first + h, 0,
                [ring |-> ring', overflow |-> call'.overflow])
    BY <1>2, <2>1, <2>2, NothingWritten
  <2>6. QED
    BY <1>1, <1>2, <1>3, <2>1, <2>2, <2>3, <2>4, <2>5 DEF InCall, e
<1>7. QED
  BY <1>4, <1>5, <1>6

LEMMA CallWrites ==
    ASSUME IInv, InCall, WriteLoop, UNCHANGED before
    PROVE  InCall'
<1> USE CapacityAssumption
<1> DEFINE e == before.engine
           n == next - before.first
           a == [ring |-> ring, overflow |-> call.overflow]
           b == [ring |-> ring', overflow |-> call'.overflow]
           h == n + call.todo - Capacity
<1>1. /\ call.todo \in Nat \ {0} /\ next \in Nat /\ call'.op = call.op
      /\ call'.todo = call.todo - 1 /\ next' = next + 1 /\ store' = store
  BY DEF WriteLoop, IInv, TypeOK, Calls
<1>2. b = AfterTurn(a, next)
  BY DEF WriteLoop, AfterTurn
<1>3. before.first \in Nat /\ n \in Nat /\ e = [ring |-> e.ring, store |-> e.store]
  BY DEF InCall
<1> DEFINE nn == next' - before'.first
           hh == nn + call'.todo - Capacity
<1>4. nn = n + 1 /\ before' = before /\ hh = h
  BY <1>1, <1>3
<1>5. ASSUME call.op \in {"decode", "prefill"}
      PROVE  store = e.store /\ Written(e.ring, before.first, nn, b)
  <2>1. store = e.store /\ Written(e.ring, before.first, n, a)
    BY <1>5 DEF InCall
  <2>2. before.first + n = next
    BY <1>1, <1>3
  <2> HIDE DEF n, a, b, e, nn
  <2>3. Written(e.ring, before.first, n + 1, AfterTurn(a, before.first + n))
    BY <1>3, <2>1, OneMoreWritten
  <2>4. QED
    BY <1>2, <1>4, <2>1, <2>2, <2>3
<1>6. ASSUME call.op = "prefill_tail"
      PROVE  /\ hh \in Nat \ {0} /\ call'.todo <= Capacity
             /\ store' = AppendChunk(e.store, Arrivals(before.first, hh))
             /\ Written(e.ring, before.first + hh, Capacity - call'.todo, b)
  <2>1. /\ h \in Nat \ {0} /\ call.todo <= Capacity
        /\ store = AppendChunk(e.store, Arrivals(before.first, h))
        /\ Written(e.ring, before.first + h, Capacity - call.todo, a)
    BY <1>6 DEF InCall
  <2> DEFINE m == Capacity - call.todo
  <2>2. m \in Nat /\ Capacity - call'.todo = m + 1
    BY <1>1, <2>1
  <2>3. (before.first + h) + m = next
    BY <1>1, <1>3, <2>1
  <2>4. call'.todo <= Capacity
    BY <1>1, <2>1
  <2> HIDE DEF n, a, b, e, nn, h, hh, m
  <2>5. Written(e.ring, before.first + h, m, a)
    BY <2>1 DEF m
  <2>6. Written(e.ring, before.first + h, m + 1, AfterTurn(a, (before.first + h) + m))
    BY <2>2, <2>5, OneMoreWritten
  <2>7. QED
    BY <1>1, <1>2, <1>4, <2>1, <2>2, <2>3, <2>4, <2>6
<1>7. call.op = "prefill" => nn + call'.todo <= Capacity
  <2>1. call.op = "prefill" => n + call.todo <= Capacity
    BY DEF InCall
  <2> HIDE DEF n, nn
  <2>2. QED
    BY <1>1, <1>3, <1>4, <2>1
<1>8. e' = e
  BY <1>4
<1>9. nn \in Nat
  BY <1>3, <1>4
<1> HIDE DEF e, n, a, h
<1>10. QED
  BY <1>1, <1>3, <1>4, <1>5, <1>6, <1>7, <1>8, <1>9 DEF InCall, e

LEMMA CallInvariant ==
    ASSUME IInv, CallInv, [MCNext]_<<vars, before>>
    PROVE  CallInv'
<1>1. CASE Idle'
  BY <1>1 DEF CallInv
<1>2. CASE Idle /\ ~ Idle' /\ MCNext
  BY <1>2, CallBegins DEF CallInv
<1>3. CASE ~ Idle /\ ~ Idle' /\ MCNext
  <2>1. WriteLoop /\ UNCHANGED before
    <3>1. Next /\ before' = before
      BY <1>3 DEF MCNext
    <3>2. ~ EndPrefill /\ ~ EndDecode
      BY <1>3 DEF EndPrefill, EndDecode, Idle, NoCall
    <3>3. /\ \A n : ~ IngestShortPrefill(n) /\ ~ IngestLongPrefill(n) /\ ~ IngestDecode(n)
          /\ ~ IngestDecodeGraph /\ ~ CheckOverflowAndCompress /\ ~ PrepareForDecode
          /\ ~ Flush /\ ~ Reset
      BY <1>3 DEF IngestShortPrefill, IngestLongPrefill, MayPrefill, IngestDecode,
             IngestDecodeGraph, CheckOverflowAndCompress, PrepareForDecode, Flush, Reset
    <3>4. QED
      BY <3>1, <3>2, <3>3 DEF Next
  <2>2. QED
    BY <1>3, <2>1, CallWrites DEF CallInv
<1>4. CASE UNCHANGED <<vars, before>>
  BY <1>4 DEF CallInv, InCall, Idle, vars
<1>5. QED
  BY <1>1, <1>2, <1>3, <1>4

LEMMA ArrivalsFacts ==
    ASSUME NEW k, NEW n \in Nat
    PROVE  /\ Len(Arrivals(k, n)) = n
           /\ \A i \in 1 .. n : Arrivals(k, n)[i] = k + i - 1
BY DEF Arrivals

\* The return of a call: the engine is what CaptureCalls says.
LEMMA CallReturns ==
    ASSUME IInv, InCall, ~ Idle, Idle', MCNext
    PROVE  [ring |-> ring', store |-> store']
             = IF call.op = "decode"
               THEN Calling!IngestDecode(before.engine,
                                         Arrivals(before.first, next - before.first))
               ELSE Calling!IngestPrefill(before.engine,
                                          Arrivals(before.first, next - before.first))
<1> USE CapacityAssumption
<1> DEFINE e == before.engine
           k == before.first
           n == next - before.first
           a == [ring |-> ring, overflow |-> call.overflow]
           h == n + call.todo - Capacity
           all == Arrivals(k, n)
<1>1. /\ k \in Nat /\ n \in Nat /\ e = [ring |-> e.ring, store |-> e.store]
      /\ Len(all) = n /\ \A i \in 1 .. n : all[i] = k + i - 1
  BY ArrivalsFacts DEF InCall
<1>2. EndPrefill \/ EndDecode
  <2>1. Next
    BY DEF MCNext
  <2>2. ~ WriteLoop
    BY DEF WriteLoop, Idle
  <2>3. /\ \A m : ~ IngestShortPrefill(m) /\ ~ IngestLongPrefill(m) /\ ~ IngestDecode(m)
        /\ ~ IngestDecodeGraph /\ ~ CheckOverflowAndCompress /\ ~ PrepareForDecode
        /\ ~ Flush /\ ~ Reset
    BY DEF IngestShortPrefill, IngestLongPrefill, MayPrefill, IngestDecode,
           IngestDecodeGraph, CheckOverflowAndCompress, PrepareForDecode, Flush, Reset
  <2>4. QED
    BY <2>1, <2>2, <2>3 DEF Next
<1>3. call.todo = 0
  BY <1>2 DEF EndPrefill, EndDecode
<1>4. CASE EndDecode
  <2>1. /\ call.op = "decode" /\ ring' = SyncCounter(ring)
        /\ store' = AppendChunk(store, call.overflow)
    BY <1>4 DEF EndDecode, Archive
  <2>2. store = e.store /\ Written(e.ring, k, n, a)
    BY <2>1 DEF InCall
  <2>3. a.ring = ring /\ a.overflow = call.overflow
    OBVIOUS
  <2> HIDE DEF e, k, n, all, a
  <2>4. Calling!Write(e.ring, all)
          = [ring |-> SyncCounter(ring), overflow |-> call.overflow]
    BY <1>1, <2>2, <2>3, WriteIsWritten
  <2>5. Calling!IngestDecode(e, all)
          = [ring |-> SyncCounter(ring), store |-> AppendChunk(e.store, call.overflow)]
    BY <2>4, SameOperators DEF Calling!IngestDecode
  <2>6. QED
    BY <2>1, <2>2, <2>5 DEF e, all, k, n
<1>5. CASE EndPrefill /\ call.op = "prefill"
  <2>1. ring' = SyncCounter(ring) /\ store' = store
    BY <1>5 DEF EndPrefill
  <2>2. store = e.store /\ Written(e.ring, k, n, a) /\ n <= Capacity
    BY <1>3, <1>5 DEF InCall
  <2>3. a.ring = ring
    OBVIOUS
  <2> HIDE DEF e, k, n, all, a
  <2>4. Calling!Write(e.ring, all).ring = SyncCounter(ring)
    BY <1>1, <2>2, <2>3, WriteIsWritten
  <2>5. Len(all) - Capacity <= 0
    BY <1>1, <2>2
  <2>6. Calling!IngestPrefill(e, all) = [e EXCEPT !.ring = Calling!Write(@, all).ring]
    BY <2>5 DEF Calling!IngestPrefill
  <2>7. Calling!IngestPrefill(e, all) = [ring |-> SyncCounter(ring), store |-> e.store]
    BY <1>1, <2>4, <2>6
  <2>8. QED
    BY <1>5, <2>1, <2>2, <2>7 DEF e, all, k, n
<1>6. CASE EndPrefill /\ call.op = "prefill_tail"
  <2>1. ring' = SyncCounter(ring) /\ store' = store
    BY <1>6 DEF EndPrefill
  <2>2. /\ h \in Nat \ {0} /\ store = AppendChunk(e.store, Arrivals(k, h))
        /\ Written(e.ring, k + h, Capacity - call.todo, a)
    BY <1>6 DEF InCall
  <2>3. n = h + Capacity /\ Capacity - call.todo = Capacity
    BY <1>1, <1>3
  <2> DEFINE tail == SubSeq(all, h + 1, Len(all))
             head == SubSeq(all, 1, h)
  <2>4. a.ring = ring
    OBVIOUS
  <2> HIDE DEF e, k, n, h, a
  <2>5. /\ Len(tail) = Capacity
        /\ \A i \in 1 .. Capacity : tail[i] = (k + h) + i - 1
    <3>1. tail = [i \in 1 .. Capacity |-> all[h + i]]
      <4>1. all \in Seq(Int)
        BY <1>1 DEF Arrivals
      <4>2. Len(all) = h + Capacity /\ h \in Nat
        BY <1>1, <2>2, <2>3
      <4> HIDE DEF all
      <4>3. QED
        BY <4>1, <4>2
    <3>2. \A i \in 1 .. Capacity : h + i \in 1 .. n /\ k + (h + i) - 1 = (k + h) + i - 1
      BY <1>1, <2>2, <2>3
    <3> HIDE DEF all, tail
    <3>3. QED
      BY <1>1, <3>1, <3>2
  <2>6. head = Arrivals(k, h)
    BY <1>1, <2>2, <2>3 DEF Arrivals
  <2> HIDE DEF all, tail, head
  <2>7. Calling!Write(e.ring, tail).ring = SyncCounter(ring)
    BY <2>2, <2>3, <2>4, <2>5, WriteIsWritten
  <2>8. Len(all) - Capacity = h /\ ~ (h <= 0)
    BY <1>1, <2>2, <2>3
  <2>9. Calling!IngestPrefill(e, all)
          = [ring |-> Calling!Write(e.ring, tail).ring,
             store |-> Calling!AppendChunk(e.store, head)]
    BY <2>8 DEF Calling!IngestPrefill, tail, head
  <2>10. Calling!IngestPrefill(e, all) = [ring |-> SyncCounter(ring), store |-> store]
    BY <2>2, <2>6, <2>7, <2>9, SameOperators
  <2>11. QED
    BY <1>6, <2>1, <2>10 DEF e, all, k, n
<1>7. QED
  BY <1>2, <1>4, <1>5, <1>6 DEF EndPrefill

\* Whatever the loop of write() does token by token, ingest_prefill() and
\* ingest_decode() return with the engine that CaptureCalls says, the one from
\* which the adapter goes on: for calls of every length.
THEOREM CallsAreWhole == MCSpec => CallsAddUp
<1>1. MCSpec => [](IInv /\ CallInv)
  <2>1. MCInit => IInv /\ CallInv
    BY InitInvariant DEF MCInit, CallInv, Idle, Init, NoCall
  <2>2. IInv /\ CallInv /\ [MCNext]_<<vars, before>> => (IInv /\ CallInv)'
    <3>1. [MCNext]_<<vars, before>> => [Next]_vars
      BY DEF MCNext
    <3>2. QED
      BY <3>1, NextInvariant, CallInvariant
  <2>3. QED
    BY <2>1, <2>2, PTL DEF MCSpec
<1> DEFINE Whole ==
      ~ Idle /\ Idle' =>
          LET arrived == [i \in 1 .. next - before.first |-> before.first + i - 1]
          IN  [ring |-> ring', store |-> store'] =
                IF call.op = "decode"
                THEN Calling!IngestDecode(before.engine, arrived)
                ELSE Calling!IngestPrefill(before.engine, arrived)
<1>2. IInv /\ CallInv /\ [MCNext]_<<vars, before>> => [Whole]_<<vars, before>>
  <2>1. SUFFICES ASSUME IInv, CallInv, MCNext, ~ Idle, Idle' PROVE Whole
    OBVIOUS
  <2>2. QED
    BY <2>1, CallReturns DEF CallInv, Arrivals
<1> HIDE DEF Whole
<1>3. MCSpec => [][Whole]_<<vars, before>>
  BY <1>1, <1>2, PTL DEF MCSpec
<1>4. QED
  BY <1>3, PTL DEF CallsAddUp, Whole

=============================================================================
