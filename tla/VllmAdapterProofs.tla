------------------------- MODULE VllmAdapterProofs -------------------------
(***************************************************************************)
(* Theorems about the patched forward pass for every capacity, store size, *)
(* set of requests, scheduler and prompt, under the conditions that the    *)
(* code relies on without checking them, which VllmAdapter names and which *)
(* are the hypotheses of the theorems.                                     *)
(***************************************************************************)
EXTENDS VllmAdapter, RingBufferTheorems, FiniteInduction

-----------------------------------------------------------------------------
(* The invariants.                                                         *)

\* An engine between two calls holds tokens below k, each in one place.
EngineOK(e, k) ==
    /\ e \in [ring : Ring, store : Store]
    /\ RingOK(e.ring) /\ e.ring.count_tensor = e.ring.count
    /\ e.store.n_tensor = e.store.num_stored
    /\ Injective(e.ring.slots, LiveSlots(e.ring))
    /\ Injective(e.store.buf, EagerView(e.store))
    /\ StoredTokens(e.store) \cap RecentTokens(e.ring) = {}
    /\ StoredTokens(e.store) \cup RecentTokens(e.ring) \subseteq 0 .. k - 1

\* How many tokens an engine holds.
Size(e) == e.store.num_stored + e.ring.count

State(k) == {s \in [engine : [ring : Ring, store : Store], num_tokens : Nat,
                    is_prefill_complete : BOOLEAN, entered_decode : BOOLEAN] :
                EngineOK(s.engine, k)}

Statuses == {"waiting", "running", "done", "released"}

TypeOK ==
    /\ workload \in Workloads
    /\ status \in [Requests -> Statuses]
    /\ prompt \in [Requests -> Nat]
    /\ decodes \in [Requests -> Nat]
    /\ owner \in Seq(Requests)

\* The slots sl hold tokens below k, no token in two of them.
SlotsAt(sl, k) ==
    /\ DOMAIN sl \subseteq {Prefill, Default}
    /\ sl \in [DOMAIN sl -> State(k)]
    /\ \A i, j \in DOMAIN sl : i # j =>
         Attended(sl[i].engine) \cap Attended(sl[j].engine) = {}

\* The slots hold tokens that have arrived.
SlotsOK == SlotsAt(slots, Len(owner))

IInv == TypeOK /\ SlotsOK

\* A request that has begun finds the state of the prefill.
BegunInPrefill ==
    /\ DOMAIN slots \subseteq {Prefill}
    /\ \A r \in Requests :
         /\ prompt[r] <= workload.prompt[r]
         /\ HasWork(r) => workload.prompt[r] >= 2
         /\ status[r] = "waiting" => prompt[r] = workload.prompt[r]
         /\ status[r] = "running" /\ prompt[r] < workload.prompt[r]
            => Prefill \in DOMAIN slots

\* Something is attended to.
OutNotEmpty == \A r \in DOMAIN out : out[r] # {}

\* What a request that has had its prompt and is not finished has, where
\* requests come one after the other.
Begun(r) == status[r] = "running" /\ prompt[r] = 0

OwnState(r) ==
    /\ Prefill \in DOMAIN slots
    /\ Attended(slots[Prefill].engine) = Owned(owner, r)
    /\ Size(slots[Prefill].engine)
         = workload.prompt[r] + (workload.decodes[r] - decodes[r])
    /\ slots[Prefill].entered_decode <=> decodes[r] < workload.decodes[r]

RequestOK(r) ==
    /\ prompt[r] \in {0, workload.prompt[r]}
    /\ decodes[r] <= workload.decodes[r]
    /\ prompt[r] > 0 => /\ Owned(owner, r) = {}
                        /\ decodes[r] = workload.decodes[r]
    /\ status[r] = "waiting" => prompt[r] = workload.prompt[r]
    /\ status[r] = "running" => workload.prompt[r] >= 2
    /\ Begun(r) => OwnState(r)

\* One request runs, and either its prefill will clear the state or the state
\* holds its tokens and nothing else.
OneByOne ==
    /\ \A r, s \in Running : r = s
    /\ \A r \in Requests : RequestOK(r)
    /\ Prefill \in DOMAIN slots /\ ~ slots[Prefill].entered_decode
       => \E r \in Requests : Begun(r)

-----------------------------------------------------------------------------
(* RingBuffer.write(), turn by turn.                                       *)

\* What holds after i turns of the loop that writes the tokens from k on to
\* the ring r: a is the ring and the overflow.
Turn(r, k, i, a) ==
    /\ RingOK(a.ring) /\ a.overflow \in Seq(Nat)
    /\ Injective(a.ring.slots, LiveSlots(a.ring))
    /\ Injective(a.overflow, DOMAIN a.overflow)
    /\ RecentTokens(a.ring) \cup ToSet(a.overflow)
         = RecentTokens(r) \cup (k .. k + i - 1)
    /\ RecentTokens(a.ring) \cap ToSet(a.overflow) = {}
    /\ a.ring.count + Len(a.overflow) = r.count + i
    /\ a.overflow # <<>> => a.ring.count = Capacity
    /\ Recency(a.ring, IF i < Capacity THEN i ELSE Capacity, k + i)

AfterTurn(a, tok) == [ring |-> WriteToken(a.ring, tok),
                      overflow |-> a.overflow \o Evicted(a.ring)]

LEMMA ConcatLength ==
    ASSUME NEW s \in Seq(Nat), NEW t \in Seq(Nat)
    PROVE  Len(s \o t) = Len(s) + Len(t)
OBVIOUS

LEMMA WriteTokenType ==
    ASSUME NEW r \in Ring, NEW tok \in Nat
    PROVE  WriteToken(r, tok) \in Ring /\ Evicted(r) \in Seq(Int)
<1> USE CapacityAssumption
<1>1. /\ r.slots \in [Slot -> Nat \cup {Zero}] /\ r.write_pos \in Nat
      /\ r.count \in 0 .. Capacity /\ r.count_tensor \in 0 .. Capacity
  BY DEF Ring
<1>2. Pos(r) \in Slot
  BY <1>1 DEF Pos, Slot
<1>3. r.slots[Pos(r)] \in Int
  BY <1>1, <1>2 DEF Zero
<1>4. [r.slots EXCEPT ![Pos(r)] = tok] \in [Slot -> Nat \cup {Zero}]
  BY <1>1, <1>2
<1>5. (IF IsFull(r) THEN r.count ELSE r.count + 1) \in 0 .. Capacity
  BY <1>1 DEF IsFull
<1>6. QED
  BY <1>1, <1>3, <1>4, <1>5 DEF WriteToken, Ring, Evicted

LEMMA FirstTurn ==
    ASSUME NEW r, RingOK(r), Injective(r.slots, LiveSlots(r)), NEW k \in Nat
    PROVE  Turn(r, k, 0, [ring |-> r, overflow |-> <<>>])
<1> DEFINE a == [ring |-> r, overflow |-> <<>>]
<1>1. a.ring = r /\ a.overflow = <<>> /\ a.overflow \in Seq(Nat)
  OBVIOUS
<1>2. ToSet(<<>>) = {} /\ Injective(<<>>, DOMAIN <<>>) /\ Len(<<>>) = 0
  BY DEF ToSet, Injective
<1>3. k .. k + 0 - 1 = {}
  OBVIOUS
<1>4. Recency(r, 0, k + 0)
  BY DEF Recency
<1>5. r.count \in Nat
  BY CapacityAssumption DEF RingOK, Ring
<1>6. (IF 0 < Capacity THEN 0 ELSE Capacity) = 0
  BY CapacityAssumption
<1>7. QED
  BY <1>1, <1>2, <1>3, <1>4, <1>5, <1>6 DEF Turn

LEMMA NextTurn ==
    ASSUME NEW r, RecentTokens(r) \subseteq Nat, r.count \in Nat,
           NEW k \in Nat, RecentTokens(r) \subseteq 0 .. k - 1,
           NEW i \in Nat, NEW a, Turn(r, k, i, a)
    PROVE  Turn(r, k, i + 1, AfterTurn(a, k + i))
<1> DEFINE w == WriteToken(a.ring, k + i)
           ev == Evicted(a.ring)
           b == AfterTurn(a, k + i)
<1> USE CapacityAssumption
<1>1. b.ring = w /\ b.overflow = a.overflow \o ev
  BY DEF AfterTurn
<1>2. /\ RingOK(a.ring) /\ a.overflow \in Seq(Nat) /\ k + i \in Nat
      /\ Injective(a.ring.slots, LiveSlots(a.ring))
      /\ RecentTokens(a.ring) \cup ToSet(a.overflow)
           = RecentTokens(r) \cup (k .. k + i - 1)
  BY DEF Turn
<1>3. RecentTokens(a.ring) \subseteq 0 .. k + i - 1
  BY <1>2
<1>4. k + i \notin RecentTokens(a.ring) /\ k + i \notin ToSet(a.overflow)
  BY <1>2
<1>5. /\ RecentTokens(w) \cup ToSet(ev) = RecentTokens(a.ring) \cup {k + i}
      /\ RecentTokens(w) \cap ToSet(ev) = {}
      /\ Injective(w.slots, LiveSlots(w))
  BY <1>2, <1>4, WriteTokenTokens DEF Injective
<1>6. /\ ev \in Seq(Nat) /\ Injective(ev, DOMAIN ev)
      /\ ToSet(ev) \subseteq RecentTokens(a.ring)
  BY <1>2, <1>3, EvictedFacts
<1>7. RecentTokens(a.ring) \cap ToSet(a.overflow) = {}
      /\ Injective(a.overflow, DOMAIN a.overflow)
  BY DEF Turn
<1>8. /\ a.overflow \o ev \in Seq(Nat)
      /\ ToSet(a.overflow \o ev) = ToSet(a.overflow) \cup ToSet(ev)
      /\ Injective(a.overflow \o ev, DOMAIN (a.overflow \o ev))
  <2>1. ToSet(a.overflow) \cap ToSet(ev) = {}
    BY <1>6, <1>7
  <2>2. QED
    BY <1>2, <1>6, <1>7, <2>1, ConcatFacts
<1>9. RingOK(w)
  BY <1>2, WriteTokenOK
<1>10. RecentTokens(w) \cup ToSet(a.overflow \o ev)
         = RecentTokens(r) \cup (k .. k + (i + 1) - 1)
  <2>1. k .. k + (i + 1) - 1 = (k .. k + i - 1) \cup {k + i}
    OBVIOUS
  <2>2. QED
    BY <2>1, <1>2, <1>5, <1>8
<1>11. RecentTokens(w) \cap ToSet(a.overflow \o ev) = {}
  BY <1>4, <1>5, <1>6, <1>7, <1>8
<1>12. /\ w.count + Len(a.overflow \o ev) = r.count + (i + 1)
       /\ a.overflow \o ev # <<>> => w.count = Capacity
  <2>1. /\ a.ring.count \in 0 .. Capacity /\ Len(a.overflow) \in Nat
        /\ a.ring.count + Len(a.overflow) = r.count + i
        /\ a.overflow # <<>> => a.ring.count = Capacity
    BY <1>2 DEF Turn, RingOK, Ring
  <2>2. CASE IsFull(a.ring)
    <3>1. w.count = a.ring.count /\ Len(ev) = 1 /\ a.ring.count = Capacity
      BY <2>1, <2>2 DEF WriteToken, Evicted, IsFull
    <3> DEFINE n == Len(a.overflow \o ev)
               m == Len(a.overflow)
               c == w.count
    <3>2. n = m + 1
      <4> HIDE DEF ev
      <4>1. QED
        BY <1>2, <1>6, <3>1, ConcatLength
    <3>3. c \in Nat /\ m \in Nat /\ c + m = r.count + i
      BY <2>1, <3>1
    <3>4. c = Capacity
      BY <3>1
    <3> HIDE DEF n, m, c
    <3>5. c + n = r.count + (i + 1)
      BY ONLY <3>2, <3>3, i \in Nat, r.count \in Nat
    <3>6. QED
      BY <3>4, <3>5 DEF n, c
  <2>3. CASE ~ IsFull(a.ring)
    <3>1. w.count = a.ring.count + 1 /\ ev = <<>> /\ a.ring.count # Capacity
      BY <2>1, <2>3 DEF WriteToken, Evicted, IsFull
    <3>2. a.overflow = <<>> /\ a.overflow \o ev = <<>>
      BY <1>2, <2>1, <3>1
    <3>3. QED
      <4> HIDE DEF w, ev
      <4>1. QED
        BY <2>1, <3>1, <3>2, SMTT(30)
  <2>4. QED
    BY <2>2, <2>3
<1>13. Recency(w, IF i + 1 < Capacity THEN i + 1 ELSE Capacity, k + (i + 1))
  <2> DEFINE n == IF i < Capacity THEN i ELSE Capacity
             m == IF i + 1 < Capacity THEN i + 1 ELSE Capacity
  <2>1. n \in 0 .. Capacity /\ m \in 0 .. Capacity /\ m <= n + 1
    OBVIOUS
  <2>2. Recency(a.ring, n, k + i)
    BY DEF Turn
  <2> HIDE DEF n, m
  <2>3. Recency(w, m, (k + i) + 1)
    BY <1>2, <2>1, <2>2, WriteTokenRecency
  <2>4. (k + i) + 1 = k + (i + 1)
    OBVIOUS
  <2>5. QED
    BY <2>3, <2>4 DEF m
<1> HIDE DEF w, ev, b
<1>14. QED
  BY <1>1, <1>5, <1>8, <1>9, <1>10, <1>11, <1>12, <1>13 DEF Turn, b

\* write() as a whole: the loop runs over all the tokens, then the counter is
\* copied to the device.
LEMMA WriteFacts ==
    ASSUME NEW r, RingOK(r), Injective(r.slots, LiveSlots(r)),
           NEW k \in Nat, RecentTokens(r) \subseteq 0 .. k - 1,
           NEW tokens \in Seq(Nat),
           \A i \in 1 .. Len(tokens) : tokens[i] = k + i - 1
    PROVE  /\ Turn(r, k, Len(tokens), Write(r, tokens))
           /\ Write(r, tokens).ring.count_tensor = Write(r, tokens).ring.count
<1> DEFINE N == Len(tokens)
           S == [ring : Ring, overflow : Seq(Int)]
           a0 == [ring |-> r, overflow |-> <<>>]
           h == [x \in (1 .. N) \X S |-> AfterTurn(x[2], tokens[x[1]])]
           loop(f) == [i \in 0 .. N |->
                         IF i = 0 THEN a0
                         ELSE AfterTurn(f[i - 1], tokens[i])]
           turn == CHOOSE f : f = loop(f)
<1>1. N \in Nat /\ a0 \in S
  BY DEF RingOK
<1>2. ASSUME NEW a \in S, NEW j \in 1 .. N
      PROVE  AfterTurn(a, tokens[j]) \in S
  <2>1. a.ring \in Ring /\ a.overflow \in Seq(Int) /\ tokens[j] \in Nat
    OBVIOUS
  <2>2. WriteToken(a.ring, tokens[j]) \in Ring /\ Evicted(a.ring) \in Seq(Int)
    BY <2>1, WriteTokenType
  <2>3. a.overflow \o Evicted(a.ring) \in Seq(Int)
    BY <2>1, <2>2
  <2>4. QED
    BY <2>2, <2>3 DEF AfterTurn
<1>3. h \in [(1 .. N) \X S -> S]
  BY <1>2
<1>4. \E f : f = loop(f)
  <2> HIDE DEF S, N, h, a0
  <2>1. PICK f : Loop(f, N, S, a0, h)
    BY <1>1, <1>3, LoopExists
  <2>2. ASSUME NEW i \in 0 .. N, i # 0
        PROVE  h[<<i, f[i - 1]>>] = AfterTurn(f[i - 1], tokens[i])
    <3>1. i \in 1 .. N /\ f[i - 1] \in S
      BY <1>1, <2>1, <2>2 DEF Loop
    <3>2. QED
      BY <3>1 DEF h
  <2>3. f = loop(f)
    BY <2>1, <2>2 DEF Loop
  <2>4. QED
    BY <2>3
<1>5. turn = loop(turn)
  <2> HIDE DEF loop
  <2>1. QED
    BY <1>4
<1>6. Write(r, tokens) = [ring |-> SyncCounter(turn[N].ring),
                          overflow |-> turn[N].overflow]
  BY DEF Write, AfterTurn
<1> HIDE DEF turn
<1>7. turn[0] = a0 /\ \A i \in 1 .. N : turn[i] = AfterTurn(turn[i - 1], tokens[i])
  <2>1. \A i \in 0 .. N : turn[i] = IF i = 0 THEN a0
                                    ELSE AfterTurn(turn[i - 1], tokens[i])
    BY <1>5
  <2> HIDE DEF a0, N, loop
  <2>2. QED
    BY <1>1, <2>1
<1> DEFINE T == {i \in 0 .. N : Turn(r, k, i, turn[i])}
<1>8. 0 \in T
  BY <1>1, <1>7, FirstTurn
<1>9. ASSUME NEW i \in 0 .. N - 1, i \in T
      PROVE  i + 1 \in T
  <2>1. i + 1 \in 1 .. N /\ i \in Nat /\ (i + 1) - 1 = i
    BY <1>1
  <2>2. tokens[i + 1] = k + i
    BY <2>1
  <2>3. turn[i + 1] = AfterTurn(turn[i], k + i)
    BY <1>7, <2>1, <2>2
  <2>4. RecentTokens(r) \subseteq Nat /\ r.count \in Nat
    BY CapacityAssumption DEF RingOK, Ring
  <2>5. Turn(r, k, i + 1, turn[i + 1])
    BY <1>9, <2>1, <2>3, <2>4, NextTurn
  <2>6. QED
    BY <2>1, <2>5
<1>10. Turn(r, k, N, turn[N])
  <2> HIDE DEF T, N
  <2>1. \A i \in 0 .. N : i \in T
    BY <1>1, <1>8, <1>9, UpToInduction
  <2>2. QED
    BY <1>1, <2>1 DEF T
<1>11. QED
  <2> DEFINE d == turn[N]
  <2>1. RingOK(d.ring)
    BY <1>10 DEF Turn
  <2>2. /\ RingOK(SyncCounter(d.ring))
        /\ SyncCounter(d.ring).count_tensor = SyncCounter(d.ring).count
        /\ SyncCounter(d.ring).count = d.ring.count
        /\ SyncCounter(d.ring).slots = d.ring.slots
        /\ SyncCounter(d.ring).write_pos = d.ring.write_pos
        /\ LiveSlots(SyncCounter(d.ring)) = LiveSlots(d.ring)
        /\ RecentTokens(SyncCounter(d.ring)) = RecentTokens(d.ring)
    BY <2>1, SyncCounterFacts
  <2>3. Write(r, tokens).ring = SyncCounter(d.ring)
        /\ Write(r, tokens).overflow = d.overflow
    BY <1>6
  <2>4. Turn(r, k, N, d)
    BY <1>10
  <2> HIDE DEF d, N
  <2>5. Turn(r, k, N, Write(r, tokens))
    BY <2>2, <2>3, <2>4 DEF Turn, Recency
  <2>6. QED
    BY <2>2, <2>3, <2>5 DEF N

-----------------------------------------------------------------------------
(* The calls of the engine.                                                *)

\* An engine attends to what the store and the ring hold, each token once.
LEMMA AttendedFacts ==
    ASSUME NEW k \in Nat, NEW e, EngineOK(e, k)
    PROVE  /\ Attended(e) = StoredTokens(e.store) \cup RecentTokens(e.ring)
           /\ Attended(e) \subseteq 0 .. k - 1
           /\ Cardinality(Attended(e)) = Size(e)
           /\ e.ring.count \in 0 .. Capacity
           /\ e.store.num_stored \in 0 .. MaxTokens
           /\ HasData(e) => Attended(e) # {}
<1> USE CapacityAssumption, MaxTokensAssumption
<1>1. /\ RingOK(e.ring) /\ e.ring \in Ring /\ e.store \in Store
      /\ e.ring.count \in 0 .. Capacity
      /\ e.store.num_stored \in 0 .. MaxTokens
  BY DEF EngineOK, RingOK, Ring, Store
<1>2. Attended(e) = StoredTokens(e.store) \cup RecentTokens(e.ring)
  <2>1. KernelSlots(e.ring) = LiveSlots(e.ring)
    BY DEF EngineOK, KernelSlots, LiveSlots
  <2>2. QED
    BY <2>1 DEF Attended, RecentTokens
<1>3. Attended(e) \subseteq 0 .. k - 1
  BY <1>2 DEF EngineOK
<1> DEFINE S == StoredTokens(e.store)
           R == RecentTokens(e.ring)
<1>4. Cardinality(S) = e.store.num_stored
  BY <1>1, StoredCount DEF EngineOK
<1>5. Cardinality(R) = e.ring.count
  <2>1. LiveSlots(e.ring) = 0 .. e.ring.count - 1
    BY <1>1 DEF LiveSlots, Slot
  <2>2. 0 \in Int /\ e.ring.count - 1 \in Int
    BY <1>1
  <2>3. IsFiniteSet(LiveSlots(e.ring))
        /\ Cardinality(LiveSlots(e.ring)) = e.ring.count
    <3> DEFINE m == e.ring.count - 1
    <3>1. m \in Int /\ LiveSlots(e.ring) = 0 .. m
      BY <2>1, <2>2
    <3>2. (IF 0 > m THEN 0 ELSE m - 0 + 1) = e.ring.count
      BY <1>1
    <3> HIDE DEF m
    <3>3. IsFiniteSet(0 .. m)
          /\ Cardinality(0 .. m) = IF 0 > m THEN 0 ELSE m - 0 + 1
      BY <3>1, FS_Interval
    <3>4. QED
      BY <3>1, <3>2, <3>3
  <2>4. QED
    BY <2>3, InjectiveCount DEF RecentTokens, EngineOK
<1>6. IsFiniteSet(S) /\ IsFiniteSet(R) /\ S \cap R = {}
  <2>1. 0 \in Int /\ k - 1 \in Int
    OBVIOUS
  <2>2. IsFiniteSet(0 .. k - 1)
    <3> DEFINE m == k - 1
    <3>1. m \in Int
      OBVIOUS
    <3> HIDE DEF m
    <3>2. IsFiniteSet(0 .. m)
      BY <3>1, FS_Interval
    <3>3. QED
      BY <3>2 DEF m
  <2>3. S \in SUBSET (0 .. k - 1) /\ R \in SUBSET (0 .. k - 1)
    BY DEF EngineOK
  <2>4. QED
    BY <2>2, <2>3, FS_Subset DEF EngineOK
<1>7. Cardinality(S \cup R) = Size(e)
  <2>1. Cardinality(S \cup R)
          = Cardinality(S) + Cardinality(R) - Cardinality(S \cap R)
    BY <1>6, FS_Union
  <2>2. Cardinality(S \cap R) = 0
    BY <1>6, FS_EmptySet
  <2> HIDE DEF S, R
  <2>3. QED
    BY <1>1, <1>4, <1>5, <2>1, <2>2 DEF Size
<1>8. HasData(e) => S \cup R # {}
  <2>1. CASE e.ring.count > 0
    <3>1. 0 \in LiveSlots(e.ring)
      BY <1>1, <2>1 DEF LiveSlots, Slot
    <3>2. QED
      BY <3>1 DEF RecentTokens
  <2>2. CASE e.store.num_stored > 0
    <3>1. 0 \in EagerView(e.store)
      BY <1>1, <2>2 DEF EagerView, Position
    <3>2. QED
      BY <3>1 DEF StoredTokens
  <2>3. QED
    BY <2>1, <2>2 DEF HasData
<1>9. QED
  BY <1>1, <1>2, <1>3, <1>7, <1>8

LEMMA EmptyEngineOK ==
    ASSUME NEW k \in Nat
    PROVE  /\ EngineOK(EmptyEngine, k)
           /\ Attended(EmptyEngine) = {}
           /\ EmptyEngine.ring.count = 0 /\ EmptyEngine.store.num_stored = 0
<1>1. EmptyEngine.ring = EmptyRing /\ EmptyEngine.store = EmptyStore
      /\ EmptyEngine \in [ring : Ring, store : Store]
  BY EmptyRingFacts, EmptyStoreFacts DEF EmptyEngine, RingOK
<1>2. Injective(EmptyRing.slots, LiveSlots(EmptyRing))
      /\ Injective(EmptyStore.buf, EagerView(EmptyStore))
  BY EmptyRingFacts, EmptyStoreFacts DEF Injective
<1>3. EngineOK(EmptyEngine, k)
  BY <1>1, <1>2, EmptyRingFacts, EmptyStoreFacts DEF EngineOK
<1>4. QED
  BY <1>1, <1>3, AttendedFacts, EmptyRingFacts, EmptyStoreFacts DEF EmptyStore

\* Tokens that have not arrived yet do not matter.
LEMMA EngineOKLater ==
    ASSUME NEW k \in Nat, NEW m \in Nat, k <= m, NEW e, EngineOK(e, k)
    PROVE  EngineOK(e, m)
<1>1. 0 .. k - 1 \subseteq 0 .. m - 1
  OBVIOUS
<1>2. QED
  BY <1>1 DEF EngineOK

\* append_chunk(): the chunk is stored whole, or it does not fit.
LEMMA AppendFacts ==
    ASSUME NEW s \in Store, s.n_tensor = s.num_stored,
           Injective(s.buf, EagerView(s)),
           NEW chunk \in Seq(Nat), Injective(chunk, DOMAIN chunk),
           StoredTokens(s) \cap ToSet(chunk) = {},
           NEW t, t = AppendChunk(s, chunk)
    PROVE  /\ t \in Store /\ t.n_tensor = t.num_stored
           /\ Injective(t.buf, EagerView(t))
           /\ StoredTokens(t) \subseteq StoredTokens(s) \cup ToSet(chunk)
           /\ Fits(s, chunk) =>
                /\ StoredTokens(t) = StoredTokens(s) \cup ToSet(chunk)
                /\ t.num_stored = s.num_stored + Len(chunk)
<1>1. t \in Store /\ t.n_tensor = t.num_stored
  BY AppendChunkType
<1>2. CASE Fits(s, chunk)
  <2>1. StoredTokens(t) = StoredTokens(s) \cup ToSet(chunk)
    BY <1>2, AppendChunkTokens
  <2>2. Injective(t.buf, EagerView(t))
    BY <1>2, AppendChunkTokens DEF Injective
  <2>3. t.num_stored = s.num_stored + Len(chunk)
    BY <1>2 DEF AppendChunk
  <2>4. QED
    BY <1>1, <2>1, <2>2, <2>3
<1>3. CASE ~ Fits(s, chunk)
  <2>1. t = s
    BY <1>3 DEF AppendChunk
  <2>2. QED
    BY <1>1, <1>3, <2>1
<1>4. QED
  BY <1>2, <1>3

\* Tokens that arrive one after the other, from k on.
Consecutive(tokens, k) ==
    /\ tokens \in Seq(Nat)
    /\ \A i \in 1 .. Len(tokens) : tokens[i] = k + i - 1

LEMMA ConsecutiveFacts ==
    ASSUME NEW k \in Nat, NEW tokens, Consecutive(tokens, k)
    PROVE  /\ ToSet(tokens) = k .. k + Len(tokens) - 1
           /\ Injective(tokens, DOMAIN tokens)
<1>1. Len(tokens) \in Nat /\ DOMAIN tokens = 1 .. Len(tokens)
      /\ \A i \in 1 .. Len(tokens) : tokens[i] = k + i - 1
  BY DEF Consecutive
<1> DEFINE n == Len(tokens)
<1>2. \A x \in k .. k + n - 1 : x - k + 1 \in 1 .. n /\ x = k + (x - k + 1) - 1
  BY <1>1
<1>3. ToSet(tokens) = k .. k + n - 1
  <2>1. \A i \in 1 .. n : tokens[i] \in k .. k + n - 1
    BY <1>1
  <2> HIDE DEF n
  <2>2. ToSet(tokens) \subseteq k .. k + n - 1
    BY <1>1, <2>1 DEF ToSet, n
  <2>3. ASSUME NEW x \in k .. k + n - 1
        PROVE  x \in ToSet(tokens)
    <3>1. x - k + 1 \in 1 .. n /\ tokens[x - k + 1] = x
      BY <1>1, <1>2 DEF n
    <3>2. QED
      BY <1>1, <3>1 DEF ToSet, n
  <2>4. QED
    BY <2>2, <2>3
<1>4. QED
  BY <1>1, <1>3 DEF Injective

LEMMA SubSeqConsecutive ==
    ASSUME NEW k \in Nat, NEW tokens, Consecutive(tokens, k),
           NEW i \in 1 .. Len(tokens), NEW j \in 1 .. Len(tokens), i <= j
    PROVE  /\ Consecutive(SubSeq(tokens, i, j), k + i - 1)
           /\ Len(SubSeq(tokens, i, j)) = j - i + 1
<1> DEFINE s == SubSeq(tokens, i, j)
<1>1. tokens \in Seq(Nat) /\ Len(tokens) \in Nat
  BY DEF Consecutive
<1>2. s \in Seq(Nat) /\ Len(s) = j - i + 1
  BY <1>1
<1>3. \A x \in 1 .. j - i + 1 :
         s[x] = tokens[i + x - 1] /\ i + x - 1 \in 1 .. Len(tokens)
  BY <1>1, SMTT(30)
<1>4. ASSUME NEW x \in 1 .. j - i + 1
      PROVE  s[x] = (k + i - 1) + x - 1
  <2>1. s[x] = k + (i + x - 1) - 1
    BY <1>3 DEF Consecutive
  <2>2. QED
    BY <2>1
<1> HIDE DEF s
<1>5. QED
  BY <1>2, <1>4 DEF Consecutive, s

\* After a write the last tokens, as many as the ring has slots, are in it.
LEMMA RecencyTokens ==
    ASSUME NEW r, RingOK(r), NEW k \in Nat, NEW n \in 0 .. Capacity,
           n <= r.count, Recency(r, n, k), n <= k
    PROVE  k - n .. k - 1 \subseteq RecentTokens(r)
<1> USE CapacityAssumption
<1>1. r.write_pos \in Nat /\ r.count \in 0 .. Capacity
  BY DEF RingOK, Ring
<1>2. ASSUME NEW x \in k - n .. k - 1
      PROVE  x \in RecentTokens(r)
  <2> DEFINE j == k - x
  <2>1. j \in 1 .. n /\ x = k - j
    OBVIOUS
  <2>2. r.slots[(r.write_pos - j) % Capacity] = x
    BY <2>1 DEF Recency
  <2>3. (r.write_pos - j) % Capacity \in LiveSlots(r)
    <3>1. r.write_pos - j \in Int
      BY <1>1, <2>1
    <3>2. (r.write_pos - j) % Capacity \in Slot
      BY <3>1, Division DEF Slot
    <3>3. CASE r.count = Capacity
      BY <3>2, <3>3 DEF LiveSlots, Slot
    <3>4. CASE r.count < Capacity
      <4>1. r.write_pos = r.count
        BY <3>4, <1>1 DEF RingOK
      <4>2. r.write_pos - j \in 0 .. Capacity - 1 /\ r.write_pos - j < r.count
        BY <4>1, <3>4, <2>1, <1>1
      <4>3. (r.write_pos - j) % Capacity = r.write_pos - j
        BY <4>2, SlotOf, r.write_pos - j = (r.write_pos - j) + Capacity * 0
      <4>4. QED
        BY <3>2, <4>2, <4>3 DEF LiveSlots
    <3>5. QED
      BY <1>1, <3>3, <3>4
  <2>4. QED
    BY <2>2, <2>3 DEF RecentTokens
<1>3. QED
  BY <1>2

\* ingest_decode(): new tokens are attended to if the ring holds that many or
\* all that the engine has fits, in which case nothing is lost.
LEMMA IngestDecodeFacts ==
    ASSUME NEW k \in Nat, NEW e, EngineOK(e, k),
           NEW tokens, Consecutive(tokens, k), tokens # <<>>,
           NEW d, d = IngestDecode(e, tokens)
    PROVE  LET new == k .. k + Len(tokens) - 1
           IN  /\ EngineOK(d, k + Len(tokens))
               /\ HasData(d)
               /\ Attended(d) \subseteq Attended(e) \cup new
               /\ Len(tokens) <= Capacity => new \subseteq Attended(d)
               /\ Size(e) + Len(tokens) <= MaxTokens + Capacity =>
                    /\ Attended(d) = Attended(e) \cup new
                    /\ Size(d) = Size(e) + Len(tokens)
<1> DEFINE n == Len(tokens)
           new == k .. k + n - 1
           w == Write(e.ring, tokens)
           R == RecentTokens(e.ring)
           S == StoredTokens(e.store)
<1> USE CapacityAssumption, MaxTokensAssumption
<1>1. n \in Nat \ {0}
  BY DEF Consecutive
<1>2. /\ RingOK(e.ring) /\ e.store \in Store
      /\ e.store.n_tensor = e.store.num_stored
      /\ Injective(e.ring.slots, LiveSlots(e.ring))
      /\ Injective(e.store.buf, EagerView(e.store))
      /\ R \subseteq 0 .. k - 1 /\ S \subseteq 0 .. k - 1 /\ S \cap R = {}
  BY DEF EngineOK
<1>3. d.ring = w.ring /\ d.store = AppendChunk(e.store, w.overflow)
      /\ d = [ring |-> d.ring, store |-> d.store]
  BY DEF IngestDecode
<1>4. Turn(e.ring, k, n, w) /\ w.ring.count_tensor = w.ring.count
  BY <1>2, WriteFacts DEF Consecutive
<1> HIDE DEF w
<1>5. /\ RingOK(w.ring) /\ w.overflow \in Seq(Nat)
      /\ Injective(w.ring.slots, LiveSlots(w.ring))
      /\ Injective(w.overflow, DOMAIN w.overflow)
      /\ RecentTokens(w.ring) \cup ToSet(w.overflow) = R \cup new
      /\ RecentTokens(w.ring) \cap ToSet(w.overflow) = {}
      /\ w.ring.count + Len(w.overflow) = e.ring.count + n
      /\ w.overflow # <<>> => w.ring.count = Capacity
      /\ Recency(w.ring, IF n < Capacity THEN n ELSE Capacity, k + n)
  BY <1>4 DEF Turn
<1>6. /\ e.ring.count \in 0 .. Capacity /\ w.ring.count \in 0 .. Capacity
      /\ Len(w.overflow) \in Nat /\ e.store.num_stored \in 0 .. MaxTokens
  BY <1>2, <1>5 DEF RingOK, Ring, Store
<1> DEFINE c == w.ring.count
           c0 == e.ring.count
           m == Len(w.overflow)
           q == e.store.num_stored
<1>counts. /\ c0 \in 0 .. Capacity /\ c \in 0 .. Capacity
           /\ m \in Nat /\ q \in 0 .. MaxTokens /\ c + m = c0 + n
           /\ w.overflow # <<>> => c = Capacity
  BY <1>5, <1>6
<1>7. /\ new \subseteq 0 .. k + n - 1 /\ 0 .. k - 1 \subseteq 0 .. k + n - 1
      /\ new \cap (0 .. k - 1) = {}
  BY <1>1
<1> HIDE DEF n, new, R, S
<1>8. S \cap ToSet(w.overflow) = {} /\ S \cap RecentTokens(w.ring) = {}
  BY <1>2, <1>5, <1>7
<1>9. /\ d.store \in Store /\ d.store.n_tensor = d.store.num_stored
      /\ Injective(d.store.buf, EagerView(d.store))
      /\ StoredTokens(d.store) \subseteq S \cup ToSet(w.overflow)
      /\ Fits(e.store, w.overflow) =>
           /\ StoredTokens(d.store) = S \cup ToSet(w.overflow)
           /\ d.store.num_stored = e.store.num_stored + Len(w.overflow)
  BY <1>2, <1>3, <1>5, <1>8, AppendFacts DEF S
<1>10. EngineOK(d, k + n)
  <2>1. StoredTokens(d.store) \cap RecentTokens(d.ring) = {}
    BY <1>3, <1>5, <1>8, <1>9
  <2>2. StoredTokens(d.store) \cup RecentTokens(d.ring) \subseteq 0 .. k + n - 1
    BY <1>2, <1>3, <1>5, <1>7, <1>9
  <2>3. d \in [ring : Ring, store : Store]
    BY <1>3, <1>5, <1>9 DEF RingOK
  <2>4. RingOK(d.ring) /\ d.ring.count_tensor = d.ring.count
        /\ Injective(d.ring.slots, LiveSlots(d.ring))
    BY <1>3, <1>4, <1>5
  <2>5. d.store.n_tensor = d.store.num_stored
        /\ Injective(d.store.buf, EagerView(d.store))
        /\ k + n - 1 = (k + n) - 1
    BY <1>1, <1>9
  <2>6. QED
    BY <2>1, <2>2, <2>3, <2>4, <2>5 DEF EngineOK
<1>11. /\ Attended(d) = StoredTokens(d.store) \cup RecentTokens(w.ring)
       /\ Attended(e) = S \cup R
  <2>1. k + n \in Nat
    BY <1>1
  <2>2. QED
    BY <1>3, <1>10, <2>1, AttendedFacts DEF R, S
<1>12. Attended(d) \subseteq Attended(e) \cup new
  BY <1>5, <1>9, <1>11
<1>13. w.ring.count > 0
  <2>1. CASE w.overflow = <<>>
    <3>1. Len(w.overflow) = 0
      BY <2>1
    <3>2. QED
      BY <3>1, <1>1, <1>5, <1>6, SMTT(30)
  <2>2. QED
    BY <2>1, <1>5
<1>14. ASSUME n <= Capacity
       PROVE  new \subseteq Attended(d)
  <2>1. (IF n < Capacity THEN n ELSE Capacity) = n
    BY <1>1, <1>14
  <2>2. Recency(w.ring, n, k + n)
    BY <1>5, <2>1
  <2>3. n <= w.ring.count
    <3>1. CASE w.overflow = <<>>
      <4>1. Len(w.overflow) = 0
        BY <3>1
      <4>2. QED
        BY <4>1, <1>1, <1>5, <1>6, SMTT(30)
    <3>2. QED
      BY <3>1, <1>5, <1>14
  <2>4. (k + n) - n .. (k + n) - 1 \subseteq RecentTokens(w.ring)
    BY <1>1, <1>5, <1>14, <2>2, <2>3, RecencyTokens
  <2>5. (k + n) - n .. (k + n) - 1 = new
    BY <1>1 DEF new
  <2>6. QED
    BY <1>11, <2>4, <2>5
<1>15. ASSUME Size(e) + n <= MaxTokens + Capacity
       PROVE  Attended(d) = Attended(e) \cup new /\ Size(d) = Size(e) + n
  <2>1. Fits(e.store, w.overflow)
    <3>1. CASE w.overflow = <<>>
      <4>1. Len(w.overflow) = 0
        BY <3>1
      <4>2. QED
        BY <4>1, <1>6 DEF Fits
    <3>2. CASE w.overflow # <<>>
      <4>1. Size(e) = q + c0
        BY DEF Size
      <4> HIDE DEF c, c0, m, q
      <4>2. q + m <= MaxTokens
        BY <4>1, <1>1, <1>counts, <1>15, <3>2
      <4>3. QED
        BY <4>2 DEF Fits, q, m
    <3>3. QED
      BY <3>1, <3>2
  <2>2. StoredTokens(d.store) = S \cup ToSet(w.overflow)
        /\ d.store.num_stored = e.store.num_stored + Len(w.overflow)
    BY <1>9, <2>1
  <2>3. Attended(d) = Attended(e) \cup new
    BY <1>5, <1>11, <2>2
  <2>4. Size(d) = Size(e) + n
    <3>1. Size(e) = q + c0 /\ Size(d) = (q + m) + c
      BY <1>3, <2>2 DEF Size
    <3> HIDE DEF c, c0, m, q
    <3>2. (q + m) + c = (q + c0) + n
      BY <1>1, <1>counts
    <3>3. QED
      BY <3>1, <3>2
  <2>5. QED
    BY <2>3, <2>4
<1>16. QED
  BY <1>3, <1>10, <1>12, <1>13, <1>14, <1>15 DEF n, new, HasData

\* ingest_prefill() with the tokens from k to j - 1 for the store, which may
\* not fit, and the tail, from j on, for the ring.
InTwoParts(e, p, k, j, tail) ==
    /\ p = [ring |-> Write(e.ring, tail).ring, store |-> p.store]
    /\ p.store \in Store
    /\ p.store.n_tensor = p.store.num_stored
    /\ Injective(p.store.buf, EagerView(p.store))
    /\ StoredTokens(p.store) \subseteq StoredTokens(e.store) \cup (k .. j - 1)
    /\ j >= k
    /\ Consecutive(tail, j)
    /\ tail # <<>>

\* What becomes of the engine, n being the number of tokens in the ring buffer.
PrefillOutcome(e, p, k, j, n) ==
    LET new == k .. j + n - 1
    IN  /\ EngineOK(p, j + n)
        /\ HasData(p)
        /\ Attended(p) \subseteq Attended(e) \cup new
        /\ Size(e) = 0 /\ n <= Capacity /\ StoredTokens(p.store) = k .. j - 1
             => /\ Attended(p) = new
                /\ Size(p) = p.store.num_stored + n

LEMMA PrefillParts ==
    ASSUME NEW k \in Nat, NEW e, EngineOK(e, k), NEW j \in Nat, NEW tail,
           NEW p, InTwoParts(e, p, k, j, tail)
    PROVE  PrefillOutcome(e, p, k, j, Len(tail))
<1> DEFINE w == Write(e.ring, tail)
           t == p.store
           n == Len(tail)
           new == k .. j + n - 1
           head == k .. j - 1
           m == t.num_stored
<1>0. /\ t \in Store /\ t.n_tensor = t.num_stored
      /\ Injective(t.buf, EagerView(t))
      /\ StoredTokens(t) \subseteq StoredTokens(e.store) \cup head
      /\ p = [ring |-> w.ring, store |-> t] /\ tail # <<>>
      /\ w = Write(e.ring, tail) /\ p.ring = w.ring
  BY DEF InTwoParts
<1> HIDE DEF t, w
<1> DEFINE R == RecentTokens(e.ring)
           S == StoredTokens(e.store)
           c == w.ring.count
           c0 == e.ring.count
           v == Len(w.overflow)
<1> USE CapacityAssumption, MaxTokensAssumption
<1>1. n \in Nat \ {0} /\ j \in Nat /\ j >= k
  BY DEF Consecutive, InTwoParts
<1>2. /\ RingOK(e.ring) /\ Injective(e.ring.slots, LiveSlots(e.ring))
      /\ R \subseteq 0 .. k - 1 /\ S \subseteq 0 .. k - 1 /\ S \cap R = {}
  BY DEF EngineOK
<1>3. R \subseteq 0 .. j - 1
  BY <1>1, <1>2
<1>4. Turn(e.ring, j, n, w) /\ w.ring.count_tensor = w.ring.count
  <2>1. tail \in Seq(Nat) /\ \A i \in 1 .. Len(tail) : tail[i] = j + i - 1
    BY DEF Consecutive, InTwoParts
  <2> HIDE DEF R
  <2>2. RecentTokens(e.ring) \subseteq 0 .. j - 1
    BY <1>3 DEF R
  <2>3. QED
    BY ONLY <1>0, <1>1, <1>2, <2>1, <2>2, WriteFacts
<1>5. /\ RingOK(w.ring) /\ w.overflow \in Seq(Nat)
      /\ Injective(w.ring.slots, LiveSlots(w.ring))
      /\ RecentTokens(w.ring) \cup ToSet(w.overflow) = R \cup (j .. j + n - 1)
      /\ c + v = c0 + n
      /\ w.overflow # <<>> => c = Capacity
  BY <1>4 DEF Turn
<1>6. /\ c0 \in 0 .. Capacity /\ c \in 0 .. Capacity /\ v \in Nat
      /\ e.store.num_stored \in 0 .. MaxTokens
      /\ m \in 0 .. MaxTokens
  BY <1>0, <1>2, <1>5, SMTT(30) DEF RingOK, Ring, Store, EngineOK
<1> HIDE DEF R, S, c, c0, v, m, n, new, head
<1>7. /\ (j .. j + n - 1) \subseteq 0 .. (j + n) - 1
      /\ 0 .. k - 1 \subseteq 0 .. (j + n) - 1
      /\ head \subseteq 0 .. (j + n) - 1
      /\ (j .. j + n - 1) \cap (0 .. k - 1) = {}
      /\ head \cap (0 .. k - 1) = {}
      /\ head \cap (j .. j + n - 1) = {}
      /\ head \cup (j .. j + n - 1) = new
  BY <1>1 DEF head, new
<1>8. /\ p.ring = w.ring /\ p.store = t
      /\ p \in [ring : Ring, store : Store]
  BY <1>0, <1>5 DEF RingOK, t, InTwoParts
<1>9. StoredTokens(t) \cap RecentTokens(w.ring) = {}
  BY <1>0, <1>2, <1>5, <1>7 DEF S
<1>10. EngineOK(p, j + n)
  <2>1. StoredTokens(t) \cup RecentTokens(w.ring) \subseteq 0 .. (j + n) - 1
    BY <1>0, <1>2, <1>5, <1>7 DEF S
  <2>2. 0 .. (j + n) - 1 = 0 .. j + n - 1
    BY <1>1
  <2>3. QED
    BY <1>0, <1>4, <1>5, <1>8, <1>9, <2>1, <2>2 DEF EngineOK
<1>11. Attended(p) = StoredTokens(t) \cup RecentTokens(w.ring)
       /\ Attended(e) = S \cup R
  <2>1. j + n \in Nat
    BY <1>1
  <2>2. QED
    BY <1>8, <1>10, <2>1, AttendedFacts DEF R, S
<1>12. c > 0
  <2>1. CASE w.overflow = <<>>
    <3>1. v = 0
      BY <2>1 DEF v
    <3>2. QED
      BY <3>1, <1>1, <1>5, <1>6
  <2>2. QED
    BY <2>1, <1>5
<1>13. ASSUME Size(e) = 0, n <= Capacity,
              StoredTokens(t) = head
       PROVE  Attended(p) = new /\ Size(p) = m + n
  <2>1. c0 = 0
    <3>1. e.store.num_stored + c0 = 0
      BY <1>13 DEF Size, c0
    <3>2. QED
      BY <1>6, <3>1
  <2>2. v = 0
    <3>1. CASE w.overflow = <<>>
      BY <3>1 DEF v
    <3>2. CASE w.overflow # <<>>
      BY <3>2, <1>1, <1>5, <1>6, <1>13, <2>1
    <3>3. QED
      BY <3>1, <3>2
  <2>3. w.overflow = <<>> /\ ToSet(w.overflow) = {}
    BY <1>5, <2>2 DEF v, ToSet
  <2>4. R = {}
    <3>1. LiveSlots(e.ring) = {}
      BY <2>1 DEF LiveSlots, Slot, c0
    <3>2. QED
      BY <3>1 DEF R, RecentTokens
  <2>5. RecentTokens(w.ring) = j .. j + n - 1
    BY <1>5, <2>3, <2>4
  <2>6. Attended(p) = new
    BY <1>7, <1>11, <1>13, <2>5
  <2>7. Size(p) = m + c
    BY <1>8 DEF Size, c, m
  <2>8. Size(p) = m + n
    BY <1>1, <1>5, <1>6, <2>1, <2>2, <2>7
  <2>9. QED
    BY <2>6, <2>8
<1>14. Attended(p) \subseteq Attended(e) \cup new
  BY <1>0, <1>5, <1>7, <1>11 DEF S
<1>15. HasData(p)
  BY <1>8, <1>12 DEF HasData, c
<1>16. QED
  BY <1>10, <1>13, <1>14, <1>15 DEF n, new, head, m, t, PrefillOutcome

\* ingest_prefill(): an empty engine then holds the tokens and nothing else.
LEMMA IngestPrefillFacts ==
    ASSUME NEW k \in Nat, NEW e, EngineOK(e, k),
           NEW tokens, Consecutive(tokens, k), tokens # <<>>,
           NEW p, p = IngestPrefill(e, tokens)
    PROVE  LET new == k .. k + Len(tokens) - 1
           IN  /\ EngineOK(p, k + Len(tokens))
               /\ HasData(p)
               /\ Attended(p) \subseteq Attended(e) \cup new
               /\ Size(e) = 0 /\ Len(tokens) <= MaxTokens + Capacity =>
                    Attended(p) = new /\ Size(p) = Len(tokens)
<1> DEFINE N == Len(tokens)
           n == N - Capacity
<1> USE CapacityAssumption, MaxTokensAssumption
<1>1. /\ N \in Nat \ {0} /\ n \in Int /\ tokens \in Seq(Nat)
      /\ \A i \in 1 .. N : tokens[i] = k + i - 1
  BY DEF Consecutive
<1>2. /\ e \in [ring : Ring, store : Store]
      /\ e.store \in Store /\ e.store.n_tensor = e.store.num_stored
      /\ Injective(e.store.buf, EagerView(e.store))
      /\ StoredTokens(e.store) \subseteq 0 .. k - 1
      /\ e.ring \in Ring
  BY DEF EngineOK
<1>3. Size(e) = 0 => e.store.num_stored = 0 /\ StoredTokens(e.store) = {}
  <2>1. SUFFICES ASSUME Size(e) = 0
                 PROVE  e.store.num_stored = 0 /\ StoredTokens(e.store) = {}
    OBVIOUS
  <2>2. e.store.num_stored \in Nat /\ e.ring.count \in Nat
    BY <1>2 DEF Ring, Store
  <2>3. e.store.num_stored = 0
    BY <2>1, <2>2 DEF Size
  <2>4. EagerView(e.store) = {}
    BY <2>3 DEF EagerView, Position
  <2>5. QED
    BY <2>3, <2>4 DEF StoredTokens
<1>4. CASE n <= 0
  <2> DEFINE w == Write(e.ring, tokens)
  <2>1. p = [ring |-> w.ring, store |-> e.store]
    <3>1. p = [e EXCEPT !.ring = w.ring]
      BY <1>4 DEF IngestPrefill
    <3> HIDE DEF w
    <3>2. QED
      BY <1>2, <3>1
  <2> DEFINE new == k .. k + N - 1
  <2>2. k .. k - 1 = {} /\ N <= Capacity
    BY <1>1, <1>4
  <2>3. InTwoParts(e, p, k, k, tokens)
    <3> HIDE DEF w
    <3>1. p.ring = w.ring /\ p.store = e.store
      BY <2>1
    <3>2. QED
      BY <1>2, <2>1, <3>1 DEF InTwoParts, w
  <2>4. /\ EngineOK(p, k + N) /\ HasData(p)
        /\ Attended(p) \subseteq Attended(e) \cup new
        /\ Size(e) = 0 /\ N <= Capacity /\ StoredTokens(p.store) = k .. k - 1
           => Attended(p) = new /\ Size(p) = p.store.num_stored + N
    <3> HIDE DEF w
    <3>1. PrefillOutcome(e, p, k, k, N)
      BY <2>3, PrefillParts
    <3>2. QED
      BY <3>1 DEF PrefillOutcome
  <2>5. Size(e) = 0 => StoredTokens(p.store) = k .. k - 1
                       /\ p.store.num_stored + N = N
    <3>1. p.store = e.store
      BY <2>1
    <3>2. 0 + N = N
      BY <1>1
    <3> HIDE DEF w, N
    <3>3. QED
      BY ONLY <1>3, <2>2, <3>1, <3>2
  <2>6. QED
    BY <2>2, <2>4, <2>5
<1>5. CASE n > 0
  <2> DEFINE head == SubSeq(tokens, 1, n)
             tail == SubSeq(tokens, n + 1, N)
             w == Write(e.ring, tail)
             t == AppendChunk(e.store, head)
             j == k + n
             old == k .. j - 1
             c == Len(tail)
             new == k .. j + c - 1
  <2>1. p = [ring |-> w.ring, store |-> t]
    BY <1>5 DEF IngestPrefill
  <2>2. /\ n \in Nat /\ n <= N /\ N = n + Capacity /\ j + Capacity = k + N
    BY <1>1, <1>5
  <2>3. Consecutive(head, k) /\ Len(head) = n
    <3>1. 1 \in 1 .. N /\ n \in 1 .. N /\ 1 <= n /\ k + 1 - 1 = k /\ n - 1 + 1 = n
      BY <1>1, <1>5, <2>2
    <3> HIDE DEF n
    <3>2. /\ Consecutive(SubSeq(tokens, 1, n), k + 1 - 1)
          /\ Len(SubSeq(tokens, 1, n)) = n - 1 + 1
      BY <3>1, SubSeqConsecutive
    <3>3. QED
      BY <3>1, <3>2
  <2>4. Consecutive(tail, j) /\ c = Capacity
    <3>1. n + 1 \in 1 .. N /\ k + (n + 1) - 1 = j /\ N - (n + 1) + 1 = Capacity
      BY <2>2
    <3> HIDE DEF n, j
    <3>2. QED
      BY <1>1, <3>1, SubSeqConsecutive
  <2>5. new = k .. k + N - 1
    BY <1>1, <2>2, <2>4
  <2>6. tail # <<>> /\ w = Write(e.ring, tail) /\ j = k + n
        /\ old = k .. j - 1 /\ c = Len(tail) /\ new = k .. j + c - 1
    BY <2>4
  <2>7. ToSet(head) = old /\ Injective(head, DOMAIN head)
    <3>1. old = k .. k + n - 1
      BY <2>2
    <3> HIDE DEF head, old, n
    <3>2. QED
      BY <2>3, <3>1, ConsecutiveFacts
  <2>8. old \cap (0 .. k - 1) = {}
    OBVIOUS
  <2> HIDE DEF head, tail, w, t, n, N, j, old, c, new
  <2>9. StoredTokens(e.store) \cap ToSet(head) = {}
    BY <1>2, <2>7, <2>8
  <2>10. /\ t \in Store /\ t.n_tensor = t.num_stored
         /\ Injective(t.buf, EagerView(t))
         /\ StoredTokens(t) \subseteq StoredTokens(e.store) \cup old
         /\ Fits(e.store, head) =>
              /\ StoredTokens(t) = StoredTokens(e.store) \cup old
              /\ t.num_stored = e.store.num_stored + n
    BY <1>2, <2>3, <2>7, <2>9, AppendFacts DEF t, Consecutive
  <2>11. /\ EngineOK(p, j + c) /\ HasData(p)
         /\ Attended(p) \subseteq Attended(e) \cup new
         /\ Size(e) = 0 /\ c <= Capacity /\ StoredTokens(p.store) = old
            => Attended(p) = new /\ Size(p) = p.store.num_stored + c
    <3>1. p.store = t /\ p = [ring |-> w.ring, store |-> p.store]
      BY <2>1
    <3>2. j \in Nat /\ j >= k
      BY <2>2 DEF j
    <3>3. InTwoParts(e, p, k, j, tail)
      BY <2>4, <2>6, <2>10, <3>1, <3>2 DEF InTwoParts
    <3>4. PrefillOutcome(e, p, k, j, c)
      BY <3>2, <3>3, PrefillParts DEF c
    <3>5. QED
      BY <3>4 DEF PrefillOutcome, new, old
  <2>12. ASSUME Size(e) = 0, N <= MaxTokens + Capacity
         PROVE  StoredTokens(t) = old /\ t.num_stored = n
    <3>1. Fits(e.store, head)
      BY <1>3, <2>2, <2>3, <2>12 DEF Fits
    <3>2. t.num_stored = 0 + n /\ StoredTokens(t) = {} \cup old
      BY <1>3, <2>10, <2>12, <3>1
    <3>3. QED
      BY <2>2, <3>2
  <2>13. QED
    <3>1. c <= Capacity /\ j + c = k + N /\ n + c = N
      BY <2>2, <2>4
    <3>2. p.store = t
      BY <2>1
    <3>3. QED
      BY <2>5, <2>11, <2>12, <3>1, <3>2 DEF N
<1>6. QED
  BY <1>1, <1>4, <1>5

-----------------------------------------------------------------------------
(* The batch and its tokens.                                               *)

\* The sequences from left to right, one after the other: f[i] is what the
\* first i of them make.
Flattens(f, seqs, X) ==
    /\ f \in [0 .. Len(seqs) -> Seq(X)]
    /\ f[0] = <<>>
    /\ \A i \in 1 .. Len(seqs) : f[i] = f[i - 1] \o seqs[i]

LEMMA FlattenSeqFacts ==
    ASSUME NEW X, NEW seqs \in Seq(Seq(X)), NEW f, Flattens(f, seqs, X)
    PROVE  FlattenSeq(seqs) = f[Len(seqs)]
<1> DEFINE N == Len(seqs)
           step(g) == [i \in 1 .. N |-> IF i = 1 THEN seqs[i]
                                        ELSE g[i - 1] \o seqs[i]]
           flatten == CHOOSE g : g = step(g)
<1>1. N \in Nat /\ f \in [0 .. N -> Seq(X)] /\ f[0] = <<>>
      /\ \A i \in 1 .. N : f[i] = f[i - 1] \o seqs[i] /\ seqs[i] \in Seq(X)
  <2>1. \A i \in 1 .. N : seqs[i] \in Seq(X)
    OBVIOUS
  <2>2. QED
    BY <2>1 DEF Flattens
<1>one. N # 0 => f[1] = seqs[1]
  <2>1. SUFFICES ASSUME N # 0 PROVE f[1] = seqs[1]
    OBVIOUS
  <2>2. 1 \in 1 .. N /\ 1 - 1 = 0
    BY <1>1, <2>1
  <2> HIDE DEF N
  <2>3. f[1] = f[1 - 1] \o seqs[1] /\ seqs[1] \in Seq(X)
    BY <1>1, <2>2
  <2>4. <<>> \o seqs[1] = seqs[1]
    BY <2>3
  <2>5. QED
    BY <1>1, <2>2, <2>3, <2>4
<1>2. CASE N = 0
  <2>1. FlattenSeq(seqs) = seqs /\ seqs = <<>>
    BY <1>2 DEF FlattenSeq
  <2>2. QED
    BY <1>1, <1>2, <2>1
<1>3. CASE N # 0
  <2>1. FlattenSeq(seqs) = flatten[N]
    BY <1>3 DEF FlattenSeq
  <2> DEFINE g == [i \in 1 .. N |-> f[i]]
  <2>2. g = step(g)
    <3>1. ASSUME NEW i \in 1 .. N
          PROVE  f[i] = IF i = 1 THEN seqs[i] ELSE g[i - 1] \o seqs[i]
      <4>1. CASE i = 1
        BY <1>3, <1>one, <4>1
      <4>2. CASE i # 1
        <5>1. i - 1 \in 1 .. N
          BY <1>1, <4>2
        <5>2. g[i - 1] = f[i - 1]
          BY <5>1
        <5>3. QED
          BY <1>1, <4>2, <5>2
      <4>3. QED
        BY <4>1, <4>2
    <3>2. QED
      BY <3>1, Zenon
  <2> HIDE DEF g
  <2>3. flatten = step(flatten)
    BY <2>2
  <2> HIDE DEF flatten
  <2> DEFINE T == {i \in 0 .. N : i = 0 \/ flatten[i] = f[i]}
  <2>4. ASSUME NEW i \in 0 .. N - 1, i \in T
        PROVE  i + 1 \in T
    <3>1. i + 1 \in 1 .. N /\ i + 1 \in 0 .. N /\ (i + 1) - 1 = i
      BY <1>1
    <3>2. f[i + 1] = f[i] \o seqs[i + 1] /\ seqs[i + 1] \in Seq(X)
      BY <1>1, <3>1
    <3>3. flatten[i + 1] = IF i + 1 = 1 THEN seqs[i + 1]
                           ELSE flatten[i] \o seqs[i + 1]
      BY <2>3, <3>1
    <3>4. CASE i = 0
      BY <1>3, <1>one, <3>1, <3>3, <3>4
    <3>5. CASE i # 0
      <4>1. i + 1 # 1
        BY <3>5
      <4>2. QED
        BY <2>4, <3>1, <3>2, <3>3, <3>5, <4>1
    <3>6. QED
      BY <3>4, <3>5
  <2>5. 0 \in T
    BY <1>1
  <2> HIDE DEF T, N
  <2>6. \A i \in 0 .. N : i \in T
    BY <1>1, <2>4, <2>5, UpToInduction
  <2>7. N \in 0 .. N
    BY <1>1
  <2>8. N \in T
    BY <2>6, <2>7
  <2>9. QED
    BY <1>3, <2>1, <2>8 DEF T, N
<1>4. QED
  BY <1>2, <1>3

Entries == [req : Requests, n : Nat \ {0}]

\* What a batch is: an entry per request.
BatchOK(b) ==
    /\ b \in Seq(Entries)
    /\ b # <<>>
    /\ \A i, j \in DOMAIN b : b[i].req = b[j].req => i = j

\* The tokens of one entry.
Part(x) == [j \in 1 .. x.n |-> x.req]

LEMMA PartFacts ==
    ASSUME NEW x \in Entries
    PROVE  /\ Part(x) \in Seq(Requests) /\ Len(Part(x)) = x.n
           /\ \A j \in 1 .. x.n : Part(x)[j] = x.req
<1>1. x.n \in Nat /\ x.req \in Requests
  BY DEF Entries
<1>2. QED
  BY <1>1 DEF Part

\* The tokens of the first i entries of the batch.
Upto(f, b) ==
    /\ f \in [0 .. Len(b) -> Seq(Requests)]
    /\ f[0] = <<>>
    /\ \A i \in 1 .. Len(b) : f[i] = f[i - 1] \o Part(b[i])

LEMMA UptoExists ==
    ASSUME NEW b, BatchOK(b)
    PROVE  \E f : Upto(f, b)
<1> DEFINE N == Len(b)
           S == Seq(Requests)
           h == [x \in (1 .. N) \X S |-> x[2] \o Part(b[x[1]])]
<1>1. N \in Nat /\ <<>> \in S /\ \A i \in 1 .. N : Part(b[i]) \in S
  <2>1. \A i \in 1 .. N : b[i] \in Entries
    BY DEF BatchOK
  <2>2. QED
    BY <2>1, PartFacts DEF BatchOK
<1>2. h \in [(1 .. N) \X S -> S]
  BY <1>1
<1> HIDE DEF h
<1>3. PICK f : Loop(f, N, S, <<>>, h)
  BY <1>1, <1>2, LoopExists
<1>4. f \in [0 .. N -> S] /\ f[0] = <<>>
  BY <1>1, <1>3 DEF Loop
<1>5. ASSUME NEW i \in 1 .. N
      PROVE  f[i] = f[i - 1] \o Part(b[i])
  <2>1. i \in 0 .. N /\ i # 0 /\ i - 1 \in 0 .. N
    BY <1>1
  <2>2. f[i] = h[<<i, f[i - 1]>>] /\ f[i - 1] \in S
    BY <1>3, <1>4, <2>1 DEF Loop
  <2>3. QED
    BY <2>2 DEF h
<1>6. QED
  BY <1>4, <1>5 DEF Upto

\* A prefix of the batch is flattened like the batch.
LEMMA FlatUpto ==
    ASSUME NEW b, BatchOK(b), NEW f, Upto(f, b), NEW i \in 1 .. Len(b)
    PROVE  /\ Flat(SubSeq(b, 1, i)) = f[i]
           /\ SubSeq(b, 1, Len(b)) = b
<1> DEFINE N == Len(b)
           s == SubSeq(b, 1, i)
           seqs == [j \in DOMAIN s |-> Part(s[j])]
           g == [j \in 0 .. i |-> f[j]]
<1>1. N \in Nat /\ b \in Seq(Entries)
  BY DEF BatchOK
<1>2. /\ s \in Seq(Entries) /\ Len(s) = i
      /\ DOMAIN s = 1 .. i /\ \A j \in 1 .. i : s[j] = b[j]
  BY <1>1
<1>3. \A j \in 1 .. i : Part(s[j]) \in Seq(Requests)
  BY <1>2, PartFacts
<1>4. seqs \in Seq(Seq(Requests)) /\ Len(seqs) = i
      /\ \A j \in 1 .. i : seqs[j] = Part(b[j])
  <2> HIDE DEF s
  <2>1. seqs = [j \in 1 .. i |-> Part(s[j])] /\ i \in Nat
    BY <1>2
  <2>2. seqs \in Seq(Seq(Requests)) /\ Len(seqs) = i
    BY <1>3, <2>1
  <2>3. QED
    BY <1>2, <2>1, <2>2
<1>5. Flat(s) = FlattenSeq(seqs)
  BY DEF Flat, Part
<1>6. Flattens(g, seqs, Requests)
  <2>1. 0 .. i \subseteq 0 .. N
    BY <1>1
  <2>2. g \in [0 .. i -> Seq(Requests)] /\ g[0] = <<>>
    BY <1>1, <2>1 DEF Upto
  <2>3. ASSUME NEW j \in 1 .. i
        PROVE  g[j] = g[j - 1] \o seqs[j]
    <3>1. j \in 1 .. N /\ g[j] = f[j] /\ g[j - 1] = f[j - 1]
      BY <1>1
    <3>2. QED
      BY <1>4, <3>1 DEF Upto
  <2> HIDE DEF g, seqs
  <2>4. QED
    BY <1>4, <2>2, <2>3 DEF Flattens
<1>7. Flat(s) = g[i]
  <2> HIDE DEF g, seqs, s
  <2>1. QED
    BY <1>4, <1>5, <1>6, FlattenSeqFacts
<1>8. SubSeq(b, 1, N) = b
  BY <1>1
<1>9. QED
  BY <1>7, <1>8

\* What the entries after the i-th one, up to the j-th, add.
Extends(f, b, i, j) ==
    /\ Len(f[i]) <= Len(f[j])
    /\ \A x \in 1 .. Len(f[i]) : f[j][x] = f[i][x]
    /\ \A x \in Len(f[i]) + 1 .. Len(f[j]) :
         \E l \in i + 1 .. j : f[j][x] = b[l].req

LEMMA UptoStep ==
    ASSUME NEW b, BatchOK(b), NEW f, Upto(f, b), NEW i \in 1 .. Len(b)
    PROVE  /\ f[i] \in Seq(Requests) /\ f[i - 1] \in Seq(Requests)
           /\ b[i].n \in Nat \ {0}
           /\ Len(f[i]) = Len(f[i - 1]) + b[i].n
           /\ \A x \in 1 .. Len(f[i - 1]) : f[i][x] = f[i - 1][x]
           /\ \A x \in Len(f[i - 1]) + 1 .. Len(f[i]) : f[i][x] = b[i].req
<1>1. b[i] \in Entries /\ Len(b) \in Nat
  BY DEF BatchOK
<1>2. i \in 0 .. Len(b) /\ i - 1 \in 0 .. Len(b)
  BY <1>1
<1>3. f[i] \in Seq(Requests) /\ f[i - 1] \in Seq(Requests)
  BY <1>2 DEF Upto
<1>4. f[i] = f[i - 1] \o Part(b[i])
  BY DEF Upto
<1> DEFINE s == f[i - 1]
           t == Part(b[i])
<1>5. t \in Seq(Requests) /\ Len(t) = b[i].n /\ b[i].n \in Nat \ {0}
      /\ \A j \in 1 .. b[i].n : t[j] = b[i].req
  BY <1>1, PartFacts DEF Entries
<1> HIDE DEF t
<1>6. /\ Len(f[i]) = Len(s) + Len(t)
      /\ \A x \in 1 .. Len(s) : f[i][x] = s[x]
      /\ \A x \in Len(s) + 1 .. Len(s) + Len(t) : f[i][x] = t[x - Len(s)]
  <2>1. f[i] = s \o t
    BY <1>4 DEF t
  <2>2. s \in Seq(Requests)
    BY <1>3
  <2> HIDE DEF s
  <2>3. QED
    BY <1>5, <2>1, <2>2
<1>7. ASSUME NEW x \in Len(s) + 1 .. Len(s) + Len(t)
      PROVE  f[i][x] = b[i].req
  <2>1. x - Len(s) \in 1 .. Len(t)
    BY <1>3, <1>5
  <2>2. QED
    BY <1>5, <1>6, <2>1
<1>8. QED
  BY <1>3, <1>5, <1>6, <1>7

LEMMA UptoExtends ==
    ASSUME NEW b, BatchOK(b), NEW f, Upto(f, b),
           NEW i \in 0 .. Len(b), NEW j \in i .. Len(b)
    PROVE  Extends(f, b, i, j)
<1> DEFINE N == Len(b)
           T == {d \in 0 .. N - i : Extends(f, b, i, i + d)}
<1>1. N \in Nat
  BY DEF BatchOK
<1>2. 0 \in T
  <2>1. f[i] \in Seq(Requests) /\ i + 0 = i
    BY <1>1 DEF Upto
  <2>2. Len(f[i]) \in Nat
    BY <2>1
  <2>3. Extends(f, b, i, i)
    BY <2>2 DEF Extends
  <2>4. QED
    BY <1>1, <2>1, <2>3
<1>3. ASSUME NEW d \in 0 .. (N - i) - 1, d \in T
      PROVE  d + 1 \in T
  <2> DEFINE u == i + d
             v == i + (d + 1)
  <2>1. v \in 1 .. N /\ v - 1 = u /\ i + 1 .. u \subseteq i + 1 .. v
        /\ v \in i + 1 .. v /\ d + 1 \in 0 .. N - i /\ i \in 0 .. N
    BY <1>1
  <2>2. Extends(f, b, i, u)
    BY <1>3
  <2> HIDE DEF u, v
  <2>3. /\ f[v] \in Seq(Requests) /\ f[u] \in Seq(Requests)
        /\ b[v].n \in Nat \ {0}
        /\ Len(f[v]) = Len(f[u]) + b[v].n
        /\ \A x \in 1 .. Len(f[u]) : f[v][x] = f[u][x]
        /\ \A x \in Len(f[u]) + 1 .. Len(f[v]) : f[v][x] = b[v].req
    BY <2>1, UptoStep
  <2>4. f[i] \in Seq(Requests) /\ Len(f[i]) \in Nat
    BY <2>1 DEF Upto
  <2>5. Len(f[i]) <= Len(f[v])
    BY <2>2, <2>3, <2>4 DEF Extends
  <2>6. \A x \in 1 .. Len(f[i]) : f[v][x] = f[i][x]
    BY <2>2, <2>3, <2>4, SMTT(30) DEF Extends
  <2>7. ASSUME NEW x \in Len(f[i]) + 1 .. Len(f[v])
        PROVE  \E l \in i + 1 .. v : f[v][x] = b[l].req
    <3>1. CASE x <= Len(f[u])
      <4>1. x \in Len(f[i]) + 1 .. Len(f[u]) /\ x \in 1 .. Len(f[u])
        BY <2>3, <2>4, <3>1
      <4>2. PICK l \in i + 1 .. u : f[u][x] = b[l].req
        BY <2>2, <4>1 DEF Extends
      <4>3. QED
        BY <2>1, <2>3, <4>1, <4>2
    <3>2. CASE x > Len(f[u])
      <4>1. x \in Len(f[u]) + 1 .. Len(f[v])
        BY <2>3, <2>4, <3>2
      <4>2. QED
        BY <2>1, <2>3, <4>1
    <3>3. QED
      BY <2>3, <2>4, <3>1, <3>2
  <2>8. Extends(f, b, i, v)
    BY <2>5, <2>6, <2>7 DEF Extends
  <2>9. QED
    BY <2>1, <2>8 DEF v
<1>4. N - i \in Nat
  BY <1>1
<1> HIDE DEF T
<1>5. \A d \in 0 .. N - i : d \in T
  BY <1>2, <1>3, <1>4, UpToInduction
<1>6. j - i \in 0 .. N - i /\ i + (j - i) = j
  BY <1>1
<1>7. j - i \in T
  BY <1>5, <1>6
<1>8. QED
  BY <1>6, <1>7 DEF T

\* The tokens of a batch: the last one of an entry is the newest one of its
\* request, as many as entries in a decode, and those of its request alone
\* when there is one entry.
LEMMA FlatFacts ==
    ASSUME NEW b, BatchOK(b), NEW N, N = Len(Flat(b))
    PROVE  /\ Flat(b) \in Seq(Requests) /\ N \in Nat \ {0}
           /\ \A i \in DOMAIN b, u \in Int : u = Len(Flat(SubSeq(b, 1, i))) =>
                /\ u \in 1 .. N /\ Flat(b)[u] = b[i].req
                /\ \A x \in u + 1 .. N : Flat(b)[x] # b[i].req
           /\ ~ IsPrefill(b) => N = Len(b)
           /\ Len(b) = 1 => /\ N = b[1].n
                            /\ \A x \in 1 .. N : Flat(b)[x] = b[1].req
<1> DEFINE L == Len(b)
<1>1. L \in Nat \ {0} /\ DOMAIN b = 1 .. L
  BY DEF BatchOK
<1>2. PICK f : Upto(f, b)
  BY UptoExists
<1>3. L \in 1 .. L /\ L \in 0 .. L /\ 1 \in 1 .. L
  BY <1>1
<1>4. Flat(b) = f[L]
  BY <1>2, <1>3, FlatUpto
<1>5. f[L] \in Seq(Requests) /\ N \in Nat
  BY <1>2, <1>3, <1>4 DEF Upto
<1>6. ASSUME NEW i \in 1 .. L, NEW u \in Int, u = Len(Flat(SubSeq(b, 1, i)))
      PROVE  /\ u \in 1 .. N /\ Flat(b)[u] = b[i].req
             /\ \A x \in u + 1 .. N : Flat(b)[x] # b[i].req
  <2>1. u = Len(f[i])
    BY <1>2, <1>6, FlatUpto
  <2>2. i \in 0 .. L /\ L \in i .. L
    BY <1>1
  <2>3. Extends(f, b, i, L)
    BY <1>2, <2>2, UptoExtends
  <2>4. /\ f[i] \in Seq(Requests) /\ f[i - 1] \in Seq(Requests)
        /\ b[i].n \in Nat \ {0} /\ Len(f[i]) = Len(f[i - 1]) + b[i].n
        /\ \A x \in Len(f[i - 1]) + 1 .. Len(f[i]) : f[i][x] = b[i].req
    BY <1>2, UptoStep
  <2>5. u \in 1 .. u /\ u \in Len(f[i - 1]) + 1 .. Len(f[i])
    BY <2>1, <2>4, SMTT(30)
  <2>6. u \in 1 .. N /\ f[L][u] = b[i].req
    BY <1>4, <1>5, <2>1, <2>3, <2>4, <2>5 DEF Extends
  <2>7. ASSUME NEW x \in u + 1 .. N
        PROVE  f[L][x] # b[i].req
    <3>1. PICK l \in i + 1 .. L : f[L][x] = b[l].req
      BY <1>4, <2>1, <2>3 DEF Extends
    <3>2. l \in 1 .. L /\ l # i
      BY <1>1
    <3>3. QED
      BY <1>1, <3>1, <3>2 DEF BatchOK
  <2>8. QED
    BY <1>4, <2>6, <2>7
<1>7. N \in Nat \ {0}
  <2>1. Flat(SubSeq(b, 1, L)) = f[L] /\ N \in Int
    BY <1>2, <1>3, <1>5, FlatUpto
  <2>2. N \in 1 .. N
    BY <1>3, <1>4, <1>6, <2>1
  <2>3. QED
    BY <1>5, <2>2
<1>8. ASSUME ~ IsPrefill(b)
      PROVE  N = L
  <2> DEFINE T == {i \in 0 .. L : Len(f[i]) = i}
  <2>1. 0 \in T
    BY <1>1, <1>2 DEF Upto
  <2>2. ASSUME NEW i \in 0 .. L - 1, i \in T
        PROVE  i + 1 \in T
    <3>1. i + 1 \in 1 .. L /\ i + 1 \in 0 .. L /\ (i + 1) - 1 = i
      BY <1>1
    <3>2. Len(f[i + 1]) = Len(f[i]) + b[i + 1].n /\ b[i + 1].n \in Nat \ {0}
      BY <1>2, <3>1, UptoStep
    <3>3. ~ (b[i + 1].n > 1)
      BY <1>1, <1>8, <3>1 DEF IsPrefill
    <3>4. b[i + 1].n = 1
      BY <3>2, <3>3
    <3>5. QED
      BY <2>2, <3>1, <3>2, <3>4
  <2> HIDE DEF T
  <2>3. \A i \in 0 .. L : i \in T
    BY <1>1, <2>1, <2>2, UpToInduction
  <2>4. QED
    BY <1>3, <1>4, <2>3 DEF T
<1>9. ASSUME L = 1
      PROVE  N = b[1].n /\ \A x \in 1 .. N : Flat(b)[x] = b[1].req
  <2>1. /\ f[1 - 1] \in Seq(Requests)
        /\ Len(f[1]) = Len(f[1 - 1]) + b[1].n
        /\ \A x \in Len(f[1 - 1]) + 1 .. Len(f[1]) : f[1][x] = b[1].req
        /\ b[1].n \in Nat
    BY <1>2, <1>3, UptoStep
  <2>2. f[1 - 1] = <<>> /\ Len(f[1 - 1]) = 0
    BY <1>2 DEF Upto
  <2>3. QED
    BY <1>4, <1>9, <2>1, <2>2
<1>10. QED
  BY <1>1, <1>4, <1>5, <1>6, <1>7, <1>8, <1>9

\* The new tokens are consecutive.
LEMMA NewTokensFacts ==
    ASSUME NEW b, BatchOK(b), TypeOK
    PROVE  /\ Consecutive(NewTokens(b), Len(owner))
           /\ Len(NewTokens(b)) = Len(Flat(b)) /\ NewTokens(b) # <<>>
<1> DEFINE N == Len(Flat(b))
           k == Len(owner)
<1>1. N \in Nat \ {0}
  BY FlatFacts
<1>2. k \in Nat
  BY DEF TypeOK
<1>3. NewTokens(b) = [i \in 1 .. N |-> k + i - 1]
  BY DEF NewTokens
<1> HIDE DEF N, k
<1>4. /\ NewTokens(b) \in Seq(Nat) /\ Len(NewTokens(b)) = N
      /\ \A i \in 1 .. N : NewTokens(b)[i] = k + i - 1
  BY <1>1, <1>2, <1>3
<1>5. QED
  BY <1>1, <1>4 DEF Consecutive, N, k

\* The batch that Forward makes of a set of requests.
Batch(batch) == SetToSeq({Entry(r) : r \in batch})

\* The entry of a request.
EntryAt(b, r) == CHOOSE i \in DOMAIN b : b[i].req = r

LEMMA BatchFacts ==
    ASSUME TypeOK, NEW batch, batch \subseteq Requests, batch # {},
           NEW b, b = Batch(batch)
    PROVE  /\ BatchOK(b)
           /\ Len(b) = Cardinality(batch)
           /\ \A i \in DOMAIN b : b[i].req \in batch /\ b[i] = Entry(b[i].req)
           /\ \A r \in batch : \E i \in DOMAIN b : b[i] = Entry(r)
           /\ \A r \in batch : /\ EntryAt(b, r) \in DOMAIN b
                               /\ b[EntryAt(b, r)] = Entry(r)
<1> DEFINE S == {Entry(r) : r \in batch}
           N == Cardinality(S)
<1>1. ASSUME NEW r \in batch
      PROVE  Entry(r) \in Entries /\ Entry(r).req = r
  <2>1. prompt[r] \in Nat /\ workload.chunk \in Nat \ {0}
    BY AdapterAssumption DEF TypeOK
  <2>2. QED
    BY <2>1 DEF Entry, Entries
<1>2. IsFiniteSet(batch)
  BY AdapterAssumption, FS_Subset
<1>3. IsFiniteSet(S) /\ N = Cardinality(batch)
  <2> DEFINE g == [r \in batch |-> Entry(r)]
  <2>1. g \in Bijection(batch, S)
    BY <1>1 DEF Bijection, Injection, Surjection, IsInjective
  <2>2. QED
    BY <1>2, <2>1, FS_Surjection DEF Bijection
<1>4. N \in Nat /\ ExistsBijection(1 .. N, S)
  BY <1>3, FS_CardinalityType
<1>5. b \in [1 .. N -> S] /\ IsInjective(b)
  <2>1. \E f \in [1 .. N -> S] : IsInjective(f)
    BY <1>4 DEF ExistsBijection, Bijection, Injection
  <2>2. QED
    BY <2>1 DEF SetToSeq, Batch
<1>6. N # 0
  <2>1. S # {}
    OBVIOUS
  <2> HIDE DEF S
  <2>2. QED
    BY <1>3, <2>1, FS_EmptySet
<1>7. \A i \in 1 .. N : /\ b[i] \in Entries
                         /\ b[i].req \in batch /\ b[i] = Entry(b[i].req)
  BY <1>1, <1>5
<1>8. \A r \in batch : \E i \in 1 .. N : b[i] = Entry(r)
  <2>1. b \in Injection(1 .. N, S)
    BY <1>5 DEF Injection
  <2>2. Cardinality(1 .. N) = N
    BY <1>4, FS_Interval
  <2> HIDE DEF S, N
  <2>3. b \in Surjection(1 .. N, S)
    BY <1>3, <2>1, <2>2, FS_Injection DEF N
  <2>4. \A x \in S : \E i \in 1 .. N : b[i] = x
    BY <2>3 DEF Surjection
  <2>5. QED
    BY <2>4 DEF S
<1> HIDE DEF N, S
<1>9. b \in Seq(Entries) /\ Len(b) = N /\ DOMAIN b = 1 .. N /\ b # <<>>
  <2>1. b \in [1 .. N -> Entries]
    BY <1>5, <1>7
  <2>2. QED
    BY <1>4, <1>6, <2>1
<1>10. \A i, j \in 1 .. N : b[i].req = b[j].req => i = j
  <2>1. SUFFICES ASSUME NEW i \in 1 .. N, NEW j \in 1 .. N, b[i].req = b[j].req
                 PROVE  i = j
    OBVIOUS
  <2>2. b[i] = Entry(b[i].req) /\ b[j] = Entry(b[j].req)
    BY <1>7
  <2>3. b[i] = b[j]
    BY <2>1, <2>2
  <2>4. QED
    BY <1>5, <1>9, <2>3 DEF IsInjective
<1>11. BatchOK(b)
  BY <1>9, <1>10 DEF BatchOK
<1>12. ASSUME NEW r \in batch
       PROVE  EntryAt(b, r) \in DOMAIN b /\ b[EntryAt(b, r)] = Entry(r)
  <2> DEFINE i == EntryAt(b, r)
  <2>1. \E j \in DOMAIN b : b[j].req = r
    BY <1>1, <1>8, <1>9
  <2>2. i \in DOMAIN b /\ b[i].req = r
    BY <2>1 DEF EntryAt
  <2>3. QED
    BY <1>7, <1>9, <2>2
<1>13. QED
  BY <1>3, <1>7, <1>8, <1>9, <1>11, <1>12

-----------------------------------------------------------------------------
(* The handlers.                                                           *)

\* The state that a handler finds or makes.
LEMMA GetOrCreateFacts ==
    ASSUME NEW k \in Nat, NEW sl, SlotsAt(sl, k), NEW id,
           NEW s, s = GetOrCreate(sl, id)
    PROVE  /\ s \in State(k)
           /\ id \in DOMAIN sl => s = sl[id]
           /\ id \notin DOMAIN sl =>
                /\ s = NewState /\ ~ s.entered_decode
                /\ Attended(s.engine) = {} /\ Size(s.engine) = 0
<1>1. CASE id \in DOMAIN sl
  BY <1>1 DEF GetOrCreate, SlotsAt
<1>2. CASE id \notin DOMAIN sl
  <2>1. s = NewState
    BY <1>2 DEF GetOrCreate
  <2>2. NewState \in State(k) /\ Attended(NewState.engine) = {}
        /\ Size(NewState.engine) = 0 /\ ~ NewState.entered_decode
    <3>1. EngineOK(EmptyEngine, k) /\ Attended(EmptyEngine) = {}
          /\ EmptyEngine.ring.count = 0 /\ EmptyEngine.store.num_stored = 0
      BY EmptyEngineOK
    <3>2. EmptyEngine \in [ring : Ring, store : Store]
      BY <3>1 DEF EngineOK
    <3>3. Size(EmptyEngine) = 0
      BY <3>1 DEF Size
    <3> HIDE DEF EmptyEngine
    <3>4. QED
      BY <3>1, <3>2, <3>3 DEF NewState, State
  <2>3. QED
    BY <1>2, <2>1, <2>2
<1>3. QED
  BY <1>1, <1>2

\* The state s adds tokens from k to m - 1 to what the handler found at id.
Adds(sl, k, id, s, m) ==
    /\ id \in {Prefill, Default}
    /\ k <= m /\ s \in State(m)
    /\ Attended(s.engine)
         \subseteq Attended(GetOrCreate(sl, id).engine) \cup (k .. m - 1)

\* Putting back a state with new tokens.
LEMMA PutFacts ==
    ASSUME NEW k \in Nat, NEW m \in Nat, NEW sl, SlotsAt(sl, k),
           NEW id, NEW s, Adds(sl, k, id, s, m)
    PROVE  SlotsAt(Put(sl, id, s), m)
<1> DEFINE p == Put(sl, id, s)
<1>1. /\ DOMAIN p = DOMAIN sl \cup {id} /\ p[id] = s
      /\ \A j \in DOMAIN sl : j # id => p[j] = sl[j]
      /\ p = [j \in DOMAIN p |-> p[j]]
  BY DEF Put
<1>2. k <= m /\ s \in State(m) /\ id \in {Prefill, Default}
      /\ Attended(s.engine)
           \subseteq Attended(GetOrCreate(sl, id).engine) \cup (k .. m - 1)
  BY DEF Adds
<1>3. \A x \in State(k) : x \in State(m)
  BY <1>2, EngineOKLater DEF State
<1>4. \A j \in DOMAIN p : p[j] \in State(m)
  BY <1>1, <1>2, <1>3 DEF SlotsAt
<1>5. DOMAIN p \subseteq {Prefill, Default}
  BY <1>1, <1>2 DEF SlotsAt
<1>6. ASSUME NEW j \in DOMAIN p, j # id
      PROVE  Attended(p[j].engine) \cap Attended(s.engine) = {}
  <2>1. j \in DOMAIN sl /\ p[j] = sl[j] /\ sl[j] \in State(k)
    BY <1>1, <1>6 DEF SlotsAt
  <2>2. Attended(sl[j].engine) \subseteq 0 .. k - 1
    BY <2>1, AttendedFacts DEF State
  <2>3. (0 .. k - 1) \cap (k .. m - 1) = {}
    OBVIOUS
  <2>4. Attended(sl[j].engine) \cap Attended(GetOrCreate(sl, id).engine) = {}
    <3>1. CASE id \in DOMAIN sl
      BY <1>6, <2>1, <3>1 DEF GetOrCreate, SlotsAt
    <3>2. CASE id \notin DOMAIN sl
      BY <3>2, GetOrCreateFacts
    <3>3. QED
      BY <3>1, <3>2
  <2>5. QED
    BY <1>2, <2>1, <2>2, <2>3, <2>4
<1>7. ASSUME NEW i \in DOMAIN p, NEW j \in DOMAIN p, i # j
      PROVE  Attended(p[i].engine) \cap Attended(p[j].engine) = {}
  <2>1. CASE i = id
    BY <1>1, <1>6, <1>7, <2>1
  <2>2. CASE j = id
    BY <1>1, <1>6, <1>7, <2>2
  <2>3. CASE i # id /\ j # id
    BY <1>1, <1>7, <2>3 DEF SlotsAt
  <2>4. QED
    BY <2>1, <2>2, <2>3
<1>8. SlotsAt(p, m)
  <2>1. p \in [DOMAIN p -> State(m)]
    BY <1>1, <1>4
  <2>2. QED
    BY <1>5, <1>7, <2>1 DEF SlotsAt
<1>9. QED
  BY <1>8

\* _handle_prefill(): the state then has data, and nothing but the batch if
\* there was no state or it had entered decode.
LEMMA HandlePrefillFacts ==
    ASSUME NEW k \in Nat, NEW sl, SlotsAt(sl, k),
           NEW tokens, Consecutive(tokens, k), tokens # <<>>,
           NEW p, p = HandlePrefill(sl, tokens)
    PROVE  LET n == Len(tokens)
               new == k .. k + n - 1
               e == p[Prefill].engine
           IN  /\ SlotsAt(p, k + n)
               /\ DOMAIN p = DOMAIN sl \cup {Prefill}
               /\ HasData(e)
               /\ ~ p[Prefill].entered_decode
               /\ p[Prefill].num_tokens = n
               /\ (Prefill \in DOMAIN sl => sl[Prefill].entered_decode)
                    /\ n <= MaxTokens + Capacity
                  => Attended(e) = new /\ Size(e) = n
<1> DEFINE n == Len(tokens)
           new == k .. k + n - 1
           g == GetOrCreate(sl, Prefill)
           s == FreshForPrefill(g)
           q == IngestPrefill(s.engine, tokens)
           t == [s EXCEPT !.engine = q, !.num_tokens = n,
                          !.is_prefill_complete = TRUE]
<1>1. n \in Nat
  BY DEF Consecutive
<1>2. /\ g \in State(k)
      /\ Prefill \in DOMAIN sl => g = sl[Prefill]
      /\ Prefill \notin DOMAIN sl =>
           ~ g.entered_decode /\ Size(g.engine) = 0
  BY GetOrCreateFacts
<1> HIDE DEF g
<1>3. /\ s \in State(k) /\ ~ s.entered_decode
      /\ Attended(s.engine) \subseteq Attended(g.engine)
      /\ (Prefill \in DOMAIN sl => sl[Prefill].entered_decode)
           => Size(s.engine) = 0
  <2>1. CASE g.entered_decode
    <3>1. s = [engine |-> EmptyEngine, num_tokens |-> 0,
               is_prefill_complete |-> FALSE, entered_decode |-> FALSE]
      BY <2>1 DEF FreshForPrefill, ResetState, NewState
    <3>2. EngineOK(EmptyEngine, k) /\ Attended(EmptyEngine) = {}
          /\ EmptyEngine.ring.count = 0 /\ EmptyEngine.store.num_stored = 0
      BY EmptyEngineOK
    <3>3. EmptyEngine \in [ring : Ring, store : Store]
      BY <3>2 DEF EngineOK
    <3>4. Size(EmptyEngine) = 0
      BY <3>2 DEF Size
    <3> HIDE DEF s
    <3>5. QED
      BY <3>1, <3>2, <3>3, <3>4 DEF State
  <2>2. CASE ~ g.entered_decode
    <3>1. s = g
      BY <2>2 DEF FreshForPrefill
    <3>2. QED
      BY <1>2, <2>2, <3>1
  <2>3. QED
    BY <2>1, <2>2
<1>4. p = Put(sl, Prefill, t)
  BY DEF HandlePrefill, g
<1> HIDE DEF s
<1>5. /\ EngineOK(q, k + n) /\ HasData(q)
      /\ Attended(q) \subseteq Attended(s.engine) \cup new
      /\ Size(s.engine) = 0 /\ n <= MaxTokens + Capacity
         => Attended(q) = new /\ Size(q) = n
  <2>1. EngineOK(s.engine, k)
    BY <1>3 DEF State
  <2>2. QED
    BY <2>1, IngestPrefillFacts
<1> HIDE DEF q
<1>6. /\ t \in State(k + n) /\ t.engine = q
      /\ t.num_tokens = n /\ ~ t.entered_decode
  <2>1. q \in [ring : Ring, store : Store]
    BY <1>5 DEF EngineOK
  <2>2. t.engine = q /\ t.num_tokens = n /\ t.entered_decode = s.entered_decode
        /\ t \in [engine : [ring : Ring, store : Store], num_tokens : Nat,
                  is_prefill_complete : BOOLEAN, entered_decode : BOOLEAN]
    BY <1>1, <1>3, <2>1 DEF State
  <2> HIDE DEF t
  <2>3. QED
    BY <1>3, <1>5, <2>2 DEF State
<1> HIDE DEF t, n
<1>7. Adds(sl, k, Prefill, t, k + n)
  <2>1. (k + n) - 1 = k + n - 1 /\ k <= k + n
    BY <1>1
  <2>2. Attended(t.engine) \subseteq Attended(g.engine) \cup (k .. (k + n) - 1)
    BY <1>3, <1>5, <1>6, <2>1
  <2>3. QED
    BY <1>6, <2>1, <2>2 DEF Adds, g
<1>8. SlotsAt(p, k + n) /\ DOMAIN p = DOMAIN sl \cup {Prefill} /\ p[Prefill] = t
  <2> DEFINE m == k + n
  <2>1. m \in Nat /\ Adds(sl, k, Prefill, t, m)
    BY <1>1, <1>7
  <2> HIDE DEF m
  <2>2. SlotsAt(Put(sl, Prefill, t), m)
    BY <2>1, PutFacts
  <2>3. DOMAIN p = DOMAIN sl \cup {Prefill} /\ p[Prefill] = t
    BY <1>4 DEF Put
  <2>4. QED
    BY <1>4, <2>2, <2>3 DEF m
<1>9. QED
  BY <1>3, <1>5, <1>6, <1>8 DEF n

\* _handle_decode_capture(): the tokens are added to the state of the prefill,
\* if there is one, which has then entered decode.
Captured(sl, p, k, n) ==
    LET new == k .. k + n - 1
        id == IF Prefill \in DOMAIN sl THEN Prefill ELSE Default
        s == GetOrCreate(sl, id)
        e == p[id].engine
    IN  /\ SlotsAt(p, k + n)
        /\ DOMAIN p = DOMAIN sl \cup {id}
        /\ HasData(e)
        /\ p[id].entered_decode <=> s.entered_decode \/ id = Prefill
        /\ p[id].num_tokens = s.num_tokens + n
        /\ n <= Capacity => new \subseteq Attended(e)
        /\ Size(s.engine) + n <= MaxTokens + Capacity
           => /\ Attended(e) = Attended(s.engine) \cup new
              /\ Size(e) = Size(s.engine) + n

LEMMA HandleDecodeFacts ==
    ASSUME NEW k \in Nat, NEW sl, SlotsAt(sl, k),
           NEW tokens, Consecutive(tokens, k), tokens # <<>>,
           NEW p, p = HandleDecodeCapture(sl, tokens)
    PROVE  Captured(sl, p, k, Len(tokens))
<1> DEFINE n == Len(tokens)
           new == k .. k + n - 1
           id == IF Prefill \in DOMAIN sl THEN Prefill ELSE Default
           s == GetOrCreate(sl, id)
           q == IngestDecode(s.engine, tokens)
           t == [s EXCEPT !.engine = q, !.num_tokens = @ + n,
                          !.entered_decode = @ \/ id = Prefill]
<1>1. n \in Nat /\ id \in {Prefill, Default}
  BY DEF Consecutive
<1>2. p = Put(sl, id, t)
  BY DEF HandleDecodeCapture
<1> HIDE DEF id
<1>3. s \in State(k)
  BY GetOrCreateFacts
<1> HIDE DEF s
<1>4. /\ EngineOK(q, k + n) /\ HasData(q)
      /\ Attended(q) \subseteq Attended(s.engine) \cup new
      /\ n <= Capacity => new \subseteq Attended(q)
      /\ Size(s.engine) + n <= MaxTokens + Capacity =>
           /\ Attended(q) = Attended(s.engine) \cup new
           /\ Size(q) = Size(s.engine) + n
  <2>1. EngineOK(s.engine, k)
    BY <1>3 DEF State
  <2>2. QED
    BY <2>1, IngestDecodeFacts
<1> HIDE DEF q, n
<1>5. /\ t \in State(k + n) /\ t.engine = q
      /\ t.num_tokens = s.num_tokens + n
      /\ t.entered_decode <=> s.entered_decode \/ id = Prefill
  <2>1. q \in [ring : Ring, store : Store]
    BY <1>4 DEF EngineOK
  <2>2. s \in [engine : [ring : Ring, store : Store], num_tokens : Nat,
               is_prefill_complete : BOOLEAN, entered_decode : BOOLEAN]
    BY <1>3 DEF State
  <2> DEFINE d == s.entered_decode \/ id = Prefill
             c == s.num_tokens + n
  <2>3. d \in BOOLEAN /\ c \in Nat
    BY <1>1, <2>2
  <2>4. t = [s EXCEPT !.engine = q, !.num_tokens = c, !.entered_decode = d]
    BY <2>2
  <2> HIDE DEF t, d, c
  <2>5. t.engine = q /\ t.num_tokens = c /\ t.entered_decode = d
        /\ t \in [engine : [ring : Ring, store : Store], num_tokens : Nat,
                  is_prefill_complete : BOOLEAN, entered_decode : BOOLEAN]
    BY <2>1, <2>2, <2>3, <2>4
  <2>6. QED
    BY <1>4, <2>5 DEF State, c, d
<1> HIDE DEF t
<1>6. Adds(sl, k, id, t, k + n)
  <2>1. (k + n) - 1 = k + n - 1 /\ k <= k + n
    BY <1>1
  <2>2. Attended(t.engine) \subseteq Attended(s.engine) \cup (k .. (k + n) - 1)
    BY <1>4, <1>5, <2>1
  <2>3. QED
    BY <1>1, <1>5, <2>1, <2>2 DEF Adds, s
<1>7. SlotsAt(p, k + n) /\ DOMAIN p = DOMAIN sl \cup {id} /\ p[id] = t
  <2> DEFINE m == k + n
  <2>1. m \in Nat /\ Adds(sl, k, id, t, m)
    BY <1>1, <1>6
  <2> HIDE DEF m
  <2>2. SlotsAt(Put(sl, id, t), m)
    BY <2>1, PutFacts
  <2>3. DOMAIN p = DOMAIN sl \cup {id} /\ p[id] = t
    BY <1>2 DEF Put
  <2>4. QED
    BY <1>2, <2>2, <2>3 DEF m
<1>8. QED
  BY <1>4, <1>5, <1>7 DEF n, id, s, Captured

-----------------------------------------------------------------------------
(* The steps.                                                              *)

\* Without states nothing is held.
LEMMA NoSlots ==
    ASSUME NEW k \in Nat
    PROVE  SlotsAt(<<>>, k) /\ DOMAIN <<>> = {}
<1>1. DOMAIN <<>> = {} /\ <<>> \in [{} -> State(k)]
  OBVIOUS
<1>2. QED
  BY <1>1 DEF SlotsAt

\* release_request() finds no state under the id of a request.
LEMMA ReleasesNothing ==
    ASSUME IInv, NEW r \in Requests
    PROVE  Release(slots, r) = slots
<1>1. DOMAIN slots \subseteq {Prefill, Default} /\ slots = [k \in DOMAIN slots |-> slots[k]]
  BY DEF IInv, SlotsOK, SlotsAt
<1>2. r \notin DOMAIN slots
  BY <1>1, AdapterAssumption
<1>3. DOMAIN slots \ {r} = DOMAIN slots
  BY <1>2
<1>4. QED
  BY <1>1, <1>3 DEF Release

\* The new tokens of an entry are tokens that the request still has to make.
LEMMA EntryFacts ==
    ASSUME TypeOK, NEW r \in Requests
    PROVE  /\ prompt[r] \in Nat /\ decodes[r] \in Nat
           /\ workload.chunk \in Nat \ {0} /\ workload.batch \in Nat
           /\ workload.prompt[r] \in Nat /\ workload.decodes[r] \in Nat
           /\ Entry(r).req = r /\ Entry(r).n \in Nat \ {0}
           /\ prompt[r] = 0 => Entry(r).n = 1
           /\ prompt[r] > 0 => /\ Entry(r).n <= prompt[r]
                               /\ Entry(r).n <= workload.chunk
           /\ prompt[r] > 0 /\ prompt[r] <= workload.chunk
              => Entry(r).n = prompt[r]
           /\ prompt[r] > 1 /\ workload.chunk > 1 => Entry(r).n > 1
<1>1. /\ prompt[r] \in Nat /\ decodes[r] \in Nat
      /\ workload \in [batch : Nat, chunk : Nat \ {0}, aborts : BOOLEAN,
                       prompt : [Requests -> Nat], decodes : [Requests -> Nat]]
  BY AdapterAssumption DEF TypeOK
<1>2. /\ Entry(r).req = r
      /\ Entry(r).n = IF prompt[r] = 0 THEN 1
                      ELSE IF prompt[r] < workload.chunk THEN prompt[r]
                      ELSE workload.chunk
  BY DEF Entry
<1>3. QED
  BY <1>1, <1>2

\* The batch of a forward pass, its tokens, and the slots that it leaves.
Pass(batch, b, k, n) ==
    /\ batch # {} /\ batch \subseteq Running
    /\ \A r \in batch : HasWork(r)
    /\ b = Batch(batch)
    /\ k = Len(owner) /\ n = Len(Flat(b))
    /\ owner' = owner \o Flat(b)
    /\ slots' = IF IsPrefill(b) THEN HandlePrefill(slots, NewTokens(b))
                ELSE HandleDecodeCapture(slots, NewTokens(b))
    /\ out' = [r \in batch |->
                 Output(slots', owner', b, EntryAt(b, r))]
    /\ prompt' = [r \in Requests |-> IF r \in batch /\ prompt[r] > 0
                                     THEN prompt[r] - Entry(r).n ELSE prompt[r]]
    /\ decodes' = [r \in Requests |-> IF r \in batch /\ prompt[r] = 0
                                      THEN decodes[r] - 1 ELSE decodes[r]]
    /\ UNCHANGED <<workload, status>>

LEMMA ForwardIsPass ==
    ASSUME NEW batch \in SUBSET Running, Forward(batch)
    PROVE  \E b, k, n : Pass(batch, b, k, n)
<1> DEFINE b == Batch(batch)
<1>1. Pass(batch, b, Len(owner), Len(Flat(b)))
  BY DEF Forward, Pass, Batch, EntryAt
<1>2. QED
  BY <1>1

LEMMA PassFacts ==
    ASSUME IInv, NEW batch, NEW b, NEW k, NEW n, Pass(batch, b, k, n)
    PROVE  /\ batch \subseteq Requests /\ BatchOK(b)
           /\ k \in Nat /\ n \in Nat \ {0} /\ k + n \in Nat
           /\ Len(b) = Cardinality(batch)
           /\ Consecutive(NewTokens(b), k) /\ NewTokens(b) # <<>>
           /\ Len(NewTokens(b)) = n
           /\ owner' \in Seq(Requests) /\ Len(owner') = k + n
           /\ \A x \in 1 .. k : owner'[x] = owner[x]
           /\ \A x \in k + 1 .. k + n : owner'[x] = Flat(b)[x - k]
           /\ SlotsAt(slots, k) /\ SlotsAt(slots', k + n)
<1>1. batch \subseteq Requests
  BY DEF Pass, Running
<1>2. BatchOK(b) /\ Len(b) = Cardinality(batch)
  BY <1>1, BatchFacts DEF Pass, IInv
<1>3. k \in Nat /\ owner \in Seq(Requests) /\ k = Len(owner)
  BY DEF Pass, IInv, TypeOK
<1>4. Flat(b) \in Seq(Requests) /\ n \in Nat \ {0} /\ n = Len(Flat(b))
  BY <1>2, FlatFacts DEF Pass
<1>5. Consecutive(NewTokens(b), k) /\ NewTokens(b) # <<>>
      /\ Len(NewTokens(b)) = n
  BY <1>2, <1>3, <1>4, NewTokensFacts DEF IInv
<1>6. /\ owner' \in Seq(Requests) /\ Len(owner') = k + n
      /\ \A x \in 1 .. k : owner'[x] = owner[x]
      /\ \A x \in k + 1 .. k + n : owner'[x] = Flat(b)[x - k]
  <2>1. owner' = owner \o Flat(b)
    BY DEF Pass
  <2>2. QED
    BY <1>3, <1>4, <2>1
<1>7. SlotsAt(slots, k)
  BY <1>3 DEF IInv, SlotsOK
<1>8. SlotsAt(slots', k + n)
  <2>1. CASE IsPrefill(b)
    <3>1. slots' = HandlePrefill(slots, NewTokens(b))
      BY <2>1 DEF Pass
    <3>2. QED
      BY <1>3, <1>5, <1>7, <3>1, HandlePrefillFacts
  <2>2. CASE ~ IsPrefill(b)
    <3>1. slots' = HandleDecodeCapture(slots, NewTokens(b))
      BY <2>2 DEF Pass
    <3>2. QED
      BY <1>3, <1>5, <1>7, <3>1, HandleDecodeFacts DEF Captured
  <2>3. QED
    BY <2>1, <2>2
<1>9. QED
  BY <1>1, <1>2, <1>3, <1>4, <1>5, <1>6, <1>7, <1>8

LEMMA TypeStep ==
    ASSUME IInv, Next
    PROVE  TypeOK'
<1> USE DEF IInv, TypeOK
<1>1. ASSUME NEW r \in Requests, Admit(r) \/ Finish(r) \/ ReleaseRequest(r)
      PROVE  TypeOK'
  BY <1>1 DEF Admit, Finish, ReleaseRequest, Statuses
<1>2. ASSUME NEW batch \in SUBSET Running, Forward(batch)
      PROVE  TypeOK'
  <2>1. PICK b, k, n : Pass(batch, b, k, n)
    BY <1>2, ForwardIsPass
  <2>2. batch \subseteq Requests /\ owner' \in Seq(Requests)
    BY <2>1, PassFacts
  <2>3. ASSUME NEW r \in Requests
        PROVE  prompt'[r] \in Nat /\ decodes'[r] \in Nat
    <3>1. /\ prompt[r] \in Nat /\ decodes[r] \in Nat
          /\ Entry(r).n \in Nat \ {0}
          /\ prompt[r] > 0 => Entry(r).n <= prompt[r]
      BY EntryFacts
    <3>2. r \in batch => prompt[r] > 0 \/ decodes[r] > 0
      BY <2>1 DEF Pass, HasWork
    <3>3. /\ prompt'[r] = IF r \in batch /\ prompt[r] > 0
                          THEN prompt[r] - Entry(r).n ELSE prompt[r]
          /\ decodes'[r] = IF r \in batch /\ prompt[r] = 0
                           THEN decodes[r] - 1 ELSE decodes[r]
      BY <2>1 DEF Pass
    <3>4. QED
      BY ONLY <3>1, <3>2, <3>3
  <2>4. prompt' = [r \in Requests |-> prompt'[r]]
        /\ decodes' = [r \in Requests |-> decodes'[r]]
    BY <2>1 DEF Pass
  <2>5. prompt' \in [Requests -> Nat] /\ decodes' \in [Requests -> Nat]
    BY <2>3, <2>4
  <2>6. QED
    BY <2>1, <2>2, <2>5 DEF Pass
<1>3. CASE ResetAll
  BY <1>3 DEF ResetAll, Statuses
<1>4. QED
  BY <1>1, <1>2, <1>3 DEF Next

LEMMA SlotsStep ==
    ASSUME IInv, Next
    PROVE  SlotsOK'
<1>1. Len(owner) \in Nat /\ SlotsAt(slots, Len(owner))
  BY DEF IInv, TypeOK, SlotsOK
<1>2. ASSUME NEW r \in Requests, Admit(r) \/ Finish(r) \/ ReleaseRequest(r)
      PROVE  SlotsOK'
  <2>1. slots' = slots /\ owner' = owner
    BY <1>2, ReleasesNothing DEF Admit, Finish, ReleaseRequest
  <2>2. QED
    BY <1>1, <2>1 DEF SlotsOK
<1>3. ASSUME NEW batch \in SUBSET Running, Forward(batch)
      PROVE  SlotsOK'
  <2>1. PICK b, k, n : Pass(batch, b, k, n)
    BY <1>3, ForwardIsPass
  <2>2. Len(owner') = k + n /\ SlotsAt(slots', k + n)
    BY <2>1, PassFacts
  <2>3. QED
    BY <2>2 DEF SlotsOK
<1>4. CASE ResetAll
  BY <1>1, <1>4, NoSlots DEF ResetAll, SlotsOK
<1>5. QED
  BY <1>2, <1>3, <1>4 DEF Next

LEMMA IInvInit ==
    Init => IInv
<1> SUFFICES ASSUME Init PROVE IInv
  OBVIOUS
<1>1. owner \in Seq(Requests) /\ Len(owner) = 0 /\ SlotsOK
  BY NoSlots DEF Init, SlotsOK
<1>2. TypeOK
  BY <1>1, AdapterAssumption DEF Init, TypeOK, Statuses
<1>3. QED
  BY <1>1, <1>2 DEF IInv

LEMMA IInvNext ==
    IInv /\ [Next]_vars => IInv'
<1> SUFFICES ASSUME IInv, [Next]_vars PROVE IInv'
  OBVIOUS
<1>1. CASE Next
  BY <1>1, TypeStep, SlotsStep DEF IInv
<1>2. CASE UNCHANGED vars
  BY <1>2 DEF vars, IInv, TypeOK, SlotsOK
<1>3. QED
  BY <1>1, <1>2

\* The slots and what they hold stay well-formed, whatever the scheduler does.
THEOREM SlotsAreOK == Spec => []IInv
<1>1. QED
  BY IInvInit, IInvNext, PTL DEF Spec

-----------------------------------------------------------------------------
(* The theorems about the runs' properties.                                *)

\* Each token is captured into one state, once, whatever the scheduler does.
THEOREM CapturedOnceHolds == Spec => []CapturedOnce
<1>1. IInv => CapturedOnce
  <2>1. SUFFICES ASSUME IInv PROVE CapturedOnce
    OBVIOUS
  <2>2. Len(owner) \in Nat /\ SlotsAt(slots, Len(owner))
    BY <2>1 DEF IInv, TypeOK, SlotsOK
  <2>3. ASSUME NEW k \in DOMAIN slots
        PROVE  Cardinality(Attended(slots[k].engine)) = Size(slots[k].engine)
    <3>1. EngineOK(slots[k].engine, Len(owner))
      BY <2>2 DEF SlotsAt, State
    <3>2. QED
      BY <2>2, <3>1, AttendedFacts
  <2>4. QED
    BY <2>2, <2>3 DEF CapturedOnce, SlotsAt, Size
<1>2. QED
  BY <1>1, SlotsAreOK, PTL

\* The newest token of a request of the batch is the last one of its entry.
LEMMA NewestFacts ==
    ASSUME IInv, NEW batch, NEW b, NEW k, NEW n, Pass(batch, b, k, n),
           NEW r \in batch, NEW i, i = EntryAt(b, r),
           NEW u, u = Len(Flat(SubSeq(b, 1, i)))
    PROVE  /\ i \in DOMAIN b /\ b[i] = Entry(r)
           /\ u \in 1 .. n
           /\ k + u - 1 \in Owned(owner', r)
           /\ \A t \in Owned(owner', r) : t <= k + u - 1
<1>1. /\ BatchOK(b) /\ k \in Nat /\ n \in Nat \ {0}
      /\ Len(owner') = k + n /\ batch \subseteq Requests
      /\ \A x \in k + 1 .. k + n : owner'[x] = Flat(b)[x - k]
  BY PassFacts
<1>2. i \in DOMAIN b /\ b[i] = Entry(r) /\ b[i].req = r
  <2>1. /\ TypeOK /\ batch # {}
        /\ b = Batch(batch)
    BY DEF Pass, IInv
  <2>2. i \in DOMAIN b /\ b[i] = Entry(r)
    BY <1>1, <2>1, BatchFacts
  <2>3. Entry(r).req = r
    BY DEF Entry
  <2>4. QED
    BY <2>2, <2>3
<1>3. u \in Int
  <2>1. PICK f : Upto(f, b)
    BY <1>1, UptoExists
  <2>2. i \in 1 .. Len(b) /\ i \in 0 .. Len(b)
    BY <1>1, <1>2 DEF BatchOK
  <2>3. Flat(SubSeq(b, 1, i)) = f[i]
    BY <1>1, <2>1, <2>2, FlatUpto
  <2>4. f[i] \in Seq(Requests)
    BY <2>1, <2>2 DEF Upto
  <2>5. QED
    BY <2>3, <2>4
<1>4. n = Len(Flat(b))
  BY DEF Pass
<1>5. /\ u \in 1 .. n /\ Flat(b)[u] = r
      /\ \A x \in u + 1 .. n : Flat(b)[x] # r
  <2>1. \A j \in DOMAIN b, v \in Int : v = Len(Flat(SubSeq(b, 1, j))) =>
          /\ v \in 1 .. n /\ Flat(b)[v] = b[j].req
          /\ \A x \in v + 1 .. n : Flat(b)[x] # b[j].req
    BY <1>1, <1>4, FlatFacts
  <2>2. QED
    BY <1>2, <1>3, <2>1
<1>6. k + u - 1 \in Owned(owner', r)
  <2>1. /\ k + u - 1 \in 0 .. Len(owner') - 1 /\ (k + u - 1) + 1 = k + u
        /\ k + u \in k + 1 .. k + n /\ (k + u) - k = u
    BY <1>1, <1>5
  <2>2. owner'[(k + u - 1) + 1] = r
    BY <1>1, <1>5, <2>1
  <2>3. QED
    BY <2>1, <2>2 DEF Owned
<1>7. ASSUME NEW t \in Owned(owner', r)
      PROVE  t <= k + u - 1
  <2>1. t \in 0 .. Len(owner') - 1 /\ owner'[t + 1] = r
    BY DEF Owned
  <2>2. SUFFICES ASSUME t > k + u - 1 PROVE FALSE
    BY <1>1, <1>5, <2>1
  <2>3. t + 1 \in k + 1 .. k + n /\ (t + 1) - k \in u + 1 .. n
    BY <1>1, <1>5, <2>1, <2>2
  <2>4. QED
    BY <1>1, <1>5, <2>1, <2>3
<1>8. QED
  BY <1>2, <1>5, <1>6, <1>7

\* Where first batches are prefills, every forward pass captures into the state
\* of the prefill, and a decode finds it.
LEMMA PassInPrefill ==
    ASSUME FirstBatchIsPrefill, IInv, BegunInPrefill,
           NEW batch, NEW b, NEW k, NEW n, Pass(batch, b, k, n)
    PROVE  /\ ~ IsPrefill(b) => Prefill \in DOMAIN slots
           /\ DOMAIN slots' = {Prefill}
           /\ HasData(slots'[Prefill].engine)
           /\ ~ IsPrefill(b) /\ n <= Capacity =>
                k .. k + n - 1 \subseteq Attended(slots'[Prefill].engine)
<1>1. /\ BatchOK(b) /\ k \in Nat /\ SlotsAt(slots, k)
      /\ Consecutive(NewTokens(b), k) /\ NewTokens(b) # <<>>
      /\ Len(NewTokens(b)) = n /\ batch \subseteq Requests
  BY PassFacts
<1>2. DOMAIN slots \subseteq {Prefill}
  BY DEF BegunInPrefill
<1>3. CASE IsPrefill(b)
  <2>1. slots' = HandlePrefill(slots, NewTokens(b))
    BY <1>3 DEF Pass
  <2>2. DOMAIN slots' = DOMAIN slots \cup {Prefill}
        /\ HasData(slots'[Prefill].engine)
    BY <1>1, <2>1, HandlePrefillFacts
  <2>3. QED
    BY <1>2, <1>3, <2>2
<1>4. CASE ~ IsPrefill(b)
  <2>1. Prefill \in DOMAIN slots
    <3>1. PICK r \in batch : HasWork(r)
      BY DEF Pass
    <3>2. r \in Requests /\ status[r] = "running"
      BY DEF Pass, Running
    <3>. TypeOK /\ batch # {} /\ b = Batch(batch)
      BY DEF Pass, IInv
    <3>3. PICK i \in DOMAIN b : b[i] = Entry(r)
      BY <1>1, BatchFacts
    <3>4. ~ (Entry(r).n > 1)
      BY <1>4, <3>3 DEF IsPrefill
    <3>5. workload \in Workloads /\ workload.chunk >= 2
          /\ workload.chunk \in Nat
      BY EntryFacts, <3>2 DEF FirstBatchIsPrefill, IInv, TypeOK
    <3>6. ~ (prompt[r] > 1) /\ prompt[r] \in Nat
      BY <3>2, <3>4, <3>5, EntryFacts DEF IInv
    <3>7. workload.prompt[r] >= 2 /\ workload.prompt[r] \in Nat
      BY <3>1, <3>2, EntryFacts DEF BegunInPrefill, IInv
    <3>8. prompt[r] < workload.prompt[r]
      BY <3>6, <3>7
    <3>9. QED
      BY <3>2, <3>8 DEF BegunInPrefill
  <2>2. slots' = HandleDecodeCapture(slots, NewTokens(b))
    BY <1>4 DEF Pass
  <2>3. Captured(slots, slots', k, n)
    BY <1>1, <2>2, HandleDecodeFacts
  <2>4. QED
    BY <1>2, <2>1, <2>3 DEF Captured
<1>5. QED
  BY <1>3, <1>4

\* What a request of the batch attends to: something, and its newest token if
\* the ring holds a token of each entry.
LEMMA OutputFacts ==
    ASSUME FirstBatchIsPrefill, IInv, BegunInPrefill,
           NEW batch, NEW b, NEW k, NEW n, Pass(batch, b, k, n),
           NEW r \in batch
    PROVE  /\ out'[r] # {}
           /\ ~ IsPrefill(b) => out'[r] = Attended(slots'[Prefill].engine)
           /\ IsPrefill(b) =>
                LET u == Len(Flat(SubSeq(b, 1, EntryAt(b, r))))
                IN  out'[r] = IF NoAlloc THEN k .. k + u - 1
                              ELSE Owned(owner', r)
           /\ IsPrefill(b) \/ n <= Capacity =>
                \E t \in out'[r] \cap Owned(owner', r) :
                    \A v \in Owned(owner', r) : v <= t
<1> DEFINE i == EntryAt(b, r)
           u == Len(Flat(SubSeq(b, 1, i)))
           t == k + u - 1
<1>1. /\ i \in DOMAIN b /\ b[i] = Entry(r)
      /\ u \in 1 .. n /\ t \in Owned(owner', r)
      /\ \A v \in Owned(owner', r) : v <= t
  BY NewestFacts
<1>2. out'[r] = Output(slots', owner', b, i)
  BY DEF Pass
<1>3. /\ k \in Nat /\ n \in Nat /\ k + n \in Nat /\ k = Len(owner)
      /\ SlotsAt(slots', k + n)
  <2>1. k = Len(owner)
    BY DEF Pass
  <2>2. QED
    BY <2>1, PassFacts
<1>4. b[i].req = r
  BY <1>1 DEF Entry
<1> HIDE DEF i
<1>5. CASE IsPrefill(b)
  <2>1. out'[r] = IF NoAlloc THEN k .. k + u - 1 ELSE Owned(owner', r)
    BY <1>2, <1>3, <1>4, <1>5 DEF Output, Causal
  <2> HIDE DEF u
  <2>2. t \in k .. k + u - 1
    BY <1>1, <1>3
  <2>3. t \in out'[r]
    BY <1>1, <2>1, <2>2
  <2>4. QED
    BY <1>1, <1>5, <2>1, <2>3 DEF i, u
<1>6. CASE ~ IsPrefill(b)
  <2>1. DOMAIN slots' = {Prefill} /\ HasData(slots'[Prefill].engine)
        /\ (n <= Capacity =>
              k .. k + n - 1 \subseteq Attended(slots'[Prefill].engine))
    BY <1>6, PassInPrefill
  <2>2. ServingKeys(slots', b) = {Prefill}
    BY <2>1 DEF ServingKeys
  <2>3. UsesTQ(slots', b)
    BY <2>1, <2>2 DEF UsesTQ
  <2>4. out'[r] = UNION {Attended(slots'[j].engine) : j \in {Prefill}}
    BY <1>2, <1>6, <2>2, <2>3 DEF Output
  <2>5. out'[r] = Attended(slots'[Prefill].engine)
    BY <2>4
  <2>6. out'[r] # {}
    <3>1. EngineOK(slots'[Prefill].engine, k + n)
      BY <1>3, <2>1 DEF SlotsAt, State
    <3>2. QED
      BY <1>3, <2>1, <2>5, <3>1, AttendedFacts
  <2> HIDE DEF u
  <2>7. t \in k .. k + n - 1
    BY <1>1, <1>3
  <2>8. QED
    BY <1>1, <1>6, <2>1, <2>5, <2>6, <2>7
<1>7. QED
  BY <1>5, <1>6

LEMMA PassShrinksWork ==
    ASSUME IInv, NEW batch, NEW b, NEW k, NEW n, Pass(batch, b, k, n),
           NEW r \in Requests
    PROVE  /\ prompt'[r] \in Nat /\ decodes'[r] \in Nat
           /\ prompt'[r] <= prompt[r] /\ decodes'[r] <= decodes[r]
           /\ r \notin batch => prompt'[r] = prompt[r] /\ decodes'[r] = decodes[r]
           /\ r \in batch /\ prompt[r] = 0 =>
                prompt'[r] = 0 /\ decodes[r] > 0 /\ decodes'[r] = decodes[r] - 1
           /\ r \in batch /\ prompt[r] > 0 =>
                prompt'[r] = prompt[r] - Entry(r).n /\ decodes'[r] = decodes[r]
           /\ HasWork(r)' => HasWork(r)
<1>1. /\ prompt[r] \in Nat /\ decodes[r] \in Nat
      /\ Entry(r).n \in Nat \ {0}
      /\ prompt[r] > 0 => Entry(r).n <= prompt[r]
  BY EntryFacts DEF IInv
<1>2. r \in batch => prompt[r] > 0 \/ decodes[r] > 0
  BY DEF Pass, HasWork
<1>3. /\ prompt'[r] = IF r \in batch /\ prompt[r] > 0
                      THEN prompt[r] - Entry(r).n ELSE prompt[r]
      /\ decodes'[r] = IF r \in batch /\ prompt[r] = 0
                       THEN decodes[r] - 1 ELSE decodes[r]
  BY DEF Pass
<1>4. QED
  BY <1>1, <1>2, <1>3 DEF HasWork

LEMMA BegunInit ==
    ASSUME FirstBatchIsPrefill, Init
    PROVE  BegunInPrefill
<1>1. DOMAIN slots = {} /\ workload \in Workloads /\ prompt = workload.prompt
      /\ decodes = workload.decodes /\ status = [r \in Requests |-> "waiting"]
  BY NoSlots DEF Init
<1>2. ASSUME NEW r \in Requests
      PROVE  /\ workload.prompt[r] \in Nat /\ workload.decodes[r] \in Nat
             /\ HasWork(r) => workload.prompt[r] >= 2
  <2>1. workload.prompt[r] \in Nat /\ workload.decodes[r] \in Nat
    BY <1>1, AdapterAssumption
  <2>2. QED
    BY <1>1, <2>1 DEF HasWork, FirstBatchIsPrefill
<1>3. QED
  BY <1>1, <1>2 DEF BegunInPrefill

\* A request that runs and has had a batch finds the state of the prefill, if
\* it is aborted when the states are reset.
LEMMA BegunNext ==
    ASSUME FirstBatchIsPrefill, workload.aborts,
           IInv, BegunInPrefill, [Next]_vars
    PROVE  BegunInPrefill'
<1> USE DEF BegunInPrefill
<1>1. ASSUME NEW r \in Requests, Admit(r) \/ Finish(r) \/ ReleaseRequest(r)
      PROVE  BegunInPrefill'
  <2>1. slots' = slots /\ prompt' = prompt /\ decodes' = decodes
        /\ workload' = workload
    BY <1>1, ReleasesNothing DEF Admit, Finish, ReleaseRequest
  <2>2. ASSUME NEW x \in Requests
        PROVE  /\ HasWork(x)' => HasWork(x)
               /\ status'[x] = "waiting" => status[x] = "waiting"
               /\ status'[x] = "running" => \/ status[x] = "running"
                                            \/ status[x] = "waiting"
               /\ prompt[x] \in Nat /\ workload.prompt[x] \in Nat
    BY <1>1, <2>1, EntryFacts
       DEF Admit, Finish, ReleaseRequest, HasWork, IInv, TypeOK
  <2>3. QED
    BY <2>1, <2>2
<1>2. ASSUME NEW batch \in SUBSET Running, Forward(batch)
      PROVE  BegunInPrefill'
  <2>1. PICK b, k, n : Pass(batch, b, k, n)
    BY <1>2, ForwardIsPass
  <2>2. DOMAIN slots' = {Prefill}
    BY <2>1, PassInPrefill
  <2>3. workload' = workload /\ status' = status
    BY <2>1 DEF Pass
  <2>4. ASSUME NEW x \in Requests
        PROVE  /\ prompt'[x] <= workload'.prompt[x]
               /\ HasWork(x)' => workload'.prompt[x] >= 2
               /\ status'[x] = "waiting" => prompt'[x] = workload'.prompt[x]
    <3>1. /\ prompt'[x] \in Nat /\ prompt'[x] <= prompt[x]
          /\ x \notin batch => prompt'[x] = prompt[x]
          /\ HasWork(x)' => HasWork(x)
      BY <2>1, PassShrinksWork
    <3>2. prompt[x] \in Nat /\ workload.prompt[x] \in Nat
      BY EntryFacts DEF IInv
    <3>3. status[x] = "waiting" => x \notin batch
      BY DEF Running
    <3>4. QED
      BY <2>3, <3>1, <3>2, <3>3
  <2>5. QED
    BY <2>2, <2>4
<1>3. CASE ResetAll
  <2>1. DOMAIN slots' = {} /\ prompt' = prompt /\ decodes' = decodes
        /\ workload' = workload
    BY <1>3, NoSlots DEF ResetAll
  <2>2. ASSUME NEW x \in Requests
        PROVE  /\ HasWork(x)' => HasWork(x)
               /\ status'[x] = "waiting" => status[x] = "waiting"
               /\ status'[x] # "running"
    BY <1>3, <2>1 DEF ResetAll, HasWork, Running
  <2>3. QED
    BY <2>1, <2>2
<1>4. CASE UNCHANGED vars
  BY <1>4 DEF vars, HasWork
<1>5. QED
  BY <1>1, <1>2, <1>3, <1>4 DEF Next

\* The workload stays as it is.
LEMMA SameWorkload == [Next]_vars => workload' = workload
BY DEF Next, vars, Admit, Finish, ReleaseRequest, ResetAll, Forward

\* So it is where the requests that run are aborted.
AbortedInPrefill == workload.aborts => BegunInPrefill

LEMMA AbortedNext ==
    ASSUME FirstBatchIsPrefill, IInv, AbortedInPrefill, [Next]_vars
    PROVE  AbortedInPrefill'
BY SameWorkload, BegunNext DEF AbortedInPrefill

\* Where first batches are prefills, every state is the one of the prefill.
THEOREM AlwaysInPrefill ==
    ASSUME FirstBatchIsPrefill
    PROVE  Spec => [](IInv /\ AbortedInPrefill)
<1>1. Init => IInv /\ AbortedInPrefill
  BY IInvInit, BegunInit DEF AbortedInPrefill
<1>2. IInv /\ AbortedInPrefill /\ [Next]_vars => (IInv /\ AbortedInPrefill)'
  BY IInvNext, AbortedNext
<1>3. QED
  BY <1>1, <1>2, PTL DEF Spec

LEMMA AtMostTwo ==
    ASSUME NEW x, NEW y, NEW S
    PROVE  /\ S \subseteq {x} => Cardinality(S) \in 0 .. 1
           /\ S \subseteq {x, y} => Cardinality(S) \in 0 .. 2
<1>1. IsFiniteSet({x}) /\ Cardinality({x}) = 1
  BY FS_Singleton
<1>2. /\ IsFiniteSet({x} \cup {y})
      /\ Cardinality({x} \cup {y}) = IF y \in {x} THEN 1 ELSE 2
  BY <1>1, FS_AddElement
<1>3. ASSUME S \subseteq {x}
      PROVE  Cardinality(S) \in 0 .. 1
  <2>1. IsFiniteSet(S) /\ Cardinality(S) <= Cardinality({x})
    BY <1>1, <1>3, FS_Subset
  <2>2. Cardinality(S) \in Nat
    BY <2>1, FS_CardinalityType
  <2>3. QED
    BY <1>1, <2>1, <2>2
<1>4. ASSUME S \subseteq {x, y}
      PROVE  Cardinality(S) \in 0 .. 2
  <2> DEFINE T == {x} \cup {y}
  <2>1. S \subseteq T /\ IsFiniteSet(T) /\ Cardinality(T) \in 1 .. 2
    BY <1>2, <1>4
  <2> HIDE DEF T
  <2>2. IsFiniteSet(S) /\ Cardinality(S) <= Cardinality(T)
    BY <2>1, FS_Subset
  <2>3. Cardinality(S) \in Nat
    BY <2>2, FS_CardinalityType
  <2>4. QED
    BY <2>1, <2>2, <2>3
<1>5. QED
  BY <1>3, <1>4

\* There are never more than two states per layer, whatever is aborted: two keys
\* are in use, and no request's id is among them.
LEMMA TwoStates ==
    ASSUME MaxNumSeqs >= 2
    PROVE  Spec => [](Cardinality(DOMAIN slots) <= MaxNumSeqs)
<1>1. IInv => Cardinality(DOMAIN slots) <= MaxNumSeqs
  <2>1. SUFFICES ASSUME IInv PROVE Cardinality(DOMAIN slots) <= MaxNumSeqs
    OBVIOUS
  <2>2. DOMAIN slots \subseteq {Prefill, Default}
    BY <2>1 DEF IInv, SlotsOK, SlotsAt
  <2>3. Cardinality(DOMAIN slots) \in 0 .. 2
    BY <2>2, AtMostTwo
  <2>4. QED
    BY <2>3, AdapterAssumption
<1>2. QED
  BY <1>1, SlotsAreOK, PTL

\* There are no more states per layer than max_num_seqs: a single one where
\* first batches are prefills and requests that run are aborted by a reset.
THEOREM SlotsWithinLimitHolds ==
    ASSUME \/ MaxNumSeqs >= 2
           \/ MaxNumSeqs >= 1 /\ FirstBatchIsPrefill
    PROVE  Spec => []SlotsWithinLimit
<1>1. CASE MaxNumSeqs >= 2
  <2>1. Spec => [](Cardinality(DOMAIN slots) <= MaxNumSeqs)
    BY <1>1, TwoStates
  <2>2. Cardinality(DOMAIN slots) <= MaxNumSeqs => SlotsWithinLimit
    BY DEF SlotsWithinLimit
  <2>3. QED
    BY <2>1, <2>2, PTL
<1>2. CASE MaxNumSeqs >= 1 /\ FirstBatchIsPrefill
  <2>1. AbortedInPrefill => SlotsWithinLimit
    <3>1. SUFFICES ASSUME BegunInPrefill
                   PROVE  Cardinality(DOMAIN slots) <= MaxNumSeqs
      BY DEF AbortedInPrefill, SlotsWithinLimit
    <3>2. DOMAIN slots \subseteq {Prefill}
      BY <3>1 DEF BegunInPrefill
    <3>3. Cardinality(DOMAIN slots) \in 0 .. 1
      BY <3>2, AtMostTwo
    <3>4. QED
      BY <1>2, <3>3, AdapterAssumption
  <2>2. Spec => [](IInv /\ AbortedInPrefill)
    BY <1>2, AlwaysInPrefill
  <2>3. QED
    BY <2>1, <2>2, PTL
<1>3. QED
  BY <1>1, <1>2

LEMMA OutNotEmptyNext ==
    ASSUME FirstBatchIsPrefill, IInv, BegunInPrefill, OutNotEmpty, [Next]_vars
    PROVE  OutNotEmpty'
<1>1. ASSUME NEW batch \in SUBSET Running, Forward(batch)
      PROVE  OutNotEmpty'
  <2>1. PICK b, k, n : Pass(batch, b, k, n)
    BY <1>1, ForwardIsPass
  <2>2. \A r \in batch : out'[r] # {}
    BY <2>1, OutputFacts
  <2>3. DOMAIN out' = batch
    BY <2>1 DEF Pass
  <2>4. QED
    BY <2>2, <2>3 DEF OutNotEmpty
<1>2. CASE out' = out
  BY <1>2 DEF OutNotEmpty
<1>3. CASE out' = <<>>
  BY <1>3, NoSlots DEF OutNotEmpty
<1>4. QED
  BY <1>1, <1>2, <1>3
     DEF Next, vars, Admit, Finish, ReleaseRequest, ResetAll

\* Where first batches are prefills and no request runs on after a reset, a
\* forward pass never reads the empty paged cache while there is data: every
\* query attends to something.
THEOREM TQWheneverDataHolds ==
    ASSUME FirstBatchIsPrefill
    PROVE  Spec => []TQWheneverData
<1> DEFINE I == workload.aborts => OutNotEmpty
<1>1. Init => I
  BY NoSlots DEF Init, OutNotEmpty
<1>2. IInv /\ AbortedInPrefill /\ I /\ [Next]_vars => I'
  BY SameWorkload, OutNotEmptyNext DEF AbortedInPrefill
<1>3. I => TQWheneverData
  BY DEF OutNotEmpty, TQWheneverData
<1>4. QED
  BY <1>1, <1>2, <1>3, AlwaysInPrefill, PTL DEF Spec

\* No more requests run than the scheduler may run at a time.
BatchBound == Cardinality(Running) <= workload.batch

LEMMA BatchBoundNext ==
    ASSUME IInv, BatchBound, [Next]_vars
    PROVE  BatchBound'
<1>1. /\ IsFiniteSet(Running) /\ Cardinality(Running) \in Nat
      /\ status \in [Requests -> Statuses]
      /\ workload.batch \in Nat
  BY AdapterAssumption, FS_Subset, FS_CardinalityType
     DEF Running, IInv, TypeOK
<1>2. ASSUME NEW r \in Requests, Admit(r)
      PROVE  BatchBound'
  <2>1. Running' = Running \cup {r} /\ r \notin Running
    BY <1>1, <1>2 DEF Admit, Running
  <2>2. Cardinality(Running') = Cardinality(Running) + 1
    BY <1>1, <2>1, FS_AddElement
  <2>3. workload' = workload /\ Cardinality(Running) < workload.batch
    BY <1>2 DEF Admit
  <2>4. QED
    BY <1>1, <2>2, <2>3 DEF BatchBound
<1>3. ASSUME Running' \subseteq Running, workload' = workload
      PROVE  BatchBound'
  <2>1. Cardinality(Running') <= Cardinality(Running)
        /\ Cardinality(Running') \in Nat
    BY <1>1, <1>3, FS_Subset, FS_CardinalityType
  <2>2. QED
    BY <1>1, <1>3, <2>1 DEF BatchBound
<1>4. ASSUME NEW r \in Requests, Finish(r) \/ ReleaseRequest(r)
      PROVE  Running' \subseteq Running /\ workload' = workload
  BY <1>1, <1>4 DEF Finish, ReleaseRequest, Running
<1>5. ASSUME NEW batch \in SUBSET Running, Forward(batch)
      PROVE  Running' \subseteq Running /\ workload' = workload
  BY <1>5 DEF Forward, Running
<1>6. CASE ResetAll
  BY <1>3, <1>6 DEF ResetAll, Running
<1>7. CASE UNCHANGED vars
  BY <1>3, <1>7 DEF vars, Running
<1>8. QED
  BY <1>2, <1>3, <1>4, <1>5, <1>6, <1>7 DEF Next

LEMMA AttendsItselfNext ==
    ASSUME FirstBatchIsPrefill, RingHoldsABatch,
           workload.aborts,
           IInv, BegunInPrefill, BatchBound, AttendsItself, [Next]_vars
    PROVE  AttendsItself'
<1>1. ASSUME NEW batch \in SUBSET Running, Forward(batch)
      PROVE  AttendsItself'
  <2>1. PICK b, k, n : Pass(batch, b, k, n)
    BY <1>1, ForwardIsPass
  <2>2. IsPrefill(b) \/ n <= Capacity
    <3>1. SUFFICES ASSUME ~ IsPrefill(b) PROVE n <= Capacity
      OBVIOUS
    <3>2. n = Cardinality(batch) /\ n \in Nat
      <4>1. BatchOK(b) /\ Len(b) = Cardinality(batch) /\ n \in Nat
        BY <2>1, PassFacts
      <4>2. n = Len(Flat(b))
        BY <2>1 DEF Pass
      <4>3. QED
        BY <3>1, <4>1, <4>2, FlatFacts
    <3>3. IsFiniteSet(Running) /\ Cardinality(Running) \in Nat
      BY AdapterAssumption, FS_Subset, FS_CardinalityType DEF Running
    <3>4. Cardinality(batch) <= Cardinality(Running)
      BY <3>3, FS_Subset
    <3>5. workload.batch \in Nat /\ workload.batch <= Capacity
      BY AdapterAssumption DEF IInv, TypeOK, RingHoldsABatch
    <3>6. QED
      BY <3>2, <3>3, <3>4, <3>5, CapacityAssumption DEF BatchBound
  <2>3. \A r \in batch :
          \E t \in out'[r] \cap Owned(owner', r) :
              \A u \in Owned(owner', r) : u <= t
    BY <2>1, <2>2, OutputFacts
  <2>4. DOMAIN out' = batch
    BY <2>1 DEF Pass
  <2>5. QED
    BY <2>3, <2>4 DEF AttendsItself
<1>2. CASE out' = out /\ owner' = owner
  BY <1>2, SameWorkload DEF AttendsItself
<1>3. CASE out' = <<>>
  BY <1>3, NoSlots DEF AttendsItself
<1>4. QED
  BY <1>1, <1>2, <1>3
     DEF Next, vars, Admit, Finish, ReleaseRequest, ResetAll

\* Where first batches are prefills, the ring buffer holds a token of each request
\* of a batch and no request runs on after a reset, every query attends to its own token, although the
\* requests of a batch share one state and write over each other's tokens.
THEOREM AttendsItselfHolds ==
    ASSUME FirstBatchIsPrefill, RingHoldsABatch
    PROVE  Spec => []AttendsItself
<1> DEFINE J == IInv /\ AbortedInPrefill /\ BatchBound /\ AttendsItself
<1>1. Init => BatchBound /\ AttendsItself
  <2>1. SUFFICES ASSUME Init PROVE BatchBound /\ AttendsItself
    OBVIOUS
  <2>2. Running = {} /\ DOMAIN out = {} /\ workload.batch \in Nat
    BY <2>1, NoSlots, AdapterAssumption DEF Init, Running
  <2>3. QED
    BY <2>2, FS_EmptySet DEF BatchBound, AttendsItself
<1>2. Init => J
  BY <1>1, IInvInit, BegunInit DEF AbortedInPrefill
<1>3. J /\ [Next]_vars => J'
  <2>1. SUFFICES ASSUME J, [Next]_vars PROVE J'
    OBVIOUS
  <2>2. IInv' /\ AbortedInPrefill' /\ BatchBound'
    BY <2>1, IInvNext, AbortedNext, BatchBoundNext
  <2>3. AttendsItself'
    <3>1. CASE workload.aborts
      BY <2>1, <3>1, AttendsItselfNext DEF AbortedInPrefill
    <3>2. CASE ~ workload.aborts
      BY <2>1, <3>2, SameWorkload DEF AttendsItself
    <3>3. QED
      BY <3>1, <3>2
  <2>4. QED
    BY <2>2, <2>3
<1>4. QED
  BY <1>2, <1>3, PTL DEF Spec

-----------------------------------------------------------------------------
(* Requests one after the other.                                           *)

\* The counters are what the states hold.
Counted == \A k \in DOMAIN slots : slots[k].num_tokens = Size(slots[k].engine)

\* Each query attends to its request's tokens.
OutIsOwn == \A r \in DOMAIN out : out[r] = Owned(owner, r)

\* A batch of one request: its new tokens are the request's, and nobody else's.
LEMMA SingleBatch ==
    ASSUME IInv, NEW r \in Requests, NEW b, NEW k, NEW n, Pass({r}, b, k, n)
    PROVE  /\ n = Entry(r).n
           /\ IsPrefill(b) <=> n > 1
           /\ Owned(owner', r) = Owned(owner, r) \cup (k .. k + n - 1)
           /\ \A x \in Requests : x # r => Owned(owner', x) = Owned(owner, x)
<1>1. /\ BatchOK(b) /\ k \in Nat /\ n \in Nat \ {0} /\ Len(b) = Cardinality({r})
      /\ Len(owner') = k + n
      /\ \A x \in 1 .. k : owner'[x] = owner[x]
      /\ \A x \in k + 1 .. k + n : owner'[x] = Flat(b)[x - k]
  BY PassFacts
<1>2. Len(b) = 1 /\ DOMAIN b = {1}
  <2>1. Cardinality({r}) = 1
    BY FS_Singleton
  <2>2. DOMAIN b = 1 .. Len(b)
    BY <1>1 DEF BatchOK
  <2>3. Len(b) = 1
    BY ONLY <1>1, <2>1
  <2>4. QED
    BY ONLY <2>2, <2>3
<1>3. b[1] = Entry(r) /\ b[1].req = r
  <2>1. TypeOK /\ {r} # {} /\ b = Batch({r}) /\ {r} \subseteq Requests
    BY DEF Pass, IInv
  <2>2. EntryAt(b, r) \in DOMAIN b /\ b[EntryAt(b, r)] = Entry(r)
    BY <2>1, BatchFacts
  <2>3. QED
    BY <1>2, <2>2 DEF Entry
<1>4. n = b[1].n /\ \A x \in 1 .. n : Flat(b)[x] = r
  <2>1. n = Len(Flat(b))
    BY DEF Pass
  <2>2. QED
    BY <1>1, <1>2, <1>3, <2>1, FlatFacts
<1>5. IsPrefill(b) <=> n > 1
  BY <1>2, <1>4 DEF IsPrefill
<1>6. k = Len(owner)
  BY DEF Pass
<1>7. \A x \in k + 1 .. k + n : owner'[x] = r
  <2>1. ASSUME NEW x \in k + 1 .. k + n
        PROVE  x - k \in 1 .. n
    BY <1>1
  <2>2. QED
    BY <1>1, <1>4, <2>1
<1>8. ASSUME NEW x \in Requests, NEW t \in Int
      PROVE  t \in Owned(owner', x) <=>
               \/ t \in Owned(owner, x)
               \/ x = r /\ t \in k .. k + n - 1
  <2>1. CASE t \in 0 .. k - 1
    <3>1. t + 1 \in 1 .. k /\ t \in 0 .. (k + n) - 1 /\ t \notin k .. k + n - 1
      BY <1>1, <2>1
    <3>2. QED
      BY <1>1, <1>6, <2>1, <3>1 DEF Owned
  <2>2. CASE t \in k .. k + n - 1
    <3>1. t + 1 \in k + 1 .. k + n /\ t \in 0 .. (k + n) - 1 /\ t \notin 0 .. k - 1
      BY <1>1, <2>2
    <3>2. QED
      BY <1>1, <1>6, <1>7, <2>2, <3>1 DEF Owned
  <2>3. CASE t \notin 0 .. k - 1 /\ t \notin k .. k + n - 1
    <3>1. t \notin 0 .. (k + n) - 1
      BY <1>1, <2>3
    <3>2. QED
      BY <1>1, <1>6, <2>3, <3>1 DEF Owned
  <2>4. QED
    BY <2>1, <2>2, <2>3
<1>9. \A x \in Requests : Owned(owner, x) \subseteq Int
                          /\ Owned(owner', x) \subseteq Int
  BY <1>1, <1>6 DEF Owned
<1>10. Owned(owner', r) = Owned(owner, r) \cup (k .. k + n - 1)
  BY <1>1, <1>8, <1>9
<1>11. ASSUME NEW x \in Requests, x # r
       PROVE  Owned(owner', x) = Owned(owner, x)
  BY <1>8, <1>9, <1>11
<1>12. QED
  BY <1>3, <1>4, <1>5, <1>10, <1>11

\* The batch with the prompt of a request: the state is cleared, or there is
\* none, and then has the prompt.
LEMMA PromptPass ==
    ASSUME FirstBatchIsPrefill, SequentialRequestsFit,
           IInv, BegunInPrefill, OneAfterTheOther, OneByOne,
           NEW r \in Requests, NEW b, NEW k, NEW n, Pass({r}, b, k, n),
           prompt[r] > 0
    PROVE  /\ prompt'[r] = 0
           /\ decodes'[r] = decodes[r] /\ decodes[r] = workload.decodes[r]
           /\ DOMAIN slots' = {Prefill} /\ ~ slots'[Prefill].entered_decode
           /\ Attended(slots'[Prefill].engine) = Owned(owner', r)
           /\ Size(slots'[Prefill].engine) = workload.prompt[r]
           /\ slots'[Prefill].num_tokens = workload.prompt[r]
           /\ out'[r] = Owned(owner', r)
<1>1. /\ n = Entry(r).n
      /\ IsPrefill(b) <=> n > 1
      /\ Owned(owner', r) = Owned(owner, r) \cup (k .. k + n - 1)
  BY SingleBatch
<1>2. status[r] = "running" /\ HasWork(r)
  BY DEF Pass, Running
<1>3. /\ prompt[r] = workload.prompt[r] /\ workload.prompt[r] >= 2
      /\ Owned(owner, r) = {} /\ decodes[r] = workload.decodes[r]
      /\ workload.decodes[r] \in Nat /\ prompt[r] \in Nat
  BY <1>2, EntryFacts DEF OneByOne, RequestOK, IInv
<1>4. n = prompt[r] /\ n > 1 /\ n \in Nat
  <2>1. prompt[r] <= workload.chunk
    BY <1>3 DEF OneAfterTheOther
  <2>2. QED
    BY <1>1, <1>3, <2>1, EntryFacts DEF IInv
<1>5. IsPrefill(b)
  BY <1>1, <1>4
<1>6. Prefill \in DOMAIN slots => slots[Prefill].entered_decode
  <2>1. ASSUME NEW x \in Requests, Begun(x)
        PROVE  FALSE
    <3>1. x \in Running /\ r \in Running
      BY <1>2, <2>1 DEF Begun, Running
    <3>2. x = r
      BY <3>1 DEF OneByOne
    <3>3. QED
      BY <1>3, <2>1, <3>2 DEF Begun
  <2>2. QED
    BY <2>1 DEF OneByOne
<1>7. n <= MaxTokens + Capacity
  <2>1. workload \in Workloads
    BY DEF IInv, TypeOK
  <2>2. workload.prompt[r] + workload.decodes[r] <= MaxTokens + Capacity
    BY <1>3, <2>1 DEF SequentialRequestsFit, OneAfterTheOther
  <2>3. QED
    BY <1>3, <1>4, <2>2, CapacityAssumption, MaxTokensAssumption
<1>8. /\ k \in Nat /\ SlotsAt(slots, k) /\ Consecutive(NewTokens(b), k)
      /\ NewTokens(b) # <<>> /\ Len(NewTokens(b)) = n
      /\ slots' = HandlePrefill(slots, NewTokens(b))
  <2>1. slots' = HandlePrefill(slots, NewTokens(b))
    BY <1>5 DEF Pass
  <2>2. QED
    BY <2>1, PassFacts
<1>9. /\ DOMAIN slots' = DOMAIN slots \cup {Prefill}
      /\ ~ slots'[Prefill].entered_decode
      /\ slots'[Prefill].num_tokens = n
      /\ Attended(slots'[Prefill].engine) = k .. k + n - 1
      /\ Size(slots'[Prefill].engine) = n
  BY <1>6, <1>7, <1>8, HandlePrefillFacts
<1>10. DOMAIN slots' = {Prefill}
  BY <1>9 DEF BegunInPrefill
<1>11. Owned(owner', r) = k .. k + n - 1
  BY <1>1, <1>3
<1>12. out'[r] = Owned(owner', r)
  <2> DEFINE u == Len(Flat(SubSeq(b, 1, EntryAt(b, r))))
  <2>1. out'[r] = IF NoAlloc THEN k .. k + u - 1 ELSE Owned(owner', r)
    BY <1>5, OutputFacts
  <2>2. u \in 1 .. n /\ \A t \in Owned(owner', r) : t <= k + u - 1
    BY NewestFacts
  <2> HIDE DEF u
  <2>3. k + n - 1 \in Owned(owner', r)
    BY <1>4, <1>8, <1>11
  <2>4. u = n
    BY <1>4, <1>8, <2>2, <2>3
  <2>5. QED
    BY <1>11, <2>1, <2>4
<1>13. prompt'[r] = 0 /\ decodes'[r] = decodes[r]
  <2>1. r \in {r}
    OBVIOUS
  <2>2. prompt'[r] = prompt[r] - Entry(r).n /\ decodes'[r] = decodes[r]
    BY <2>1, PassShrinksWork
  <2>3. Entry(r).n = prompt[r] /\ prompt[r] \in Nat
    BY <1>1, <1>4
  <2>4. QED
    BY ONLY <2>2, <2>3
<1>14. QED
  BY <1>3, <1>4, <1>9, <1>10, <1>11, <1>12, <1>13

\* A decode step of a request adds its token to the state.
LEMMA DecodePass ==
    ASSUME FirstBatchIsPrefill, SequentialRequestsFit,
           IInv, BegunInPrefill, OneAfterTheOther, OneByOne, Counted,
           NEW r \in Requests, NEW b, NEW k, NEW n, Pass({r}, b, k, n),
           prompt[r] = 0
    PROVE  /\ prompt'[r] = 0
           /\ decodes'[r] = decodes[r] - 1 /\ decodes[r] > 0
           /\ DOMAIN slots' = {Prefill} /\ slots'[Prefill].entered_decode
           /\ Attended(slots'[Prefill].engine) = Owned(owner', r)
           /\ Size(slots'[Prefill].engine)
                = workload.prompt[r] + (workload.decodes[r] - decodes[r]) + 1
           /\ slots'[Prefill].num_tokens = Size(slots'[Prefill].engine)
           /\ out'[r] = Owned(owner', r)
<1>1. /\ n = Entry(r).n
      /\ IsPrefill(b) <=> n > 1
      /\ Owned(owner', r) = Owned(owner, r) \cup (k .. k + n - 1)
  BY SingleBatch
<1>2. status[r] = "running" /\ HasWork(r)
  BY DEF Pass, Running
<1>3. n = 1 /\ ~ IsPrefill(b)
  BY <1>1, EntryFacts DEF IInv
<1>4. OwnState(r) /\ workload.prompt[r] >= 2
      /\ decodes[r] <= workload.decodes[r]
  BY <1>2 DEF OneByOne, RequestOK, Begun
<1>5. prompt'[r] = 0 /\ decodes[r] > 0 /\ decodes'[r] = decodes[r] - 1
  BY PassShrinksWork
<1>6. workload.prompt[r] \in Nat /\ workload.decodes[r] \in Nat
      /\ decodes[r] \in Nat
  BY EntryFacts DEF IInv
<1> DEFINE e == slots[Prefill].engine
<1>7. /\ Prefill \in DOMAIN slots /\ Attended(e) = Owned(owner, r)
      /\ Size(e) = workload.prompt[r] + (workload.decodes[r] - decodes[r])
      /\ slots[Prefill].num_tokens = Size(e)
  BY <1>4 DEF OwnState, Counted
<1>8. Size(e) + 1 <= MaxTokens + Capacity
  <2>1. workload \in Workloads
    BY DEF IInv, TypeOK
  <2>2. workload.prompt[r] + workload.decodes[r] <= MaxTokens + Capacity
    BY <1>4, <1>6, <2>1 DEF SequentialRequestsFit, OneAfterTheOther
  <2>3. QED
    BY <1>5, <1>6, <1>7, <2>2, CapacityAssumption, MaxTokensAssumption
<1>9. /\ k \in Nat /\ SlotsAt(slots, k) /\ Consecutive(NewTokens(b), k)
      /\ NewTokens(b) # <<>> /\ Len(NewTokens(b)) = n
      /\ slots' = HandleDecodeCapture(slots, NewTokens(b))
  <2>1. slots' = HandleDecodeCapture(slots, NewTokens(b))
    BY <1>3 DEF Pass
  <2>2. QED
    BY <2>1, PassFacts
<1>10. Captured(slots, slots', k, n)
  BY <1>9, HandleDecodeFacts
<1>11. GetOrCreate(slots, Prefill) = slots[Prefill]
  BY <1>7 DEF GetOrCreate
<1>12. /\ DOMAIN slots' = DOMAIN slots \cup {Prefill}
       /\ slots'[Prefill].entered_decode
       /\ slots'[Prefill].num_tokens = slots[Prefill].num_tokens + n
       /\ Attended(slots'[Prefill].engine) = Attended(e) \cup (k .. k + n - 1)
       /\ Size(slots'[Prefill].engine) = Size(e) + n
  BY <1>3, <1>7, <1>8, <1>10, <1>11 DEF Captured
<1>13. out'[r] = Attended(slots'[Prefill].engine)
  BY <1>3, OutputFacts
<1>14. DOMAIN slots' = {Prefill}
  BY <1>12 DEF BegunInPrefill
<1>15. QED
  BY <1>1, <1>3, <1>5, <1>7, <1>12, <1>13, <1>14

\* The batches are of the one request that runs.
LEMMA OneInBatch ==
    ASSUME IInv, OneByOne, NEW batch, NEW b, NEW k, NEW n, Pass(batch, b, k, n)
    PROVE  \E r \in Requests : r \in Running /\ batch = {r} /\ HasWork(r)
<1>1. PICK r \in batch : HasWork(r)
  BY DEF Pass
<1>2. batch \subseteq Running /\ Running \subseteq Requests
  BY DEF Pass, Running
<1>3. \A x \in batch : x = r
  BY <1>2 DEF OneByOne
<1>4. batch = {r}
  BY <1>3
<1>5. QED
  BY <1>1, <1>2, <1>4

LEMMA SequentialForward ==
    ASSUME FirstBatchIsPrefill, SequentialRequestsFit,
           IInv, BegunInPrefill, OneAfterTheOther, OneByOne, Counted,
           NEW batch \in SUBSET Running, Forward(batch)
    PROVE  OneByOne' /\ Counted' /\ OutIsOwn'
<1>1. PICK b, k, n : Pass(batch, b, k, n)
  BY ForwardIsPass
<1>2. PICK r \in Requests : r \in Running /\ batch = {r} /\ HasWork(r)
  BY <1>1, OneInBatch
<1>3. Pass({r}, b, k, n)
  BY <1>1, <1>2
<1>4. /\ workload' = workload /\ status' = status /\ DOMAIN out' = {r}
      /\ status[r] = "running"
  BY <1>2, <1>3 DEF Pass, Running
<1>5. /\ prompt[r] \in Nat /\ decodes[r] \in Nat
      /\ workload.prompt[r] \in Nat /\ workload.decodes[r] \in Nat
      /\ workload.prompt[r] >= 2 /\ decodes[r] <= workload.decodes[r]
  BY <1>4, EntryFacts DEF OneByOne, RequestOK, IInv
<1>6. /\ DOMAIN slots' = {Prefill}
      /\ prompt'[r] = 0
      /\ decodes'[r] <= workload.decodes[r]
      /\ OwnState(r)'
      /\ slots'[Prefill].num_tokens = Size(slots'[Prefill].engine)
      /\ out'[r] = Owned(owner', r)
  <2>1. CASE prompt[r] > 0
    <3>1. /\ prompt'[r] = 0
          /\ decodes'[r] = decodes[r] /\ decodes[r] = workload.decodes[r]
          /\ DOMAIN slots' = {Prefill} /\ ~ slots'[Prefill].entered_decode
          /\ Attended(slots'[Prefill].engine) = Owned(owner', r)
          /\ Size(slots'[Prefill].engine) = workload.prompt[r]
          /\ slots'[Prefill].num_tokens = workload.prompt[r]
          /\ out'[r] = Owned(owner', r)
      BY <1>3, <2>1, PromptPass
    <3>2. OwnState(r)'
      BY <1>4, <1>5, <3>1 DEF OwnState
    <3>3. QED
      BY <1>5, <3>1, <3>2
  <2>2. CASE prompt[r] = 0
    <3>1. /\ prompt'[r] = 0
          /\ decodes'[r] = decodes[r] - 1 /\ decodes[r] > 0
          /\ DOMAIN slots' = {Prefill} /\ slots'[Prefill].entered_decode
          /\ Attended(slots'[Prefill].engine) = Owned(owner', r)
          /\ Size(slots'[Prefill].engine)
               = workload.prompt[r] + (workload.decodes[r] - decodes[r]) + 1
          /\ slots'[Prefill].num_tokens = Size(slots'[Prefill].engine)
          /\ out'[r] = Owned(owner', r)
      BY <1>3, <2>2, DecodePass
    <3>2. /\ workload.prompt[r] + (workload.decodes[r] - decodes[r]) + 1
               = workload.prompt[r] + (workload.decodes[r] - decodes'[r])
          /\ decodes'[r] < workload.decodes[r]
      BY <1>5, <3>1
    <3>3. OwnState(r)'
      BY <1>4, <3>1, <3>2 DEF OwnState
    <3>4. QED
      BY <1>5, <3>1, <3>2, <3>3
  <2>3. QED
    BY <1>5, <2>1, <2>2
<1>7. Running' = Running
  BY <1>4 DEF Running
<1>8. RequestOK(r)'
  BY <1>4, <1>5, <1>6 DEF RequestOK, Begun
<1>9. ASSUME NEW x \in Requests, x # r
      PROVE  RequestOK(x)'
  <2>1. x \notin Running
    BY <1>2, <1>9 DEF OneByOne
  <2>2. status[x] # "running"
    BY <2>1 DEF Running
  <2>3. prompt'[x] = prompt[x] /\ decodes'[x] = decodes[x]
    BY <1>3, <1>9, PassShrinksWork
  <2>4. Owned(owner', x) = Owned(owner, x)
    BY <1>3, <1>9, SingleBatch
  <2>5. RequestOK(x)
    BY DEF OneByOne
  <2>6. QED
    BY <1>4, <2>2, <2>3, <2>4, <2>5 DEF RequestOK, Begun
<1>10. Begun(r)'
  BY <1>4, <1>6 DEF Begun
<1>11. OneByOne'
  BY <1>7, <1>8, <1>9, <1>10 DEF OneByOne
<1>12. Counted'
  BY <1>6 DEF Counted
<1>13. OutIsOwn'
  BY <1>4, <1>6 DEF OutIsOwn
<1>14. QED
  BY <1>11, <1>12, <1>13

LEMMA SequentialScheduler ==
    ASSUME FirstBatchIsPrefill, SequentialRequestsFit,
           IInv, BegunInPrefill, BatchBound, OneAfterTheOther, OneByOne,
           NEW r \in Requests, Admit(r) \/ Finish(r) \/ ReleaseRequest(r)
    PROVE  OneByOne'
<1>1. /\ slots' = slots /\ prompt' = prompt /\ decodes' = decodes
      /\ workload' = workload /\ owner' = owner
  BY ReleasesNothing DEF Admit, Finish, ReleaseRequest
<1>2. /\ prompt[r] \in Nat /\ decodes[r] \in Nat
      /\ workload.prompt[r] \in Nat /\ workload.decodes[r] \in Nat
      /\ status \in [Requests -> Statuses] /\ workload \in Workloads
  BY EntryFacts DEF IInv, TypeOK
<1>3. CASE Admit(r)
  <2>1. /\ status[r] = "waiting" /\ HasWork(r)
        /\ status' = [status EXCEPT ![r] = "running"]
        /\ Cardinality(Running) < 1
    BY <1>3 DEF Admit, OneAfterTheOther
  <2>2. Running = {}
    <3>1. IsFiniteSet(Running) /\ Cardinality(Running) \in Nat
      BY AdapterAssumption, FS_Subset, FS_CardinalityType DEF Running
    <3>2. Cardinality(Running) = 0
      BY <2>1, <3>1
    <3>3. QED
      BY <3>1, <3>2, FS_EmptySet
  <2>3. Running' = {r}
    BY <1>2, <2>1, <2>2 DEF Running
  <2>4. \A x \in Requests : status[x] # "running" /\ ~ Begun(x)
    BY <2>2 DEF Running, Begun
  <2>5. prompt[r] = workload.prompt[r] /\ workload.prompt[r] >= 2
    BY <2>1 DEF OneByOne, RequestOK, BegunInPrefill
  <2>6. ASSUME NEW x \in Requests
        PROVE  RequestOK(x)' /\ ~ Begun(x)'
    <3>1. RequestOK(x)
      BY DEF OneByOne
    <3>2. CASE x = r
      <4>1. status'[x] = "running" /\ prompt[x] > 0
        BY <1>2, <2>1, <2>5, <3>2
      <4>2. QED
        BY <1>1, <2>5, <3>1, <3>2, <4>1 DEF RequestOK, Begun
    <3>3. CASE x # r
      <4>1. status'[x] = status[x]
        BY <1>2, <2>1, <3>3
      <4>2. QED
        BY <1>1, <2>4, <3>1, <4>1 DEF RequestOK, Begun
    <3>4. QED
      BY <3>2, <3>3
  <2>7. ~ (Prefill \in DOMAIN slots /\ ~ slots[Prefill].entered_decode)
    BY <2>4 DEF OneByOne
  <2>8. QED
    BY <1>1, <2>3, <2>6, <2>7 DEF OneByOne
<1>4. CASE Finish(r) \/ ReleaseRequest(r)
  <2>1. /\ status' \in [Requests -> Statuses]
        /\ status'[r] \in {"done", "released"}
        /\ \A x \in Requests : x # r => status'[x] = status[x]
    BY <1>2, <1>4 DEF Finish, ReleaseRequest, Statuses
  <2>2. Running' \subseteq Running
    BY <2>1 DEF Running
  <2>3. ASSUME NEW x \in Requests
        PROVE  RequestOK(x)' /\ (Begun(x)' => Begun(x))
    <3>1. RequestOK(x)
      BY DEF OneByOne
    <3>2. CASE x = r
      BY <1>1, <2>1, <3>1, <3>2 DEF RequestOK, Begun
    <3>3. CASE x # r
      <4>1. Begun(x)' <=> Begun(x)
        BY <1>1, <2>1, <3>3 DEF Begun
      <4>2. OwnState(x)' <=> OwnState(x)
        BY <1>1 DEF OwnState
      <4>3. QED
        BY <1>1, <2>1, <3>1, <3>3, <4>1, <4>2 DEF RequestOK
    <3>4. QED
      BY <3>2, <3>3
  <2>4. ASSUME Prefill \in DOMAIN slots, ~ slots[Prefill].entered_decode
        PROVE  \E x \in Requests : Begun(x)'
    <3>1. PICK x \in Requests : Begun(x)
      BY <2>4 DEF OneByOne
    <3>2. CASE x # r
      BY <1>1, <2>1, <3>1, <3>2 DEF Begun
    <3>3. CASE x = r /\ ReleaseRequest(r)
      BY <3>1, <3>3 DEF Begun, ReleaseRequest
    <3>4. CASE x = r /\ Finish(r)
      <4>1. ~ HasWork(r) /\ status[r] = "running"
        BY <3>4 DEF Finish
      <4>2. OwnState(r) /\ workload.prompt[r] >= 2
        BY <3>1, <3>4, <4>1 DEF OneByOne, RequestOK
      <4>3. workload.decodes[r] > 0
        BY <1>2, <4>2 DEF SequentialRequestsFit, OneAfterTheOther
      <4>4. decodes[r] = 0
        BY <1>2, <4>1 DEF HasWork
      <4>5. QED
        BY <2>4, <4>2, <4>3, <4>4 DEF OwnState
    <3>5. QED
      BY <1>4, <3>2, <3>3, <3>4
  <2>5. QED
    BY <1>1, <2>2, <2>3, <2>4 DEF OneByOne
<1>5. QED
  BY <1>3, <1>4

\* The inductive invariant of the requests one after the other.
OneAfterTheOtherInv ==
    /\ IInv /\ AbortedInPrefill /\ BatchBound
    /\ OneAfterTheOther => OneByOne /\ Counted /\ OutIsOwn

LEMMA SequentialNext ==
    ASSUME FirstBatchIsPrefill, SequentialRequestsFit,
           OneAfterTheOtherInv, [Next]_vars
    PROVE  OneAfterTheOtherInv'
<1>1. IInv' /\ AbortedInPrefill' /\ BatchBound'
  BY IInvNext, AbortedNext, BatchBoundNext DEF OneAfterTheOtherInv
<1>2. workload' = workload
  BY SameWorkload
<1>3. SUFFICES ASSUME OneAfterTheOther'
               PROVE  OneByOne' /\ Counted' /\ OutIsOwn'
  BY <1>1 DEF OneAfterTheOtherInv
<1>4. /\ OneAfterTheOther /\ workload.aborts
      /\ OneByOne /\ Counted /\ OutIsOwn
  BY <1>2, <1>3 DEF OneAfterTheOther, OneAfterTheOtherInv
<1>5. IInv /\ BegunInPrefill /\ BatchBound
  BY <1>4 DEF OneAfterTheOtherInv, AbortedInPrefill
<1>6. ASSUME NEW r \in Requests, Admit(r) \/ Finish(r) \/ ReleaseRequest(r)
      PROVE  OneByOne' /\ Counted' /\ OutIsOwn'
  <2>1. slots' = slots /\ owner' = owner /\ (out' = out \/ out' = <<>>)
    BY <1>5, <1>6, ReleasesNothing DEF Admit, Finish, ReleaseRequest
  <2>2. OneByOne'
    BY <1>4, <1>5, <1>6, SequentialScheduler
  <2>3. QED
    BY <1>4, <2>1, <2>2, NoSlots DEF Counted, OutIsOwn
<1>7. ASSUME NEW batch \in SUBSET Running, Forward(batch)
      PROVE  OneByOne' /\ Counted' /\ OutIsOwn'
  BY <1>4, <1>5, <1>7, SequentialForward
<1>8. CASE ResetAll
  <2>1. /\ DOMAIN slots' = {} /\ DOMAIN out' = {}
        /\ prompt' = prompt /\ decodes' = decodes /\ owner' = owner
    BY <1>8, NoSlots DEF ResetAll
  <2>2. ASSUME NEW x \in Requests
        PROVE  /\ status'[x] # "running"
               /\ status'[x] = "waiting" => status[x] = "waiting"
    BY <1>4, <1>8 DEF ResetAll, Running
  <2>3. Running' = {}
    BY <2>2 DEF Running
  <2>4. ASSUME NEW x \in Requests
        PROVE  RequestOK(x)'
    <3>1. RequestOK(x)
      BY <1>4 DEF OneByOne
    <3>2. QED
      BY <1>2, <2>1, <2>2, <3>1 DEF RequestOK, Begun
  <2>5. QED
    BY <2>1, <2>3, <2>4 DEF OneByOne, Counted, OutIsOwn
<1>9. CASE UNCHANGED vars
  BY <1>4, <1>9
     DEF vars, OneByOne, RequestOK, Begun, OwnState, Running, Counted, OutIsOwn
<1>10. QED
  BY <1>6, <1>7, <1>8, <1>9 DEF Next

LEMMA SequentialInit ==
    ASSUME FirstBatchIsPrefill, Init
    PROVE  OneAfterTheOtherInv
<1>1. /\ workload \in Workloads /\ prompt = workload.prompt
      /\ decodes = workload.decodes /\ status = [r \in Requests |-> "waiting"]
      /\ DOMAIN slots = {} /\ DOMAIN out = {} /\ owner = <<>>
  BY NoSlots DEF Init
<1>2. Running = {} /\ workload.batch \in Nat
  BY <1>1, AdapterAssumption DEF Running
<1>3. BatchBound
  BY <1>2, FS_EmptySet DEF BatchBound
<1>4. ASSUME NEW r \in Requests
      PROVE  RequestOK(r)
  <2>1. /\ workload.prompt[r] \in Nat /\ workload.decodes[r] \in Nat
    BY <1>1, AdapterAssumption
  <2>2. Owned(owner, r) = {}
    BY <1>1 DEF Owned
  <2>3. status[r] = "waiting"
    BY <1>1
  <2>4. QED
    BY <1>1, <2>1, <2>2, <2>3 DEF RequestOK, Begun
<1>5. OneByOne /\ Counted /\ OutIsOwn
  BY <1>1, <1>2, <1>4 DEF OneByOne, Counted, OutIsOwn
<1>6. QED
  BY <1>3, <1>5, IInvInit, BegunInit DEF OneAfterTheOtherInv, AbortedInPrefill

THEOREM SequentialIsOK ==
    ASSUME FirstBatchIsPrefill, SequentialRequestsFit
    PROVE  Spec => []OneAfterTheOtherInv
<1>1. Init => OneAfterTheOtherInv
  BY SequentialInit
<1>2. OneAfterTheOtherInv /\ [Next]_vars => OneAfterTheOtherInv'
  BY SequentialNext
<1>3. QED
  BY <1>1, <1>2, PTL DEF Spec

\* Requests one after the other that fit attend to their own tokens, to all of
\* them and to no others, in prefill and in decode.
THEOREM AttendsOwnTokensHolds ==
    ASSUME FirstBatchIsPrefill, SequentialRequestsFit
    PROVE  Spec => []AttendsOwnTokens
<1>1. OneAfterTheOtherInv => AttendsOwnTokens
  BY DEF OneAfterTheOtherInv, AttendsOwnTokens, OutIsOwn
<1>2. QED
  BY <1>1, SequentialIsOK, PTL

\* The token counter that the handlers keep is what the state holds.
THEOREM CounterMatchesHolds ==
    ASSUME FirstBatchIsPrefill, SequentialRequestsFit
    PROVE  Spec => []CounterMatches
<1>1. OneAfterTheOtherInv => CounterMatches
  BY DEF OneAfterTheOtherInv, CounterMatches, Counted, Size
<1>2. QED
  BY <1>1, SequentialIsOK, PTL

=============================================================================
