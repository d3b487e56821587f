------------------------- MODULE RingBufferTheorems -------------------------
(***************************************************************************)
(* Facts about the operators of RingBuffer and CompressedKVStore that the  *)
(* proofs about the capture engine rest on: the arithmetic of a position   *)
(* modulo the capacity, what one write does to the slots in use, and what  *)
(* append_chunk() does to the tokens stored.                               *)
(***************************************************************************)
EXTENDS RingBuffer, CompressedKVStore, SequencesExt, FiniteSetTheorems, TLAPS

\* Division with a remainder, in the form the other lemmas use.
LEMMA Division ==
    ASSUME NEW c \in Nat \ {0}, NEW a \in Int
    PROVE  /\ a = c * (a \div c) + (a % c)
           /\ a \div c \in Int
           /\ a % c \in 0 .. c - 1
OBVIOUS

\* A positive multiple of c is at least c.
LEMMA PositiveMultiple ==
    ASSUME NEW c \in Nat \ {0}, NEW q \in Int, c * q > 0
    PROVE  c * q >= c
<1>1. CASE q <= 0
  <2>1. c * q <= 0 BY <1>1
  <2>2. QED BY <2>1
<1>2. CASE q >= 1
  <2>1. c * (q - 1) >= 0 BY <1>2
  <2>2. c * (q - 1) = c * q - c OBVIOUS
  <2>3. QED BY <2>1, <2>2
<1>3. QED BY <1>1, <1>2

\* Two positions less than c apart do not share a slot.
LEMMA SlotsDiffer ==
    ASSUME NEW c \in Nat \ {0}, NEW a \in Int, NEW b \in Int,
           a - b > 0, a - b < c
    PROVE  a % c # b % c
<1>1. SUFFICES ASSUME a % c = b % c PROVE FALSE OBVIOUS
<1> DEFINE q == (a \div c) - (b \div c)
<1>2. a - b = c * q /\ q \in Int
  <2>1. a \div c \in Int /\ b \div c \in Int BY Division
  <2>2. c * q = c * (a \div c) - c * (b \div c) BY <2>1
  <2>3. a = c * (a \div c) + (a % c) /\ b = c * (b \div c) + (b % c)
    BY Division
  <2>4. a % c \in Int /\ c * (a \div c) \in Int /\ c * (b \div c) \in Int
    BY <2>1, Division
  <2>5. QED BY <1>1, <2>1, <2>2, <2>3, <2>4
<1>3. c * q >= c BY <1>2, PositiveMultiple
<1>4. QED BY <1>2, <1>3

\* A position that differs from slot p by a multiple of c is in slot p.
LEMMA SlotOf ==
    ASSUME NEW c \in Nat \ {0}, NEW p \in 0 .. c - 1, NEW q \in Int,
           NEW a \in Int, a = p + c * q
    PROVE  a % c = p
<1> DEFINE m == a % c
           d == (a \div c) - q
<1>1. m \in 0 .. c - 1 /\ d \in Int BY Division
<1>2. p - m = c * d
  <2>1. c * d = c * (a \div c) - c * q BY Division
  <2>2. QED BY <2>1, Division
<1>3. ~ (c * d > 0) BY <1>1, <1>2, PositiveMultiple
<1>4. ~ (c * d < 0)
  <2>1. c * (0 - d) = 0 - c * d BY <1>1
  <2>2. QED BY <1>1, <1>2, <2>1, PositiveMultiple
<1>5. QED BY <1>1, <1>2, <1>3, <1>4

-----------------------------------------------------------------------------
\* What holds of every ring: count is write_pos until the buffer is full, and
\* the device counter is never ahead of it.
RingOK(r) ==
    /\ r \in Ring
    /\ r.count = IF r.write_pos < Capacity THEN r.write_pos ELSE Capacity
    /\ r.count_tensor <= r.count

\* Going back from the write position, the last n slots hold the tokens
\* k - 1, k - 2, ..., k - n.
Recency(r, n, k) ==
    \A j \in 1 .. n : r.slots[(r.write_pos - j) % Capacity] = k - j

\* The next write goes to a slot; while the ring is not full it is the first
\* one not in use.
LEMMA PosProperties ==
    ASSUME NEW r, RingOK(r)
    PROVE  /\ Pos(r) \in Slot
           /\ ~ IsFull(r) => Pos(r) = r.count
           /\ IsFull(r) => r.count = Capacity /\ LiveSlots(r) = Slot
<1> USE CapacityAssumption DEF RingOK, Ring, Slot
<1>1. Pos(r) \in Slot BY DEF Pos
<1>2. ~ IsFull(r) => Pos(r) = r.count
  <2>1. SUFFICES ASSUME ~ IsFull(r) PROVE Pos(r) = r.count OBVIOUS
  <2>2. r.write_pos \in 0 .. Capacity - 1 /\ r.count = r.write_pos
    BY <2>1 DEF IsFull
  <2>3. r.write_pos % Capacity = r.write_pos
    BY <2>2, SlotOf, r.write_pos = r.write_pos + Capacity * 0
  <2>4. QED BY <2>2, <2>3 DEF Pos
<1>3. IsFull(r) => r.count = Capacity /\ LiveSlots(r) = Slot
  BY DEF IsFull, LiveSlots
<1>4. QED BY <1>1, <1>2, <1>3

\* One iteration of write() keeps the counters consistent.
LEMMA WriteTokenOK ==
    ASSUME NEW r, RingOK(r), NEW tok \in Nat
    PROVE  RingOK(WriteToken(r, tok))
<1> USE CapacityAssumption
<1>1. r.slots \in [Slot -> Nat \cup {Zero}] /\ Pos(r) \in Slot
  BY PosProperties DEF RingOK, Ring
<1>2. [r.slots EXCEPT ![Pos(r)] = tok] \in [Slot -> Nat \cup {Zero}]
  BY <1>1
<1>3. WriteToken(r, tok) \in Ring
  BY <1>2 DEF WriteToken, RingOK, Ring, IsFull
<1>4. QED BY <1>3 DEF WriteToken, RingOK, Ring, IsFull

\* What one iteration of write() does to the slots in use.
LEMMA WriteTokenSlots ==
    ASSUME NEW r, RingOK(r), NEW tok \in Nat
    PROVE  /\ LiveSlots(WriteToken(r, tok)) = LiveSlots(r) \cup {Pos(r)}
           /\ WriteToken(r, tok).slots[Pos(r)] = tok
           /\ \A p \in Slot \ {Pos(r)} :
                WriteToken(r, tok).slots[p] = r.slots[p]
<1> USE CapacityAssumption
<1>1. r.slots \in [Slot -> Nat \cup {Zero}] /\ Pos(r) \in Slot
  BY PosProperties DEF RingOK, Ring
<1>2. WriteToken(r, tok).slots = [r.slots EXCEPT ![Pos(r)] = tok]
  BY DEF WriteToken
<1>3. LiveSlots(WriteToken(r, tok)) = LiveSlots(r) \cup {Pos(r)}
  <2>1. CASE IsFull(r)
    <3>1. WriteToken(r, tok).count = r.count BY <2>1 DEF WriteToken
    <3>2. QED BY <2>1, <3>1, PosProperties DEF LiveSlots
  <2>2. CASE ~ IsFull(r)
    <3>1. WriteToken(r, tok).count = r.count + 1 BY <2>2 DEF WriteToken
    <3>2. QED
      BY <2>2, <3>1, PosProperties DEF LiveSlots, RingOK, Ring, Slot
  <2>3. QED BY <2>1, <2>2
<1>4. QED BY <1>1, <1>2, <1>3

\* The tokens after a write, with the evicted one, are the tokens before it
\* with the new one; and the evicted token is no longer in the ring.
LEMMA WriteTokenTokens ==
    ASSUME NEW r, RingOK(r), NEW tok \in Nat,
           \A p, q \in LiveSlots(r) : r.slots[p] = r.slots[q] => p = q,
           tok \notin RecentTokens(r)
    PROVE  /\ RecentTokens(WriteToken(r, tok)) \cup ToSet(Evicted(r))
                = RecentTokens(r) \cup {tok}
           /\ RecentTokens(WriteToken(r, tok)) \cap ToSet(Evicted(r)) = {}
           /\ \A p, q \in LiveSlots(WriteToken(r, tok)) :
                WriteToken(r, tok).slots[p] = WriteToken(r, tok).slots[q]
                  => p = q
<1> DEFINE w == WriteToken(r, tok)
           v == Pos(r)
<1>1. /\ LiveSlots(w) = LiveSlots(r) \cup {v}
      /\ w.slots[v] = tok
      /\ \A p \in Slot \ {v} : w.slots[p] = r.slots[p]
  BY WriteTokenSlots
<1>2. LiveSlots(r) \subseteq Slot BY DEF LiveSlots
<1>3. \A p \in LiveSlots(r) : r.slots[p] # tok BY DEF RecentTokens
<1>4. \A p, q \in LiveSlots(w) : w.slots[p] = w.slots[q] => p = q
  BY <1>1, <1>2, <1>3
<1>5. RecentTokens(w) = {tok} \cup {r.slots[p] : p \in LiveSlots(r) \ {v}}
  BY <1>1, <1>2 DEF RecentTokens
<1>6. CASE IsFull(r)
  <2>1. ToSet(Evicted(r)) = {r.slots[v]}
    BY <1>6 DEF Evicted, ToSet
  <2>2. v \in LiveSlots(r) BY <1>6, PosProperties
  <2>3. RecentTokens(w) \cup {r.slots[v]} = RecentTokens(r) \cup {tok}
    BY <1>5, <2>2 DEF RecentTokens
  <2>4. r.slots[v] \notin RecentTokens(w) BY <1>3, <1>5, <2>2
  <2>5. QED BY <1>4, <2>1, <2>3, <2>4
<1>7. CASE ~ IsFull(r)
  <2>1. ToSet(Evicted(r)) = {} BY <1>7 DEF Evicted, ToSet
  <2>2. v \notin LiveSlots(r)
    BY <1>7, PosProperties DEF LiveSlots, RingOK, Ring
  <2>3. RecentTokens(w) = RecentTokens(r) \cup {tok}
    BY <1>5, <2>2 DEF RecentTokens
  <2>4. QED BY <1>4, <2>1, <2>3
<1>8. QED BY <1>6, <1>7

\* A write of the token k shifts the recent tokens by one.
LEMMA WriteTokenRecency ==
    ASSUME NEW r, RingOK(r), NEW k \in Nat, NEW n \in 0 .. Capacity,
           NEW m \in 0 .. Capacity, m <= n + 1, Recency(r, n, k)
    PROVE  Recency(WriteToken(r, k), m, k + 1)
<1> DEFINE w == WriteToken(r, k)
<1> USE CapacityAssumption
<1>1. SUFFICES ASSUME NEW j \in 1 .. m
               PROVE  w.slots[(w.write_pos - j) % Capacity] = k + 1 - j
  BY DEF Recency
<1>2. r.write_pos \in Nat /\ w.write_pos = r.write_pos + 1
  BY DEF RingOK, Ring, WriteToken
<1>3. CASE j = 1
  <2>1. (w.write_pos - j) % Capacity = Pos(r) BY <1>2, <1>3 DEF Pos
  <2>2. QED BY <2>1, <1>3, WriteTokenSlots
<1>4. CASE j > 1
  <2> DEFINE a == r.write_pos - (j - 1)
  <2>1. w.write_pos - j = a /\ a \in Int /\ j - 1 \in 1 .. n BY <1>2, <1>4
  <2>2. a % Capacity # Pos(r)
    BY <1>2, <2>1, SlotsDiffer DEF Pos
  <2>3. a % Capacity \in Slot BY <2>1, Division DEF Slot
  <2>4. w.slots[a % Capacity] = r.slots[a % Capacity]
    BY <2>2, <2>3, WriteTokenSlots
  <2>5. r.slots[a % Capacity] = k - (j - 1) BY <2>1 DEF Recency
  <2>6. QED BY <2>1, <2>4, <2>5
<1>5. QED BY <1>3, <1>4

\* When all the tokens in use are recent, they are the last count tokens.
LEMMA WindowIsRecent ==
    ASSUME NEW r, RingOK(r), NEW k \in Nat, Recency(r, r.count, k)
    PROVE  RecentTokens(r) = k - r.count .. k - 1
<1> USE CapacityAssumption
<1>1. r.write_pos \in Nat /\ r.count \in 0 .. Capacity
  BY DEF RingOK, Ring
<1>2. \A j \in 1 .. r.count :
         (r.write_pos - j) % Capacity \in LiveSlots(r)
  <2>1. TAKE j \in 1 .. r.count
  <2>2. (r.write_pos - j) % Capacity \in Slot
    <3>1. r.write_pos - j \in Int BY <1>1
    <3>2. QED BY <3>1, Division DEF Slot
  <2>3. CASE r.count = Capacity BY <2>2, <2>3 DEF LiveSlots, Slot
  <2>4. CASE r.count < Capacity
    <3>1. r.write_pos = r.count BY <2>4, <1>1 DEF RingOK
    <3>2. r.write_pos - j \in 0 .. Capacity - 1 BY <2>4, <3>1, <1>1
    <3>3. (r.write_pos - j) % Capacity = r.write_pos - j
      BY <3>2, SlotOf, r.write_pos - j = (r.write_pos - j) + Capacity * 0
    <3>4. r.write_pos - j < r.count BY <3>1, <1>1
    <3>5. QED BY <2>2, <3>3, <3>4 DEF LiveSlots
  <2>5. QED BY <1>1, <2>3, <2>4
<1>3. \A p \in LiveSlots(r) : \E j \in 1 .. r.count :
         (r.write_pos - j) % Capacity = p
  <2>1. TAKE p \in LiveSlots(r)
  <2>2. p \in 0 .. Capacity - 1 /\ p < r.count BY DEF LiveSlots, Slot
  <2>3. CASE r.count < Capacity
    <3>1. r.write_pos = r.count BY <2>3, <1>1 DEF RingOK
    <3>2. r.count - p \in 1 .. r.count BY <2>2, <1>1
    <3>3. (r.write_pos - (r.count - p)) % Capacity = p
      <4>1. r.write_pos - (r.count - p) = p BY <3>1, <2>2, <1>1
      <4>2. p = p + Capacity * 0 BY <2>2
      <4>3. QED BY <4>1, <4>2, <2>2, SlotOf
    <3>4. QED BY <3>2, <3>3
  <2>4. CASE r.count = Capacity
    <3> DEFINE a == r.write_pos - 1 - p
               j == (a % Capacity) + 1
    <3>1. a \in Int BY <1>1, <2>2
    <3>2. /\ a = Capacity * (a \div Capacity) + (a % Capacity)
          /\ a \div Capacity \in Int
          /\ a % Capacity \in 0 .. Capacity - 1
      BY <3>1, Division
    <3>3. j \in 1 .. r.count BY <3>2, <2>4
    <3>4. r.write_pos - j \in Int
          /\ r.write_pos - j = p + Capacity * (a \div Capacity)
      <4>1. r.write_pos - j = p + (a - (a % Capacity))
        <5>1. \A m \in Int : r.write_pos - (m + 1) = p + (a - m)
          BY <1>1, <2>2
        <5>2. a % Capacity \in Int BY <3>2
        <5> HIDE DEF a
        <5>3. r.write_pos - ((a % Capacity) + 1) = p + (a - (a % Capacity))
          BY <5>1, <5>2
        <5>4. QED BY <5>3
      <4>2. a - (a % Capacity) = Capacity * (a \div Capacity) BY <3>2
      <4>3. QED BY <4>1, <4>2, <3>3, <1>1, <2>2
    <3>5. (r.write_pos - j) % Capacity = p
      <4> DEFINE q == a \div Capacity
                 b == r.write_pos - j
      <4>1. q \in Int /\ b \in Int /\ b = p + Capacity * q BY <3>2, <3>4
      <4> HIDE DEF q, b
      <4>2. b % Capacity = p BY <4>1, <2>2, SlotOf
      <4>3. QED BY <4>2 DEF b
    <3>6. QED BY <3>3, <3>5
  <2>5. QED BY <2>3, <2>4, <1>1
<1>4. RecentTokens(r) = {k - j : j \in 1 .. r.count}
  BY <1>2, <1>3 DEF Recency, RecentTokens
<1>5. {k - j : j \in 1 .. r.count} = k - r.count .. k - 1
  <2>1. ASSUME NEW x \in k - r.count .. k - 1
        PROVE  x \in {k - j : j \in 1 .. r.count}
    <3>1. k - x \in 1 .. r.count /\ x = k - (k - x) BY <1>1
    <3>2. QED BY <3>1
  <2>2. \A j \in 1 .. r.count : k - j \in k - r.count .. k - 1 BY <1>1
  <2>3. QED BY <2>1, <2>2
<1>6. QED BY <1>4, <1>5

\* drain() hands over the tokens in use, each once.
LEMMA ReadAllTokens ==
    ASSUME NEW r, RingOK(r), RecentTokens(r) \subseteq Nat,
           \A p, q \in LiveSlots(r) : r.slots[p] = r.slots[q] => p = q
    PROVE  /\ ReadAll(r) \in Seq(Nat)
           /\ ToSet(ReadAll(r)) = RecentTokens(r)
           /\ \A i, j \in DOMAIN ReadAll(r) :
                ReadAll(r)[i] = ReadAll(r)[j] => i = j
<1> USE CapacityAssumption
<1>1. r.count \in 0 .. Capacity BY DEF RingOK, Ring
<1>2. ReadAll(r) = [i \in 1 .. r.count |-> r.slots[i - 1]]
  BY <1>1 DEF ReadAll
<1>3. \A i \in 1 .. r.count : i - 1 \in LiveSlots(r)
  BY <1>1 DEF LiveSlots, Slot
<1>4. \A p \in LiveSlots(r) : p + 1 \in 1 .. r.count /\ (p + 1) - 1 = p
  BY <1>1 DEF LiveSlots, Slot
<1>5. \A i \in 1 .. r.count : r.slots[i - 1] \in Nat
  BY <1>3 DEF RecentTokens
<1>6. ReadAll(r) \in Seq(Nat) BY <1>1, <1>2, <1>5
<1>7. ToSet(ReadAll(r)) = RecentTokens(r)
  BY <1>2, <1>3, <1>4 DEF ToSet, RecentTokens
<1>8. \A i, j \in 1 .. r.count : r.slots[i - 1] = r.slots[j - 1] => i = j
  BY <1>3
<1>9. QED BY <1>2, <1>6, <1>7, <1>8

-----------------------------------------------------------------------------
\* append_chunk() keeps the store well formed and its counters equal.
LEMMA AppendChunkType ==
    ASSUME NEW s, s \in Store, s.n_tensor = s.num_stored,
           NEW chunk \in Seq(Nat)
    PROVE  /\ AppendChunk(s, chunk) \in Store
           /\ AppendChunk(s, chunk).n_tensor
                = AppendChunk(s, chunk).num_stored
<1> USE MaxTokensAssumption
<1>1. CASE ~ Fits(s, chunk) BY <1>1 DEF AppendChunk
<1>2. CASE Fits(s, chunk)
  <2> DEFINE n == s.num_stored
             b == [i \in Position |-> IF i - n \in 0 .. Len(chunk) - 1
                                      THEN chunk[i - n + 1] ELSE s.buf[i]]
  <2>1. n \in Nat /\ Len(chunk) \in Nat
        /\ n + Len(chunk) \in 0 .. MaxTokens
    BY <1>2 DEF Store, Fits
  <2>2. ASSUME NEW i \in Position, i - n \in 0 .. Len(chunk) - 1
        PROVE  chunk[i - n + 1] \in Nat
    BY <2>1, <2>2 DEF Position
  <2>3. b \in [Position -> Nat \cup {Blank}] BY <2>2 DEF Store
  <2>4. AppendChunk(s, chunk)
          = [buf |-> b, num_stored |-> n + Len(chunk),
             n_tensor |-> n + Len(chunk)]
    BY <1>2 DEF AppendChunk
  <2>5. QED BY <2>1, <2>3, <2>4 DEF Store
<1>3. QED BY <1>1, <1>2

\* A chunk that fits is added to the tokens stored, and when it has no token
\* twice and none that is stored, no token is stored twice afterwards.
LEMMA AppendChunkTokens ==
    ASSUME NEW s, s \in Store, NEW chunk \in Seq(Nat), Fits(s, chunk)
    PROVE  /\ StoredTokens(AppendChunk(s, chunk))
                = StoredTokens(s) \cup ToSet(chunk)
           /\ (/\ \A i, j \in EagerView(s) : s.buf[i] = s.buf[j] => i = j
               /\ \A i, j \in DOMAIN chunk : chunk[i] = chunk[j] => i = j
               /\ StoredTokens(s) \cap ToSet(chunk) = {})
              => \A i, j \in EagerView(AppendChunk(s, chunk)) :
                   AppendChunk(s, chunk).buf[i] = AppendChunk(s, chunk).buf[j]
                     => i = j
<1> USE MaxTokensAssumption
<1> DEFINE n == s.num_stored
           t == AppendChunk(s, chunk)
           New == {i \in Position : n <= i /\ i < n + Len(chunk)}
<1>1. n \in Nat /\ Len(chunk) \in Nat /\ n + Len(chunk) <= MaxTokens
      /\ DOMAIN chunk = 1 .. Len(chunk)
  BY DEF Store, Fits
<1>2. t = [buf |-> [i \in Position |-> IF i - n \in 0 .. Len(chunk) - 1
                                       THEN chunk[i - n + 1] ELSE s.buf[i]],
           num_stored |-> n + Len(chunk), n_tensor |-> n + Len(chunk)]
  BY DEF AppendChunk
<1>3. EagerView(t) = EagerView(s) \cup New
  BY <1>1, <1>2 DEF EagerView, Position
<1>4. \A i \in EagerView(s) : t.buf[i] = s.buf[i]
  BY <1>1, <1>2 DEF EagerView, Position
<1>5. \A i \in New : t.buf[i] = chunk[i - n + 1] /\ i - n + 1 \in DOMAIN chunk
  <2>1. \A i \in New : i - n \in 0 .. Len(chunk) - 1 /\ i - n + 1 \in DOMAIN chunk
    BY <1>1 DEF Position
  <2>2. QED BY <1>2, <2>1
<1>6. \A k \in DOMAIN chunk : n + k - 1 \in New /\ (n + k - 1) - n + 1 = k
  BY <1>1 DEF Position
<1>7. StoredTokens(t) = StoredTokens(s) \cup ToSet(chunk)
  <2>1. {t.buf[i] : i \in EagerView(s)} = StoredTokens(s)
    BY <1>4 DEF StoredTokens
  <2>2. {t.buf[i] : i \in New} = ToSet(chunk) BY <1>5, <1>6 DEF ToSet
  <2>3. QED BY <1>3, <2>1, <2>2 DEF StoredTokens
<1>8. ASSUME \A i, j \in EagerView(s) : s.buf[i] = s.buf[j] => i = j,
             \A i, j \in DOMAIN chunk : chunk[i] = chunk[j] => i = j,
             StoredTokens(s) \cap ToSet(chunk) = {},
             NEW i \in EagerView(t), NEW j \in EagerView(t),
             t.buf[i] = t.buf[j]
      PROVE  i = j
  <2>1. CASE i \in EagerView(s) /\ j \in EagerView(s) BY <2>1, <1>4, <1>8
  <2>2. CASE i \in New /\ j \in New
    <3>1. i - n + 1 = j - n + 1 BY <2>2, <1>5, <1>8
    <3>2. QED BY <3>1, <2>2, <1>1 DEF Position
  <2>3. ASSUME NEW a \in EagerView(s), NEW b \in New
        PROVE  t.buf[a] # t.buf[b]
    <3>1. t.buf[a] \in StoredTokens(s) BY <1>4 DEF StoredTokens
    <3>2. t.buf[b] \in ToSet(chunk) BY <1>5 DEF ToSet
    <3>3. QED BY <3>1, <3>2, <1>8
  <2>4. QED BY <1>3, <1>8, <2>1, <2>2, <2>3
<1>9. QED BY <1>7, <1>8

-----------------------------------------------------------------------------
\* A function that takes no value twice on a set.
Injective(f, S) == \A x, y \in S : f[x] = f[y] => x = y

\* The empty ring holds nothing.
LEMMA EmptyRingFacts ==
    /\ RingOK(EmptyRing)
    /\ EmptyRing.count = 0 /\ EmptyRing.count_tensor = 0
    /\ LiveSlots(EmptyRing) = {}
    /\ RecentTokens(EmptyRing) = {}
<1> USE CapacityAssumption
<1>1. EmptyRing \in Ring BY DEF EmptyRing, Ring, Slot
<1>2. LiveSlots(EmptyRing) = {} BY DEF LiveSlots, EmptyRing, Slot
<1>3. QED BY <1>1, <1>2 DEF RingOK, EmptyRing, RecentTokens

\* The empty store holds nothing.
LEMMA EmptyStoreFacts ==
    /\ EmptyStore \in Store
    /\ EmptyStore.n_tensor = EmptyStore.num_stored
    /\ EagerView(EmptyStore) = {}
    /\ StoredTokens(EmptyStore) = {}
<1> USE MaxTokensAssumption
<1>1. EmptyStore \in Store BY DEF EmptyStore, Store, Position
<1>2. EagerView(EmptyStore) = {} BY DEF EagerView, EmptyStore, Position
<1>3. QED BY <1>1, <1>2 DEF EmptyStore, StoredTokens

\* Copying the counter to the device changes nothing else.
LEMMA SyncCounterFacts ==
    ASSUME NEW r, RingOK(r)
    PROVE  /\ RingOK(SyncCounter(r))
           /\ SyncCounter(r).count_tensor = SyncCounter(r).count
           /\ SyncCounter(r).count = r.count
           /\ SyncCounter(r).slots = r.slots
           /\ SyncCounter(r).write_pos = r.write_pos
           /\ LiveSlots(SyncCounter(r)) = LiveSlots(r)
           /\ RecentTokens(SyncCounter(r)) = RecentTokens(r)
<1> DEFINE s == SyncCounter(r)
<1>1. /\ s.count_tensor = r.count /\ s.count = r.count
      /\ s.slots = r.slots /\ s.write_pos = r.write_pos /\ s \in Ring
  BY CapacityAssumption DEF SyncCounter, RingOK, Ring
<1>2. LiveSlots(s) = LiveSlots(r) BY <1>1 DEF LiveSlots
<1>3. RecentTokens(s) = RecentTokens(r) BY <1>1, <1>2 DEF RecentTokens
<1>4. RingOK(s) BY <1>1 DEF RingOK, Ring
<1>5. QED BY <1>1, <1>2, <1>3, <1>4

\* One sequence after another: the members of both, each once.
LEMMA ConcatFacts ==
    ASSUME NEW s \in Seq(Nat), NEW t \in Seq(Nat)
    PROVE  /\ s \o t \in Seq(Nat)
           /\ ToSet(s \o t) = ToSet(s) \cup ToSet(t)
           /\ (/\ Injective(s, DOMAIN s) /\ Injective(t, DOMAIN t)
               /\ ToSet(s) \cap ToSet(t) = {})
              => Injective(s \o t, DOMAIN (s \o t))
<1> DEFINE u == s \o t
<1>1. /\ u \in Seq(Nat) /\ DOMAIN u = 1 .. Len(s) + Len(t)
      /\ DOMAIN s = 1 .. Len(s) /\ DOMAIN t = 1 .. Len(t)
      /\ Len(s) \in Nat /\ Len(t) \in Nat
  OBVIOUS
<1>2. \A i \in DOMAIN s : u[i] = s[i] /\ i \in DOMAIN u BY <1>1
<1>3. \A i \in DOMAIN u : i \notin DOMAIN s =>
         u[i] = t[i - Len(s)] /\ i - Len(s) \in DOMAIN t
  BY <1>1
<1>4. \A i \in DOMAIN t : i + Len(s) \in DOMAIN u
         /\ i + Len(s) \notin DOMAIN s /\ (i + Len(s)) - Len(s) = i
  BY <1>1
<1>5. ToSet(u) = ToSet(s) \cup ToSet(t)
  <2>1. ToSet(s) \subseteq ToSet(u) BY <1>2 DEF ToSet
  <2>2. ToSet(t) \subseteq ToSet(u)
    <3>1. \A i \in DOMAIN t : u[i + Len(s)] = t[i] BY <1>3, <1>4
    <3>2. QED BY <1>4, <3>1 DEF ToSet
  <2>3. ToSet(u) \subseteq ToSet(s) \cup ToSet(t) BY <1>2, <1>3 DEF ToSet
  <2>4. QED BY <2>1, <2>2, <2>3
<1>6. ASSUME Injective(s, DOMAIN s), Injective(t, DOMAIN t),
             ToSet(s) \cap ToSet(t) = {},
             NEW i \in DOMAIN u, NEW j \in DOMAIN u, u[i] = u[j]
      PROVE  i = j
  <2>1. CASE i \in DOMAIN s /\ j \in DOMAIN s
    BY <2>1, <1>2, <1>6 DEF Injective
  <2>2. CASE i \notin DOMAIN s /\ j \notin DOMAIN s
    <3>1. i - Len(s) = j - Len(s) BY <2>2, <1>3, <1>6 DEF Injective
    <3>2. QED BY <3>1, <1>1
  <2>3. ASSUME NEW a \in DOMAIN s, NEW b \in DOMAIN u, b \notin DOMAIN s
        PROVE  u[a] # u[b]
    <3>1. u[a] \in ToSet(s) BY <1>2 DEF ToSet
    <3>2. u[b] \in ToSet(t) BY <1>3, <2>3 DEF ToSet
    <3>3. QED BY <3>1, <3>2, <1>6
  <2>4. QED BY <1>6, <2>1, <2>2, <2>3
<1>7. QED BY <1>1, <1>5, <1>6 DEF Injective

\* What an iteration evicts is a sequence of at most one token of the ring.
LEMMA EvictedFacts ==
    ASSUME NEW r, RingOK(r), RecentTokens(r) \subseteq Nat
    PROVE  /\ Evicted(r) \in Seq(Nat)
           /\ ToSet(Evicted(r)) \subseteq RecentTokens(r)
           /\ Injective(Evicted(r), DOMAIN Evicted(r))
<1>1. CASE IsFull(r)
  <2>1. Pos(r) \in LiveSlots(r) BY <1>1, PosProperties
  <2>2. r.slots[Pos(r)] \in RecentTokens(r) BY <2>1 DEF RecentTokens
  <2>3. Evicted(r) = <<r.slots[Pos(r)]>> BY <1>1 DEF Evicted
  <2>4. QED BY <2>2, <2>3 DEF ToSet, Injective
<1>2. CASE ~ IsFull(r)
  BY <1>2 DEF Evicted, ToSet, Injective
<1>3. QED BY <1>1, <1>2

-----------------------------------------------------------------------------
(* The number of tokens in a store or a chunk.                             *)

LEMMA InjectiveCount ==
    ASSUME NEW S, IsFiniteSet(S), NEW f, Injective(f, S)
    PROVE  Cardinality({f[x] : x \in S}) = Cardinality(S)
<1> DEFINE T == {f[x] : x \in S}
           g == [x \in S |-> f[x]]
<1>1. g \in Bijection(S, T)
  <2>1. g \in [S -> T] OBVIOUS
  <2>2. g \in Injection(S, T) BY <2>1 DEF Injective, Injection, IsInjective
  <2>3. g \in Surjection(S, T) BY <2>1 DEF Surjection
  <2>4. QED BY <2>2, <2>3 DEF Bijection
<1>2. ExistsBijection(S, T) BY <1>1 DEF ExistsBijection
<1>3. QED BY <1>2, FS_Bijection

LEMMA StoredCount ==
    ASSUME NEW s \in Store, Injective(s.buf, EagerView(s))
    PROVE  Cardinality(StoredTokens(s)) = s.num_stored
<1>1. s.num_stored \in 0 .. MaxTokens BY DEF Store
<1>2. EagerView(s) = 0 .. s.num_stored - 1
  BY <1>1, MaxTokensAssumption DEF EagerView, Position
<1>3. 0 \in Int /\ s.num_stored - 1 \in Int BY <1>1, MaxTokensAssumption
<1>4. IsFiniteSet(EagerView(s)) /\ Cardinality(EagerView(s)) = s.num_stored
  <2> DEFINE m == s.num_stored - 1
  <2>1. m \in Int /\ EagerView(s) = 0 .. m BY <1>2, <1>3
  <2>2. (IF 0 > m THEN 0 ELSE m - 0 + 1) = s.num_stored BY <1>1
  <2> HIDE DEF m
  <2>3. IsFiniteSet(0 .. m) BY <2>1, FS_Interval
  <2>4. Cardinality(0 .. m) = IF 0 > m THEN 0 ELSE m - 0 + 1
    BY <2>1, FS_Interval
  <2>5. QED BY <2>1, <2>2, <2>3, <2>4
<1>5. QED BY <1>4, InjectiveCount DEF StoredTokens

LEMMA ChunkCount ==
    ASSUME NEW chunk \in Seq(Nat), Injective(chunk, DOMAIN chunk)
    PROVE  Cardinality(ToSet(chunk)) = Len(chunk)
<1>1. DOMAIN chunk = 1 .. Len(chunk) /\ Len(chunk) \in Nat OBVIOUS
<1>2. IsFiniteSet(DOMAIN chunk) /\ Cardinality(DOMAIN chunk) = Len(chunk)
  BY <1>1, FS_Interval, SMTT(30)
<1>3. QED BY <1>2, InjectiveCount DEF ToSet

=============================================================================
