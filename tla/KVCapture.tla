----------------------------- MODULE KVCapture -----------------------------
(***************************************************************************)
(* runtime/capture.py: KVCaptureEngine, the pipeline                       *)
(*                                                                         *)
(*     incoming tokens -> ring buffer -> compressed store                  *)
(*                                                                         *)
(* of one request in one layer.  Tokens are numbered in the order in which *)
(* they arrive.  A call that reaches RingBuffer.write() is three kinds of  *)
(* step, the call, one WriteLoop per token and the return, because the     *)
(* device counter lags behind the host counter until the loop has ended    *)
(* and the evicted tokens are in neither tier until the call returns.  The *)
(* other calls are one step.  Calls do not overlap: a forward pass is      *)
(* the only caller of an engine.                                           *)
(*                                                                         *)
(* What the caller does is a parameter: RepeatedPrefill lets it call       *)
(* ingest_prefill() again without reset() (a prompt in several chunks),    *)
(* GraphMode makes it decode with ingest_decode_graph().                   *)
(***************************************************************************)
EXTENDS RingBuffer, CompressedKVStore, SequencesExt

CONSTANTS
    MaxIngest,          \* bound: tokens that ever arrive
    MaxChunk,           \* bound: tokens of one ingest_decode() call
    RepeatedPrefill,    \* the caller may prefill a request that has tokens
    GraphMode           \* decode goes through ingest_decode_graph()

ASSUME BoundsAssumption == MaxIngest \in Nat /\ MaxChunk \in Nat
ASSUME ProtocolAssumption == RepeatedPrefill \in BOOLEAN /\ GraphMode \in BOOLEAN

VARIABLES
    ring,               \* ring_buffer
    store,              \* store
    is_prefill_phase,   \* _is_prefill_phase, written but never read
    call,               \* the call in progress: tokens left to write, overflow
    next,               \* ghost: number of the next token written to the ring
    base,               \* ghost: number of the first token since reset()
    rejected            \* ghost: tokens append_chunk() dropped since reset()

vars == <<ring, store, is_prefill_phase, call, next, base, rejected>>

NoCall == [op |-> "none", todo |-> 0, overflow |-> <<>>]
Writing(op, n) == [op |-> op, todo |-> n, overflow |-> <<>>]

Idle == call.op = "none"

Init ==
    /\ ring = EmptyRing
    /\ store = EmptyStore
    /\ is_prefill_phase = TRUE
    /\ call = NoCall
    /\ next = 0
    /\ base = 0
    /\ rejected = {}

\* store.append_chunk(chunk), and the record of what it drops.
Archive(chunk) ==
    /\ store' = AppendChunk(store, chunk)
    /\ rejected' = IF Fits(store, chunk) THEN rejected
                   ELSE rejected \cup ToSet(chunk)

MayPrefill == Idle /\ (RepeatedPrefill \/ next = base)

-----------------------------------------------------------------------------
\* ingest_prefill() of n tokens that fit in the ring buffer.
IngestShortPrefill(n) ==
    /\ MayPrefill
    /\ n <= Capacity
    /\ next + n <= MaxIngest
    /\ call' = Writing("prefill", n)
    /\ UNCHANGED <<ring, store, is_prefill_phase, next, base, rejected>>

\* Mutant of IngestLongPrefill: the compressed head overlaps the tail by one.
IngestLongPrefillOverlap(n) ==
    /\ MayPrefill
    /\ n > Capacity
    /\ next + n <= MaxIngest
    /\ Archive([i \in 1 .. n - Capacity |-> next + i - 1])
    /\ next' = next + (n - Capacity) - 1
    /\ call' = Writing("prefill_tail", Capacity)
    /\ UNCHANGED <<ring, is_prefill_phase, base>>

\* ingest_prefill() of more than fit: all but the last Capacity tokens are
\* compressed at once, the others go through the ring buffer.
IngestLongPrefill(n) ==
    /\ MayPrefill
    /\ n > Capacity
    /\ next + n <= MaxIngest
    /\ Archive([i \in 1 .. n - Capacity |-> next + i - 1])
    /\ next' = next + (n - Capacity)
    /\ call' = Writing("prefill_tail", Capacity)
    /\ UNCHANGED <<ring, is_prefill_phase, base>>

\* ingest_decode() of n tokens.
IngestDecode(n) ==
    /\ Idle
    /\ ~GraphMode
    /\ next + n <= MaxIngest
    /\ call' = Writing("decode", n)
    /\ UNCHANGED <<ring, store, is_prefill_phase, next, base, rejected>>

\* One iteration of the loop of RingBuffer.write().
WriteLoop ==
    /\ call.todo > 0
    /\ ring' = WriteToken(ring, next)
    /\ next' = next + 1
    /\ call' = [op |-> call.op, todo |-> call.todo - 1,
                overflow |-> call.overflow \o Evicted(ring)]
    /\ UNCHANGED <<store, is_prefill_phase, base, rejected>>

\* The return of ingest_prefill(), which ignores what write() returns.
EndPrefill ==
    /\ call.op \in {"prefill", "prefill_tail"}
    /\ call.todo = 0
    /\ ring' = SyncCounter(ring)
    /\ is_prefill_phase' = FALSE
    /\ call' = NoCall
    /\ UNCHANGED <<store, next, base, rejected>>

\* Mutant of EndDecode: what write() returns is dropped, as in prefill.
EndDecodeDropsOverflow ==
    /\ call.op = "decode"
    /\ call.todo = 0
    /\ ring' = SyncCounter(ring)
    /\ call' = NoCall
    /\ UNCHANGED <<store, is_prefill_phase, next, base, rejected>>

\* The return of ingest_decode(), which compresses what write() returns.
EndDecode ==
    /\ call.op = "decode"
    /\ call.todo = 0
    /\ ring' = SyncCounter(ring)
    /\ Archive(call.overflow)
    /\ call' = NoCall
    /\ UNCHANGED <<is_prefill_phase, next, base>>

\* ingest_decode_graph(): one token, and nothing is done with the one that
\* it overwrites.
IngestDecodeGraph ==
    /\ Idle
    /\ GraphMode
    /\ next < MaxIngest
    /\ ring' = WriteSingleGraph(ring, next)
    /\ next' = next + 1
    /\ UNCHANGED <<store, is_prefill_phase, call, base, rejected>>

\* check_overflow_and_compress(): its body is pass.
CheckOverflowAndCompress ==
    /\ Idle
    /\ GraphMode
    /\ UNCHANGED vars

\* prepare_for_decode()
PrepareForDecode ==
    /\ Idle
    /\ is_prefill_phase' = FALSE
    /\ UNCHANGED <<ring, store, call, next, base, rejected>>

\* Mutant of Flush: the ring buffer is read but not reset.
FlushWithoutReset ==
    /\ Idle
    /\ Archive(ReadAll(ring))
    /\ UNCHANGED <<ring, is_prefill_phase, call, next, base>>

\* flush(): drain() is read_all() followed by reset().
Flush ==
    /\ Idle
    /\ Archive(ReadAll(ring))
    /\ ring' = EmptyRing
    /\ UNCHANGED <<is_prefill_phase, call, next, base>>

\* Mutant of Reset: the device counter of the ring buffer survives.
ResetKeepsDeviceCounter ==
    /\ Idle
    /\ store' = EmptyStore
    /\ ring' = [EmptyRing EXCEPT !.count_tensor = ring.count_tensor]
    /\ is_prefill_phase' = TRUE
    /\ base' = next
    /\ rejected' = {}
    /\ UNCHANGED <<call, next>>

\* reset()
Reset ==
    /\ Idle
    /\ store' = EmptyStore
    /\ ring' = EmptyRing
    /\ is_prefill_phase' = TRUE
    /\ base' = next
    /\ rejected' = {}
    /\ UNCHANGED <<call, next>>

Next ==
    \/ \E n \in 1 .. MaxIngest : IngestShortPrefill(n) \/ IngestLongPrefill(n)
    \/ \E n \in 1 .. MaxChunk : IngestDecode(n)
    \/ WriteLoop
    \/ EndPrefill
    \/ EndDecode
    \/ IngestDecodeGraph
    \/ CheckOverflowAndCompress
    \/ PrepareForDecode
    \/ Flush
    \/ Reset

Spec == Init /\ [][Next]_vars

-----------------------------------------------------------------------------
(* Properties.                                                             *)

Calls == [op : {"none", "prefill", "prefill_tail", "decode"},
          todo : Nat, overflow : Seq(Nat)]

\* Every variable has its type; in particular write_pos, the two counters and
\* their device copies stay within the buffers they index.
TypeOK ==
    /\ ring \in Ring
    /\ store \in Store
    /\ is_prefill_phase \in BOOLEAN
    /\ call \in Calls
    /\ next \in Nat
    /\ base \in Nat
    /\ rejected \subseteq Nat

\* Between calls the attention kernel, which masks the ring buffer with the
\* device counter, sees exactly the most recent tokens, as many as the host
\* counter says: wrapping never hides a new token or shows an evicted one.
KernelSeesRecentTokens ==
    Idle => {ring.slots[p] : p \in KernelSlots(ring)}
              = next - ring.count .. next - 1

\* At no moment, not even within a call, is a token held twice: the tokens
\* stored, the evicted tokens on their way to the store and the tokens of the
\* ring buffer are disjoint, and none of the three repeats a token.  A token
\* held twice would weigh twice in the softmax of _hybrid_attention.
CountedOnce ==
    /\ \A i, j \in EagerView(store) : store.buf[i] = store.buf[j] => i = j
    /\ \A p, q \in LiveSlots(ring) : ring.slots[p] = ring.slots[q] => p = q
    /\ \A i, j \in DOMAIN call.overflow :
         call.overflow[i] = call.overflow[j] => i = j
    /\ StoredTokens(store) \cap RecentTokens(ring) = {}
    /\ ToSet(call.overflow)
         \cap (StoredTokens(store) \cup RecentTokens(ring)) = {}

\* No path ever attends to a zeroed slot or position: neither device counter
\* runs ahead of what was written, whatever the order of writes and resets.
NoBlankAttended ==
    /\ \A p \in KernelSlots(ring) : ring.slots[p] # Zero
    /\ \A i \in EagerView(store) \cup GraphView(store) : store.buf[i] # Blank

\* Between calls the tokens that the kernels attend to, as the device counters
\* delimit them, are all the tokens that arrived since the last reset(), except
\* those that append_chunk() has logged as a store overflow.
EveryTokenKept ==
    Idle => {ring.slots[p] : p \in KernelSlots(ring)}
              \cup {store.buf[i] : i \in GraphView(store)}
            = (base .. next - 1) \ rejected

\* Eager decoding with one prefill per request implements TieredCache: the
\* slots of the ring buffer, read by age, are the first-in first-out window,
\* what write() returned is on its way, and chunks are stored whole or lost
\* whole, the latter only when the store has no room for them.
Tiered == INSTANCE TieredCache WITH
    Window  <- Capacity,
    Room    <- MaxTokens,
    recent  <- ByAge(ring),
    moving  <- call.overflow,
    archive <- StoredTokens(store),
    lost    <- rejected,
    next    <- next

ImplementsTieredCache == Tiered!Spec

=============================================================================
