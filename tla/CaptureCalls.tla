---------------------------- MODULE CaptureCalls ----------------------------
(***************************************************************************)
(* The calls of KVCaptureEngine taken as a whole, as functions from the    *)
(* engine before the call to the engine after it, for the modules that do  *)
(* not look inside a call.  MCKVCapture checks that the steps of KVCapture *)
(* add up to them.                                                         *)
(***************************************************************************)
EXTENDS RingBuffer, CompressedKVStore, SequencesExt

EmptyEngine == [ring |-> EmptyRing, store |-> EmptyStore]

\* RingBuffer.write(): what is left after each turn of its loop, then the ring
\* afterwards and what it returns.
Write(r, tokens) ==
    LET turn[i \in 0 .. Len(tokens)] ==
            IF i = 0 THEN [ring |-> r, overflow |-> <<>>]
            ELSE LET before == turn[i - 1]
                 IN  [ring |-> WriteToken(before.ring, tokens[i]),
                      overflow |-> before.overflow \o Evicted(before.ring)]
        done == turn[Len(tokens)]
    IN  [ring |-> SyncCounter(done.ring), overflow |-> done.overflow]

\* Mutant of IngestPrefill: the compressed head takes a token of the tail too.
IngestPrefillOverlap(e, tokens) ==
    LET n == Len(tokens) - Capacity
    IN  IF n <= 0
        THEN [e EXCEPT !.ring = Write(@, tokens).ring]
        ELSE [ring  |-> Write(e.ring, SubSeq(tokens, n + 1, Len(tokens))).ring,
              store |-> AppendChunk(e.store, SubSeq(tokens, 1, n + 1))]

\* ingest_prefill(): the overflow of write() is not looked at.
IngestPrefill(e, tokens) ==
    LET n == Len(tokens) - Capacity
    IN  IF n <= 0
        THEN [e EXCEPT !.ring = Write(@, tokens).ring]
        ELSE [ring  |-> Write(e.ring, SubSeq(tokens, n + 1, Len(tokens))).ring,
              store |-> AppendChunk(e.store, SubSeq(tokens, 1, n))]

\* ingest_decode()
IngestDecode(e, tokens) ==
    LET w == Write(e.ring, tokens)
    IN  [ring |-> w.ring, store |-> AppendChunk(e.store, w.overflow)]

\* What compute_decode_attention() attends to: the eager view of the store and
\* the slots that the kernel masks in.
Attended(e) ==
    StoredTokens(e.store) \cup {e.ring.slots[p] : p \in KernelSlots(e.ring)}

\* The host counters that decide whether there is anything to attend to.
HasData(e) == e.store.num_stored > 0 \/ e.ring.count > 0

=============================================================================
