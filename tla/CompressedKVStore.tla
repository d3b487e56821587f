------------------------- MODULE CompressedKVStore -------------------------
(***************************************************************************)
(* runtime/kv_store.py: the pre-allocated store of quantized tokens of one *)
(* request in one layer.  The seven parallel buffers (indices, signs,      *)
(* norms, values, scales, zeros) are always written at the same positions, *)
(* so one function of positions to token numbers stands for all of them;   *)
(* what quantization does to the numbers is not modelled.                  *)
(*                                                                         *)
(* num_stored is the host counter, which sizes the views of the eager      *)
(* path; n_tensor is its device copy, which the graph kernel reads.        *)
(***************************************************************************)
EXTENDS Integers, Sequences

CONSTANT MaxTokens      \* max_tokens, the positions _preallocate() reserves

ASSUME MaxTokensAssumption == MaxTokens \in Nat

Blank == -1             \* a zeroed position
Position == 0 .. MaxTokens - 1

Store == [buf : [Position -> Nat \cup {Blank}],
          num_stored : 0 .. MaxTokens, n_tensor : 0 .. MaxTokens]

EmptyStore == [buf |-> [i \in Position |-> Blank],
               num_stored |-> 0, n_tensor |-> 0]

\* Mutant of Fits: a chunk that fills the store exactly is refused.
FitsStrictly(s, chunk) == s.num_stored + Len(chunk) < MaxTokens

Fits(s, chunk) == s.num_stored + Len(chunk) <= MaxTokens

\* Mutant of AppendChunk: the chunk is written one position too far.
AppendChunkShifted(s, chunk) ==
    IF Fits(s, chunk)
    THEN [buf |-> [i \in Position |->
                     IF i - s.num_stored \in 1 .. Len(chunk)
                     THEN chunk[i - s.num_stored] ELSE s.buf[i]],
          num_stored |-> s.num_stored + Len(chunk),
          n_tensor   |-> s.num_stored + Len(chunk)]
    ELSE s

\* append_chunk(): a chunk that does not fit is logged and dropped whole.
AppendChunk(s, chunk) ==
    IF Fits(s, chunk)
    THEN [buf |-> [i \in Position |->
                     IF i - s.num_stored \in 0 .. Len(chunk) - 1
                     THEN chunk[i - s.num_stored + 1] ELSE s.buf[i]],
          num_stored |-> s.num_stored + Len(chunk),
          n_tensor   |-> s.num_stored + Len(chunk)]
    ELSE s

\* get_quantized_view(): the positions the eager attention path reads.
EagerView(s) == {i \in Position : i < s.num_stored}

\* get_flat_cache(): the positions below the device counter, which the graph
\* kernel reads.
GraphView(s) == {i \in Position : i < s.n_tensor}

-----------------------------------------------------------------------------
(* Vocabulary of the properties.                                           *)

StoredTokens(s) == {s.buf[i] : i \in EagerView(s)}

=============================================================================
