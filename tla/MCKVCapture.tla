---------------------------- MODULE MCKVCapture ----------------------------
(* The instances of KVCapture that TLC checks, with a record of the engine *)
(* at the start of the call in progress.                                   *)
EXTENDS KVCapture

VARIABLE before     \* history: the engine and the next token at the call

Calling == INSTANCE CaptureCalls

MCInit == Init /\ before = [engine |-> Calling!EmptyEngine, first |-> 0]

MCNext ==
    /\ Next
    /\ before' = IF Idle
                 THEN [engine |-> [ring |-> ring, store |-> store],
                       first |-> next]
                 ELSE before

MCSpec == MCInit /\ [][MCNext]_<<vars, before>>

\* The steps of a call add up to the operator that stands for the whole call
\* in CaptureCalls: nothing is left half done when ingest_prefill() or
\* ingest_decode() returns.
CallsAddUp ==
    [][ ~ Idle /\ Idle' =>
          LET arrived == [i \in 1 .. next - before.first |-> before.first + i - 1]
          IN  [ring |-> ring', store |-> store'] =
                IF call.op = "decode"
                THEN Calling!IngestDecode(before.engine, arrived)
                ELSE Calling!IngestPrefill(before.engine, arrived)
      ]_<<vars, before>>

=============================================================================
