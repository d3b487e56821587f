--------------------------- MODULE MCVllmAdapter ---------------------------
(* The instances of VllmAdapter that TLC checks, by what the scheduler is  *)
(* given.                                                                  *)
EXTENDS VllmAdapter

ABC == {"a", "b", "c"}

\* Two requests, a and b, with lengths and steps from the sets.
TwoRequests(batch, chunk, lengths, steps) ==
    {[batch |-> batch, chunk |-> chunk, aborts |-> TRUE,
      prompt |-> p @@ ("c" :> 0), decodes |-> d @@ ("c" :> 0)] :
        p \in [{"a", "b"} -> lengths], d \in [{"a", "b"} -> steps]}

\* Whole prompts, one request after the other.
Sequential == TwoRequests(1, 9, 2 .. 6, 1 .. 4)

\* Three requests, of which two run at a time, with prompts cut in two; they
\* may run on when the states have been reset.
Concurrent == {[batch |-> 2, chunk |-> 2, aborts |-> a,
                prompt |-> [r \in ABC |-> 3], decodes |-> [r \in ABC |-> 1]] :
                  a \in BOOLEAN}

SequentialOrConcurrent == Sequential \cup Concurrent

\* The run of the passing properties meets the conditions of their theorems.
ASSUME ConditionsAreMet ==
    Workloads = SequentialOrConcurrent =>
        FirstBatchIsPrefill /\ RingHoldsABatch /\ SequentialRequestsFit

MaybePrefillOnly == TwoRequests(1, 9, {2, 3}, {0, 1})
Short == TwoRequests(1, 9, {2, 3}, {1, 2})

=============================================================================
