-------------------------- MODULE MCNoAllocInstall --------------------------
(* The instance of NoAllocInstall that TLC checks: two workers that hold   *)
(* the same layers (tensor parallel) or different ones (pipeline parallel),*)
(* with layers that are skipped in between.                                *)
EXTENDS NoAllocInstall

TwoWorkers == <<"w1", "w2">>

KindOf == [m \in {"a", "b", "c", "d", "mla", "moe"} |->
             CASE m = "mla" -> "mla" [] m = "moe" -> "other" [] OTHER -> "tq"]

TensorParallel(s) == [w \in {"w1", "w2"} |-> s]

ModelsByWorker ==
    {TensorParallel(<<"a", "b", "c">>),
     TensorParallel(<<"mla", "a", "b", "moe">>),
     TensorParallel(<<"a", "mla", "c">>),
     TensorParallel(<<"moe", "a", "mla">>),
     "w1" :> <<"a", "mla">> @@ "w2" :> <<"b", "c">>,
     "w1" :> <<"c", "a">> @@ "w2" :> <<"d", "b">>}

ASSUME PlacedAsAssumed == ReplicasOrStages

=============================================================================
