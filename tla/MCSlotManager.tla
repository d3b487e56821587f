--------------------------- MODULE MCSlotManager ---------------------------
(* The instance of SlotManager that TLC checks: two threads in one worker  *)
(* and one in another.                                                     *)
EXTENDS SlotManager

TwoAndOne == [t \in {"t1", "t2", "t3"} |-> IF t = "t3" THEN "w2" ELSE "w1"]

=============================================================================
