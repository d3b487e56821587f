-------------------------- MODULE DecodeAttention --------------------------
(***************************************************************************)
(* runtime/attention.py with the attention kernels of                      *)
(* core/triton_kernels.py: one decode query against the compressed store   *)
(* and the ring buffer.  Each kernel walks over its tier in blocks and     *)
(* keeps an online softmax: the running maximum m of the scores, the sum l *)
(* of the exponentials and the unnormalised output acc, both relative to   *)
(* m.  One block is one step.                                              *)
(*                                                                         *)
(* A score is an integer, how it is computed from the quantized or the     *)
(* exact key is left out, and the exponential has base 2.  Quantities      *)
(* relative to a maximum are multiplied by Unit, which makes all of them   *)
(* integers and every division below exact.  acc is the weight with which  *)
(* each value enters the weighted sum, whatever the values are.            *)
(***************************************************************************)
EXTENDS Integers, FiniteSetsExt, Functions

CONSTANTS
    MaxTokens,      \* positions of the store
    Capacity,       \* slots of the ring buffer
    BlockC,         \* largest BLOCK_N of the fused decode kernels
    BlockR,         \* BLOCK_N of the recent buffer kernel
    TopScore        \* bound: scores are 0 .. TopScore

ASSUME AttentionAssumption ==
    /\ {MaxTokens, Capacity, BlockC, BlockR} \subseteq Nat \ {0}
    /\ TopScore \in Nat

VARIABLES
    n_stored,       \* tokens of the store, on the host and in n_tensor
    count,          \* tokens of the ring buffer, on the host and on the device
    scoreC, scoreR, \* the scores of the query against the keys of both tiers
    graph,          \* compute_decode_attention_graph(), or the eager variant
    path,           \* the kernels that the host has launched
    pass,           \* what the device does now
    block,          \* block_idx of the running kernel
    part,           \* its registers m_i, l_i and acc
    comp, recent,   \* what the kernels stored: acc, m and l of each tier
    output          \* output, as weights over a common denominator l

input == <<n_stored, count, scoreC, scoreR, graph>>
attentionVars == <<input, path, pass, block, part, comp, recent, output>>

Unit == 2 ^ TopScore
NegInf == -1                    \* float("-inf"), below every score

PositionC == 0 .. MaxTokens - 1
PositionR == 0 .. Capacity - 1

Zeros(positions) == [m |-> 0, l |-> 0, acc |-> [n \in positions |-> 0], nan |-> FALSE]
Start(positions) == [Zeros(positions) EXCEPT !.m = NegInf]

-----------------------------------------------------------------------------
\* exp(x - m) for x <= m: times Unit, and as a factor of x0.
Exp(x, m) == IF x = NegInf THEN 0 ELSE 2 ^ (TopScore + x - m)
Scaled(x0, x, m) == IF x = NegInf THEN 0 ELSE x0 \div 2 ^ (m - x)

(* Mutants of Update: the sum is not rescaled; the factor is inverted.     *)
UpdateKeepsSum(p, lanes, score) ==
    LET m == Max({p.m} \cup {score[n] : n \in lanes})
    IN  IF p.nan \/ m = NegInf
        THEN [p EXCEPT !.m = m, !.nan = TRUE]
        ELSE [m   |-> m,
              l   |-> p.l + SumFunction([n \in lanes |-> Exp(score[n], m)]),
              acc |-> [n \in DOMAIN p.acc |->
                         Scaled(p.acc[n], p.m, m)
                           + (IF n \in lanes THEN Exp(score[n], m) ELSE 0)],
              nan |-> FALSE]

UpdateInvertsAlpha(p, lanes, score) ==
    LET m == Max({p.m} \cup {score[n] : n \in lanes})
        Grown(x0) == IF p.m = NegInf THEN 0 ELSE x0 * 2 ^ (m - p.m)
    IN  IF p.nan \/ m = NegInf
        THEN [p EXCEPT !.m = m, !.nan = TRUE]
        ELSE [m   |-> m,
              l   |-> Grown(p.l)
                        + SumFunction([n \in lanes |-> Exp(score[n], m)]),
              acc |-> [n \in DOMAIN p.acc |->
                         Grown(p.acc[n])
                           + (IF n \in lanes THEN Exp(score[n], m) ELSE 0)],
              nan |-> FALSE]

\* The online softmax update with the lanes of a block that its mask leaves.
\* When no lane is left and none was before, m_new is -inf, m_i - m_new is not
\* a number, and nothing that is computed from it ever is again.
Update(p, lanes, score) ==
    LET m == Max({p.m} \cup {score[n] : n \in lanes})
    IN  IF p.nan \/ m = NegInf
        THEN [p EXCEPT !.m = m, !.nan = TRUE]
        ELSE [m   |-> m,
              l   |-> Scaled(p.l, p.m, m)
                        + SumFunction([n \in lanes |-> Exp(score[n], m)]),
              acc |-> [n \in DOMAIN p.acc |->
                         Scaled(p.acc[n], p.m, m)
                           + (IF n \in lanes THEN Exp(score[n], m) ELSE 0)],
              nan |-> FALSE]

\* triton.next_power_of_2(n), for n > 0.
NextPowerOf2(n) == CHOOSE b \in {2 ^ k : k \in 0 .. n} : n <= b /\ b < 2 * n

\* BLOCK_N of tq_fused_decode() and of tq_fused_decode_graph().
BlockN == IF graph THEN BlockC
          ELSE Min({BlockC, NextPowerOf2(n_stored)})

\* The lanes of a block below a limit: n_offs with n_mask.
Lanes(b, size, limit) == {n \in b * size .. (b + 1) * size - 1 : n < limit}

\* The first kernel of a path.
FirstPass(p) == CASE p \in {"hybrid", "compressed"} -> "compressed"
                  [] p = "ring" -> "ring"
                  [] p = "none" -> "zero"

-----------------------------------------------------------------------------
AttentionInit ==
    /\ n_stored \in 0 .. MaxTokens
    /\ count \in 0 .. Capacity
    /\ scoreC \in [PositionC -> 0 .. TopScore]
    /\ scoreR \in [PositionR -> 0 .. TopScore]
    /\ graph = FALSE
    /\ path = "none" /\ pass = "idle" /\ block = 0
    /\ part = Start({})
    /\ comp = Zeros(PositionC)
    /\ recent = Zeros(PositionR)
    /\ output = [comp |-> Zeros(PositionC), recent |-> Zeros(PositionR)]

\* Mutant of Dispatch: whenever the store has data both kernels are launched.
DispatchIgnoresRing ==
    LET has_compressed == n_stored > 0
        has_ring == count > 0
    IN  /\ pass = "idle"
        /\ path' = CASE has_compressed -> "hybrid"
                     [] ~ has_compressed /\ has_ring -> "ring"
                     [] OTHER -> "none"
        /\ pass' = FirstPass(path')
        /\ block' = 0
        /\ part' = Start(IF pass' = "ring" THEN PositionR ELSE PositionC)
        /\ graph' \in BOOLEAN
        /\ UNCHANGED <<n_stored, count, scoreC, scoreR, comp, recent, output>>

\* compute_decode_attention() and its graph variant: the host counters decide
\* which kernels are launched.
Dispatch ==
    LET has_compressed == n_stored > 0
        has_ring == count > 0
    IN  /\ pass = "idle"
        /\ path' = CASE has_compressed /\ has_ring -> "hybrid"
                     [] has_compressed /\ ~ has_ring -> "compressed"
                     [] ~ has_compressed /\ has_ring -> "ring"
                     [] OTHER -> "none"
        /\ pass' = FirstPass(path')
        /\ block' = 0
        /\ part' = Start(IF pass' = "ring" THEN PositionR ELSE PositionC)
        /\ graph' \in BOOLEAN
        /\ UNCHANGED <<n_stored, count, scoreC, scoreR, comp, recent, output>>

\* One iteration of the loop of _tq_fused_decode_kernel and of its variant.
CompressedBlock ==
    /\ pass = "compressed"
    /\ block * BlockN < n_stored
    /\ part' = Update(part, Lanes(block, BlockN, n_stored), scoreC)
    /\ block' = block + 1
    /\ UNCHANGED <<input, path, pass, comp, recent, output>>

\* The stores at the end of the kernel, and the launch of the next one.
CompressedStore ==
    /\ pass = "compressed"
    /\ block * BlockN >= n_stored
    /\ comp' = part
    /\ pass' = IF path = "hybrid" THEN "ring" ELSE "normalise"
    /\ block' = 0
    /\ part' = Start(PositionR)
    /\ UNCHANGED <<input, path, recent, output>>

\* One iteration of the loop of _tq_recent_buffer_kernel, which runs over the
\* whole capacity and masks with the counter.
RingBlock ==
    /\ pass = "ring"
    /\ block * BlockR < Capacity
    /\ part' = Update(part, Lanes(block, BlockR, Min({count, Capacity})), scoreR)
    /\ block' = block + 1
    /\ UNCHANGED <<input, path, pass, comp, recent, output>>

RingStore ==
    /\ pass = "ring"
    /\ block * BlockR >= Capacity
    /\ recent' = part
    /\ pass' = IF path = "hybrid" THEN "merge" ELSE "normalise"
    /\ UNCHANGED <<input, path, block, part, comp, output>>

\* _tq_hybrid_merge_kernel: both tiers relative to the larger maximum.  Their
\* common denominator is left to output, it is not clamped.
RelativeTo(p, m, nan) ==
    [m |-> m, l |-> Scaled(p.l, p.m, m), nan |-> nan,
     acc |-> [n \in DOMAIN p.acc |-> Scaled(p.acc[n], p.m, m)]]

\* Mutant of Merged: the recent part is not rescaled to the common maximum.
MergedKeepsRecent(c, r) ==
    LET m   == Max({c.m, r.m})
        nan == c.nan \/ r.nan \/ m = NegInf
    IN  [comp |-> RelativeTo(c, m, nan), recent |-> r]

Merged(c, r) ==
    LET m   == Max({c.m, r.m})
        nan == c.nan \/ r.nan \/ m = NegInf
    IN  [comp |-> RelativeTo(c, m, nan), recent |-> RelativeTo(r, m, nan)]

Merge ==
    /\ pass = "merge"
    /\ output' = Merged(comp, recent)
    /\ pass' = "done"
    /\ UNCHANGED <<input, path, block, part, comp, recent>>

\* acc / l of the only tier; l is clamped from below by 1e-10.
Normalise ==
    /\ pass = "normalise"
    /\ output' = IF path = "compressed"
                 THEN [comp |-> comp, recent |-> Zeros(PositionR)]
                 ELSE [comp |-> Zeros(PositionC), recent |-> recent]
    /\ pass' = "done"
    /\ UNCHANGED <<input, path, block, part, comp, recent>>

\* No data: zeros.
ZeroOutput ==
    /\ pass = "zero"
    /\ output' = [comp |-> Zeros(PositionC), recent |-> Zeros(PositionR)]
    /\ pass' = "done"
    /\ UNCHANGED <<input, path, block, part, comp, recent>>

\* The engine captures a token, flushes its ring buffer or is reset, and there
\* is another query.
Recapture ==
    /\ pass = "done"
    /\ \/ count < Capacity /\ count' = count + 1 /\ n_stored' = n_stored
       \/ count = Capacity /\ count' = count
            /\ n_stored' = Min({n_stored + 1, MaxTokens})
       \/ count' = 0 /\ n_stored' = IF n_stored + count <= MaxTokens
                                    THEN n_stored + count ELSE n_stored
       \/ n_stored' = 0 /\ count' = 0
    /\ pass' = "idle"
    /\ UNCHANGED <<scoreC, scoreR, graph, path, block, part, comp, recent, output>>

AttentionNext ==
    \/ Dispatch
    \/ CompressedBlock \/ CompressedStore
    \/ RingBlock \/ RingStore
    \/ Merge \/ Normalise \/ ZeroOutput
    \/ Recapture

AttentionSpec == AttentionInit /\ [][AttentionNext]_attentionVars

-----------------------------------------------------------------------------
(* Properties.                                                             *)

Passes == {"idle", "zero", "compressed", "ring", "merge", "normalise", "done"}
Paths == {"none", "compressed", "ring", "hybrid"}

Partial(positions) ==
    [m : NegInf .. TopScore, l : Nat, nan : BOOLEAN, acc : [positions -> 0 .. Unit]]

\* Every variable has its type; no weight is ever above exp(0).
TypeOK ==
    /\ n_stored \in 0 .. MaxTokens /\ count \in 0 .. Capacity
    /\ graph \in BOOLEAN /\ path \in Paths /\ pass \in Passes /\ block \in Nat
    /\ \E ps \in {{}, PositionC, PositionR} : part \in Partial(ps)
    /\ comp \in Partial(PositionC) /\ recent \in Partial(PositionR)
    /\ output \in [comp : Partial(PositionC), recent : Partial(PositionR)]

\* p is the softmax over tokens, up to a common factor: each weighs
\* exp(score - maximum), no other position weighs anything, and l is the sum.
IsSoftmax(p, tokens, score) ==
    /\ ~ p.nan
    /\ p.m = Max({NegInf} \cup {score[n] : n \in tokens})
    /\ \A n \in DOMAIN p.acc :
         p.acc[n] = IF n \in tokens THEN Exp(score[n], p.m) ELSE 0
    /\ p.l = SumFunction(p.acc)

\* After every block of either kernel the registers are the softmax of exactly
\* the tokens below the end of the block: the masked lanes of a last block
\* leave no trace, and weights taken relative to an older, smaller maximum
\* have all been rescaled.
PartialSoftmax ==
    /\ pass = "compressed" =>
         IsSoftmax(part, {n \in PositionC : n < n_stored /\ n < block * BlockN},
                   scoreC)
    /\ pass = "ring" =>
         IsSoftmax(part, {n \in PositionR : n < count /\ n < block * BlockR},
                   scoreR)

\* The output is one softmax over the tokens of both tiers, whichever path was
\* taken and wherever the blocks begin: every token of the store and of the
\* ring buffer weighs exp(score) over the same sum, and nothing else weighs.
OutputIsSoftmax ==
    pass = "done" =>
      LET ToC == {n \in PositionC : n < n_stored}
          ToR == {n \in PositionR : n < count}
          Sum == SumFunction([n \in ToC |-> 2 ^ scoreC[n]])
                   + SumFunction([n \in ToR |-> 2 ^ scoreR[n]])
          l   == output.comp.l + output.recent.l
      IN  /\ \A n \in PositionC : output.comp.acc[n] * Sum
                = IF n \in ToC THEN 2 ^ scoreC[n] * l ELSE 0
          /\ \A n \in PositionR : output.recent.acc[n] * Sum
                = IF n \in ToR THEN 2 ^ scoreR[n] * l ELSE 0

\* Whenever there is a token the output is a number, and its denominator is at
\* least one: the clamp of the single paths never changes it, and the merge,
\* which has no clamp, never divides by zero.
DenominatorAtLeastOne ==
    pass = "done" /\ n_stored + count > 0 =>
        /\ ~ output.comp.nan /\ ~ output.recent.nan
        /\ output.comp.l + output.recent.l >= Unit

=============================================================================
