----------------------------- MODULE MCKernels -----------------------------
(* The instance of QuantizedFormats, DecodeAttention and MemoryEstimate    *)
(* that TLC checks.  They share nothing: in a behaviour one of them goes   *)
(* on and the others stay as they are.                                     *)
EXTENDS QuantizedFormats, DecodeAttention, MemoryEstimate

VARIABLE subject    \* which of them goes on

mcVars == <<subject, vars, attentionVars, memoryVars>>

Nulls(n) == [i \in 1 .. n |-> 0]

Key(ind, bits, proj) ==
    [dim |-> Len(ind), bits |-> bits, group |-> Len(ind), levels |-> 3,
     indices |-> ind, projected |-> proj, value |-> Nulls(Len(ind))]

\* Two coordinates have any index, the others the largest; the projection is
\* negative, zero and positive in turn.
TwoOf(d, bits, p, q) ==
    {Key([i \in 1 .. d |-> IF i = p THEN x ELSE IF i = q THEN y ELSE 2^bits - 1],
         bits, [i \in 1 .. d |-> ((i + x) % 3) - 1]) :
        x \in 0 .. 2^bits - 1, y \in 0 .. 2^bits - 1}

\* One byte of indices of one bit, with every projection to signs.
OneBit == {Key(ind, 1, [i \in 1 .. 8 |-> 1 - ind[i]]) : ind \in [1 .. 8 -> 0 .. 1]}

\* Head dimensions that fill the bytes, two bytes of signs among them, and
\* others that do not; the widest index takes a byte.
Keys == OneBit
        \cup UNION {TwoOf(8, b, 1, 8) : b \in 2 .. 4}
        \cup UNION {TwoOf(8, b, 4, 5) : b \in 2 .. 3}
        \cup TwoOf(16, 2, 3, 16) \cup TwoOf(5, 1, 2, 5) \cup TwoOf(6, 2, 1, 6)
        \cup TwoOf(3, 3, 1, 3) \cup TwoOf(9, 1, 8, 9) \cup TwoOf(8, 5, 1, 2)

\* Values in groups of four, of which one may be constant, and groups that do
\* not divide the dimension.  Numbers of three digits and the exponents 0 to 2
\* reach 28 and are exact up to 8.
Values == {[dim |-> 8, bits |-> 1, group |-> g, levels |-> l,
            indices |-> Nulls(8), projected |-> Nulls(8),
            value |-> <<a, -3, b, 4, z, z, z + c, z>>] :
              g \in {3, 4, 8}, l \in {3, 15}, a \in -4 .. 4, b \in {-4, -1, 3},
              z \in {-31, -19, -9, 2, 11, 26, 30, 90}, c \in 0 .. 3}

AnyToken == Keys \cup Values

OneToken == Key(Nulls(8), 1, [i \in 1 .. 8 |-> 1])

AnyConfig ==
    {[layers |-> l, D |-> d, H |-> h, QH |-> 2, bits |-> b, group |-> g,
      capacity |-> cap, N |-> n, seqs |-> s, available |-> a, element |-> e] :
        l \in {1, 2}, d \in {8, 16}, h \in {1, 2}, b \in 1 .. 4, g \in {4, 8},
        cap \in {1, 3}, n \in {4, 10}, s \in {1, 4},
        a \in {-1, 0, 2000, 4000, 9000}, e \in {2, 4}}

OneConfig == CHOOSE c \in AnyConfig : c.element = 2

\* A model of two layers in bfloat16, with memory for all its sequences.
ServingConfig ==
    {[layers |-> 2, D |-> 128, H |-> 8, QH |-> 32, bits |-> 2, group |-> 32,
      capacity |-> 128, N |-> 1024, seqs |-> 8, available |-> 10^9,
      element |-> 2]}

JustOne == {OneToken}

\* How each of them begins when another goes on.
EstimateStarts == config = OneConfig /\ plan = NoPlan

TokenStarts == token = OneToken /\ stored = FALSE /\ Init

AttentionStarts ==
    /\ n_stored = 0 /\ count = 0
    /\ scoreC = [n \in PositionC |-> 0] /\ scoreR = [n \in PositionR |-> 0]
    /\ AttentionInit

MCInit ==
    \/ /\ subject = "token"
       /\ EstimateStarts /\ AttentionStarts
       /\ Init
    \/ /\ subject = "attention"
       /\ EstimateStarts /\ TokenStarts
       /\ AttentionInit
    \/ /\ subject = "estimate"
       /\ TokenStarts /\ AttentionStarts
       /\ MemoryInit

\* A token has been read, or the estimate has been made: nothing follows.
Finished ==
    /\ pc \in {"done", "raised"} \/ plan # NoPlan
    /\ UNCHANGED mcVars

MCNext ==
    \/ subject = "token" /\ Next /\ UNCHANGED <<subject, attentionVars, memoryVars>>
    \/ subject = "attention" /\ AttentionNext /\ UNCHANGED <<subject, vars, memoryVars>>
    \/ subject = "estimate" /\ EstimateMemory
                            /\ UNCHANGED <<subject, vars, attentionVars>>
    \/ Finished

MCSpec == MCInit /\ [][MCNext]_mcVars

=============================================================================
