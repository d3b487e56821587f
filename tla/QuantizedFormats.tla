-------------------------- MODULE QuantizedFormats --------------------------
(***************************************************************************)
(* core/quantizer.py, runtime/kv_store.py and core/triton_kernels.py: how  *)
(* the indices and signs of a quantized key and the groups of a quantized  *)
(* value become bytes, how append_chunk() copies them into the buffers of  *)
(* the store, and how the kernels, byte by byte, and the functions of      *)
(* PyTorch read them.                                                      *)
(*                                                                         *)
(* A token goes this way alone: its key is given by the index of each of   *)
(* its coordinates and the signs of its projection, its value by integers, *)
(* in units of the smallest positive float16, 2^-24.  The arithmetic of    *)
(* the value's own dtype is exact here; what rounds is quantization to     *)
(* levels, and the narrowing of scales and zeros to float16 in the store.  *)
(***************************************************************************)
EXTENDS PackedGeometry, Sequences, SequencesExt

CONSTANTS
    Tokens,         \* records [dim, bits, group, levels, indices, projected,
                    \* value]; bits are those of an index, one less than
                    \* key_bits, levels those of a value, 2^value_bits - 1
    Significand,    \* binary digits of a float16: 11
    Exponents,      \* its units are 2^0 to 2^Exponents times the smallest: 29
    NotFinite       \* infinity, or not a number

ASSUME Float16Assumption ==
    /\ Significand \in Nat \ {0} /\ Exponents \in Nat
    /\ NotFinite \notin Int

ASSUME TokensAssumption ==
    \A t \in Tokens :
        /\ t.dim \in Nat /\ t.bits \in 1 .. 8
        /\ t.group \in Nat \ {0} /\ t.levels \in 1 .. 255
        /\ t.indices \in Seq(Nat) /\ Len(t.indices) = t.dim
        /\ \A i \in 1 .. t.dim : t.indices[i] \in 0 .. 2^t.bits - 1
        /\ t.projected \in Seq(Int) /\ Len(t.projected) = t.dim
        /\ t.value \in Seq(Int) /\ Len(t.value) = t.dim

VARIABLES
    token,          \* the token as it is
    stored,         \* whether it goes through the buffers of the store
    pc,             \* quantize, append, mse, signs, value, done or raised
    row,            \* the bytes of each field of the token
    scored,         \* the index that the kernel used for each coordinate
    signed,         \* the sign that it used for each coordinate
    read            \* the value it accumulated, times levels

vars == <<token, stored, pc, row, scored, signed, read>>

-----------------------------------------------------------------------------
\* F.pad() to a multiple of n.
Pad(s, n) == s \o [i \in 1 .. (n - (Len(s) % n)) % n |-> 0]

\* Fields of width bits, n to a byte, the first one lowest; uint8 arithmetic.
Pack(s, width, n) ==
    LET p == Pad(s, n)
    IN  [b \in 1 .. Len(p) \div n |->
           SumFunction([j \in 0 .. n - 1 |->
                          (p[n * (b - 1) + j + 1] * 2^(width * j)) % 256]) % 256]

\* Field j of a byte.
Field(byte, width, j) == (byte \div 2^(width * j)) % 2^width

PackIndices(indices, bits) == Pack(indices, EffBits(bits), ValsPerByte(bits))

PackSigns(projected) ==
    Pack([i \in DOMAIN projected |-> IF projected[i] > 0 THEN 1 ELSE 0], 1, 8)

\* _unpack_indices()
UnpackIndices(bytes, bits, d) ==
    LET n == ValsPerByte(bits)
    IN  SubSeq([i \in 1 .. n * Len(bytes) |->
                  Field(bytes[((i - 1) \div n) + 1], EffBits(bits), (i - 1) % n)],
               1, d)

\* _unpack_qjl_signs()
UnpackSigns(bytes, d) ==
    SubSeq([i \in 1 .. 8 * Len(bytes) |->
              2 * Field(bytes[((i - 1) \div 8) + 1], 1, (i - 1) % 8) - 1], 1, d)

(* Mutant of Round: what is left of a step is cut off. *)
RoundDown(a, b) == a \div b

\* round(a / b), half to even.
Round(a, b) ==
    LET q == a \div b
        r == 2 * (a % b)
    IN  IF r < b \/ (r = b /\ q % 2 = 0) THEN q ELSE q + 1

Abs(a) == IF a < 0 THEN -a ELSE a

\* The smallest float16 with all its digits, and the largest.
Normal == 2^(Significand - 1)
Largest == (2^Significand - 1) * 2^Exponents

\* to(torch.float16): a / b in the unit of the least exponent that leaves it
\* enough digits, rounded; what is rounded beyond the largest is infinite.
Narrow(a, b) ==
    LET fitting == {e \in 0 .. Exponents : Abs(a) < b * 2^(Significand + e)}
        unit    == 2^Min(fitting \cup {Exponents})
        nearest == unit * Round(a, b * unit)
    IN  IF Abs(nearest) <= Largest THEN nearest ELSE NotFinite

\* quantize_values(): per group the smallest value, the span as levels times
\* the scale, and the rounded steps; a span of nothing has no steps.
QuantizeValue(v, group, levels) ==
    LET lo == [g \in 1 .. Len(v) \div group |->
                 Min({v[i] : i \in (g - 1) * group + 1 .. g * group})]
        hi == [g \in DOMAIN lo |->
                 Max({v[i] : i \in (g - 1) * group + 1 .. g * group})]
        G(i) == ((i - 1) \div group) + 1
    IN  [data |-> [i \in DOMAIN v |->
                     IF hi[G(i)] = lo[G(i)] THEN 0
                     ELSE Round((v[i] - lo[G(i)]) * levels, hi[G(i)] - lo[G(i)])],
         scales |-> [g \in DOMAIN lo |-> hi[g] - lo[g]],
         zeros |-> lo]

\* copy_() into n places: one element is repeated, another length is refused.
Copies(s, n) == Len(s) \in {1, n}
CopyTo(s, n) == [i \in 1 .. n |-> IF Len(s) = 1 THEN s[1] ELSE s[i]]

-----------------------------------------------------------------------------
Init ==
    /\ token \in Tokens
    /\ stored \in BOOLEAN
    /\ pc = "quantize"
    /\ row = <<>>
    /\ scored = <<>>
    /\ signed = <<>>
    /\ read = <<>>

\* TurboQuantProd.quantize() and quantize_values(), which asserts that the
\* groups divide the dimension.
Quantize ==
    /\ pc = "quantize"
    /\ LET v == QuantizeValue(token.value, token.group, token.levels)
       IN  IF token.dim % token.group # 0
           THEN pc' = "raised" /\ UNCHANGED row
           ELSE /\ pc' = IF stored THEN "append" ELSE "mse"
                /\ row' = [mse |-> PackIndices(token.indices, token.bits),
                           signs |-> PackSigns(token.projected),
                           data |-> v.data, scales |-> v.scales,
                           zeros |-> v.zeros]
    /\ UNCHANGED <<token, stored, scored, signed, read>>

\* What the store keeps of a span, again as levels times the scale.
NarrowScale(span, levels) ==
    LET scale == Narrow(span, levels)
    IN  IF scale = NotFinite THEN NotFinite ELSE levels * scale

\* append_chunk(): the copies into the buffers, of which those of the value
\* always fit, but scales and zeros are narrowed.
StoreRow ==
    /\ pc = "append"
    /\ LET dm == PackedDMse(token.dim, token.bits)
           ds == PackedDSigns(token.dim)
       IN  IF Copies(row.mse, dm) /\ Copies(row.signs, ds)
           THEN /\ pc' = "mse"
                /\ row' = [mse    |-> CopyTo(row.mse, dm),
                           signs  |-> CopyTo(row.signs, ds),
                           data   |-> row.data,
                           scales |-> [g \in DOMAIN row.scales |->
                                         NarrowScale(row.scales[g], token.levels)],
                           zeros  |-> [g \in DOMAIN row.zeros |->
                                         Narrow(row.zeros[g], 1)]]
           ELSE pc' = "raised" /\ UNCHANGED row
    /\ UNCHANGED <<token, stored, scored, signed, read>>

(* Mutant of ScoreByte: the coordinates that pad the last byte count too. *)
ScoreBytePadded ==
    /\ pc = "mse"
    /\ LET n == ValsPerByte(token.bits)
           b == Len(scored) \div n
       IN  IF b * n < Len(scored) \/ b >= Len(row.mse)
           THEN pc' = "signs" /\ UNCHANGED scored
           ELSE /\ scored' = scored \o
                     [j \in 1 .. n |->
                        Field(row.mse[b + 1], EffBits(token.bits), j - 1)]
                /\ UNCHANGED pc
    /\ UNCHANGED <<token, stored, row, signed, read>>

\* One turn of the loop over the bytes of the indices in a kernel: each of the
\* fields that is a coordinate adds its centroid times that of the query.
ScoreByte ==
    /\ pc = "mse"
    /\ LET n == ValsPerByte(token.bits)
           b == Len(scored) \div n
       IN  IF b * n < Len(scored) \/ b >= Len(row.mse)
           THEN pc' = "signs" /\ UNCHANGED scored
           ELSE /\ scored' = scored \o
                     [j \in 1 .. Min({n, token.dim - b * n}) |->
                        Field(row.mse[b + 1], EffBits(token.bits), j - 1)]
                /\ UNCHANGED pc
    /\ UNCHANGED <<token, stored, row, signed, read>>

\* One turn of the loop over the bytes of the signs.
SignByte ==
    /\ pc = "signs"
    /\ LET b == Len(signed) \div 8
       IN  IF b * 8 < Len(signed) \/ b >= Len(row.signs)
           THEN pc' = "value" /\ UNCHANGED signed
           ELSE /\ signed' = signed \o
                     [j \in 1 .. Min({8, token.dim - b * 8}) |->
                        IF Field(row.signs[b + 1], 1, j - 1) = 1 THEN 1 ELSE -1]
                /\ UNCHANGED pc
    /\ UNCHANGED <<token, stored, row, scored, read>>

\* The value with the scale and the zero of its group, in the kernels and in
\* dequantize_values(); times levels, to stay with integers.
AccumulateValue ==
    /\ pc = "value"
    /\ read' = [i \in 1 .. token.dim |->
                  LET g == ((i - 1) \div token.group) + 1
                  IN  IF NotFinite \in {row.scales[g], row.zeros[g]} THEN NotFinite
                      ELSE row.data[i] * row.scales[g] + token.levels * row.zeros[g]]
    /\ pc' = "done"
    /\ UNCHANGED <<token, stored, row, scored, signed>>

Next == Quantize \/ StoreRow \/ ScoreByte \/ SignByte \/ AccumulateValue

Spec == Init /\ [][Next]_vars

-----------------------------------------------------------------------------
(* Properties.                                                             *)

\* The store has room for what the quantizers return, for every head
\* dimension that is whole in bytes of signs and in groups and every width of
\* a key that its geometry knows; append_chunk() then never raises.
FillsItsBuffers ==
    pc = "raised" =>
        token.dim % 8 # 0 \/ token.dim % token.group # 0 \/ token.bits > 4

\* A kernel scores each coordinate once, with its own index and its own sign,
\* and so do the functions that unpack a row; whatever the width of an index
\* and also when the last byte is padded, in a row that was not stored.
ReadersRecoverKey ==
    pc = "done" /\ (stored => token.dim % 8 = 0) =>
        /\ scored = token.indices
        /\ scored = UnpackIndices(row.mse, token.bits, token.dim)
        /\ signed = [i \in 1 .. token.dim |->
                       IF token.projected[i] > 0 THEN 1 ELSE -1]
        /\ signed = UnpackSigns(row.signs, token.dim)

\* A value that has not been stored comes back within half a step of its group.
\* The store adds at most half a digit of the scale, on every step taken, and
\* half a digit of the zero, a digit being that of a float16 or its smallest
\* unit; and it makes a value infinite only if the zero or the scale of its
\* group is larger than every float16.
ValueComesBackClose ==
    pc = "done" =>
        \A i \in 1 .. token.dim :
            LET v == QuantizeValue(token.value, token.group, token.levels)
                g == ((i - 1) \div token.group) + 1
                span == v.scales[g]
                zero == v.zeros[g]
                narrowing == v.data[i] * Max({Normal * token.levels, span})
                               + token.levels * Max({Normal, Abs(zero)})
            IN  IF read[i] = NotFinite
                THEN stored /\ \/ Abs(zero) > Largest
                               \/ span > token.levels * Largest
                ELSE 2 * Normal * Abs(read[i] - token.levels * token.value[i])
                       <= Normal * span + (IF stored THEN narrowing ELSE 0)

=============================================================================
