--------------------------- MODULE KernelProofs ---------------------------
(***************************************************************************)
(* Theorems about what the kernels and the quantizers compute: the formats *)
(* of quantized keys and values, for tokens of every dimension; the        *)
(* estimate of the memory that these formats take, for configurations of   *)
(* every size; and the online softmax of the attention kernels, for tiers, *)
(* blocks and scores of every size.                                        *)
(***************************************************************************)
EXTENDS QuantizedFormats, MemoryEstimate, DecodeAttention, FiniteInduction

-----------------------------------------------------------------------------
(* The estimate of memory.                                                 *)

Config == [layers : Nat \ {0}, D : Nat, H : Nat, QH : Nat, bits : Nat \ {0},
           group : Nat \ {0}, capacity : Nat \ {0}, N : Nat, seqs : Nat,
           available : Int, element : {2, 4}]

\* The geometry of a row is in natural numbers.
LEMMA GeometryType ==
  ASSUME NEW d \in Nat, NEW b \in Nat, NEW g \in Nat \ {0}
  PROVE  /\ PackedDMse(d, b) \in Nat
         /\ PackedDSigns(d) \in Nat
         /\ NGroups(d, g) \in Nat
<1>1. d \div 8 \in Nat /\ d \div 4 \in Nat /\ d \div 2 \in Nat /\ d \div g \in Nat
  OBVIOUS
<1>2. QED
  BY <1>1 DEF PackedDMse, PackedDSigns, NGroups

\* The two copies of the sizes of the fields agree, and an element of a ring
\* buffer is taken to have two bytes.
Uncounted(c) == 2 * c.capacity * c.H * c.D * (c.element - 2)

LEMMA SameGeometry ==
  ASSUME NEW c \in Config
  PROVE  PerRequestPerLayer(c) = StoreBytes(c) + RingBytes(c) - Uncounted(c)
<1> DEFINE m == PackedDMse(c.D, c.bits)
           s == PackedDSigns(c.D)
           g == NGroups(c.D, c.group)
           t == c.H * c.N
           r == 2 * c.capacity * c.H * c.D
           e == c.element
<1>1. /\ m \in Nat /\ s \in Nat /\ g \in Nat
      /\ c.H \in Nat /\ c.N \in Nat /\ c.D \in Nat /\ c.capacity \in Nat
      /\ e \in {2, 4}
  BY GeometryType DEF Config
<1>2. /\ StoreBytes(c) = t * m + t * s + 2 * t + 2 * t + t * c.D
                           + 2 * (t * g) + 2 * (t * g) + 4
      /\ RingBytes(c) = r * e + 3 * 8
      /\ Uncounted(c) = r * (e - 2)
      /\ PerRequestPerLayer(c) =
           t * m + t * s + t * 2 + t * 2 + t * c.D + t * g * 2 + t * g * 2 + 4
             + (r * 2 + 3 * 8)
  BY DEF StoreBytes, RingBytes, Uncounted, PerRequestPerLayer, PackedDMse,
         PackedDSigns, NGroups
<1>3. t \in Nat /\ r \in Nat
  BY <1>1
<1> HIDE DEF m, s, g, t, r, e
<1>4. r * e - r * (e - 2) = r * 2 /\ r * e \in Int /\ r * (e - 2) \in Int
  BY <1>1, <1>3
<1>5. QED
  BY <1>1, <1>2, <1>3, <1>4

\* What an estimate is, before it has been made and afterwards.
Estimate(c) ==
  [per_request_per_layer |-> PerRequestPerLayer(c),
   max_concurrent |-> MaxConcurrent(c),
   total |-> PerRequestPerLayer(c) * c.layers * MaxConcurrent(c)
               + Overhead(c) * c.layers]

EstimateInv == config \in Config /\ (plan = NoPlan \/ plan = Estimate(config))

LEMMA AlwaysAnEstimate == MemorySpec => []EstimateInv
<1>1. MemoryInit => EstimateInv
  BY ConfigsAssumption DEF MemoryInit, EstimateInv, Config
<1>2. EstimateInv /\ [EstimateMemory]_memoryVars => EstimateInv'
  BY DEF EstimateInv, EstimateMemory, memoryVars, Estimate
<1>3. QED
  BY <1>1, <1>2, PTL DEF MemorySpec

\* The sizes are integers, and a request needs memory.
LEMMA SizesType ==
  ASSUME NEW c \in Config
  PROVE  /\ StoreBytes(c) \in Nat \ {0}
         /\ PerRequestPerLayer(c) \in Nat \ {0}
         /\ Overhead(c) \in Int
<1> DEFINE m == PackedDMse(c.D, c.bits)
           s == PackedDSigns(c.D)
           g == NGroups(c.D, c.group)
           t == c.H * c.N
<1>1. /\ m \in Nat /\ s \in Nat /\ g \in Nat
      /\ c.H \in Nat /\ c.N \in Nat /\ c.D \in Nat /\ c.capacity \in Nat
      /\ c.QH \in Nat /\ 2^c.bits \in Int /\ t \in Nat
  <2>1. /\ c.H \in Nat /\ c.N \in Nat /\ c.D \in Nat /\ c.capacity \in Nat
        /\ c.QH \in Nat /\ c.bits \in Nat /\ c.group \in Nat \ {0}
    BY DEF Config
  <2>2. m \in Nat /\ s \in Nat /\ g \in Nat
    BY <2>1, GeometryType
  <2>3. 2^c.bits \in Int
    BY <2>1
  <2>4. QED
    BY <2>1, <2>2, <2>3
<1>2. StoreBytes(c) = t * m + t * s + 2 * t + 2 * t + t * c.D
                        + 2 * (t * g) + 2 * (t * g) + 4
  BY DEF StoreBytes
<1>3. StoreBytes(c) \in Nat \ {0}
  <2> HIDE DEF m, s, g, t
  <2>1. /\ t * m \in Nat /\ t * s \in Nat /\ t * c.D \in Nat /\ t * g \in Nat
    BY <1>1
  <2>2. QED
    BY <1>1, <1>2, <2>1
<1>4. 2 * c.capacity * c.H * c.D * 2 \in Nat
  BY <1>1
<1>5. PerRequestPerLayer(c) \in Nat \ {0}
  <2>1. PerRequestPerLayer(c) = StoreBytes(c) + (2 * c.capacity * c.H * c.D * 2 + 3 * 8)
    <3>1. PerRequestPerLayer(c) =
            t * m + t * s + t * 2 + t * 2 + t * c.D + t * g * 2 + t * g * 2 + 4
              + (2 * c.capacity * c.H * c.D * 2 + 3 * 8)
      BY DEF PerRequestPerLayer, PackedDMse, PackedDSigns, NGroups
    <3> HIDE DEF m, s, g, t
    <3>2. QED
      BY <1>1, <1>2, <1>4, <3>1
  <2>2. QED
    BY <1>3, <1>4, <2>1
<1>6. Overhead(c) \in Int
  BY <1>1 DEF Overhead
<1>7. QED
  BY <1>3, <1>5, <1>6

\* As many as fit, once at least and at most as many as asked for.
LEMMA AtMostWhatFits ==
  ASSUME NEW a \in Int, NEW one \in Nat \ {0}, NEW seqs \in Nat,
         NEW n, n = Lesser(seqs, Greater(1, a \div one))
  PROVE  /\ n \in Nat
         /\ one * n <= a \/ n <= 1
         /\ n = seqs \/ one * n + one > a
<1> DEFINE q == a \div one
<1>1. q \in Int /\ one * q <= a /\ a < one * (q + 1)
  OBVIOUS
<1> HIDE DEF q
<1>2. n \in Nat /\ (n <= q \/ n <= 1) /\ (n = seqs \/ n >= q)
  BY <1>1 DEF Lesser, Greater, q
<1>3. n <= q => one * n <= one * q
  BY <1>1, <1>2
<1>4. n >= q => one * (n + 1) >= one * (q + 1)
  BY <1>1, <1>2
<1>5. one * (n + 1) = one * n + one /\ one * n \in Int /\ one * q \in Int
      /\ one * (q + 1) \in Int
  BY <1>1, <1>2
<1>6. QED
  BY <1>1, <1>2, <1>3, <1>4, <1>5

\* memory.py:85-102 next to kv_store.py:314-325 and ring_buffer.py:168-173: the
\* estimate for a request is what its states report, for every configuration
\* with elements of two bytes, and less by half the ring buffer's keys and values
\* for every one with elements of four.
THEOREM EstimateIsRight == MemorySpec => []EstimateIsReported
<1>1. EstimateInv /\ plan # NoPlan =>
        plan.per_request_per_layer
          = StoreBytes(config) + RingBytes(config) - Uncounted(config)
  BY SameGeometry DEF EstimateInv, Estimate
<1>2. EstimateInv => EstimateIsReported
  BY <1>1 DEF EstimateIsReported, Uncounted
<1>3. QED
  BY <1>2, AlwaysAnEstimate, PTL

\* memory.py:119-125: the requests that are said to fit do fit, unless not even
\* one does, and one more would not, unless max_num_seqs forbids it.
THEOREM PlanIsRight == MemorySpec => []PlanFits
<1>1. ASSUME EstimateInv, plan # NoPlan
      PROVE  /\ plan.total <= config.available \/ plan.max_concurrent <= 1
             /\ plan.max_concurrent = config.seqs
                \/ plan.total + plan.per_request_per_layer * config.layers
                     > config.available
  <2> DEFINE P == PerRequestPerLayer(config)
             L == config.layers
             O == Overhead(config) * L
             n == MaxConcurrent(config)
             one == P * L
             a == config.available - O
  <2>1. config \in Config /\ plan = Estimate(config)
    BY <1>1 DEF EstimateInv
  <2>2. /\ P \in Nat \ {0} /\ L \in Nat \ {0} /\ Overhead(config) \in Int
        /\ config.seqs \in Nat /\ config.available \in Int
    BY <2>1, SizesType DEF Config
  <2>3. one \in Nat \ {0} /\ O \in Int /\ a \in Int
    BY <2>2
  <2>4. n = Lesser(config.seqs, Greater(1, a \div one))
    BY DEF MaxConcurrent
  <2>5. /\ plan.total = one * n + O /\ plan.max_concurrent = n
        /\ plan.per_request_per_layer * config.layers = one
    BY <2>1 DEF Estimate
  <2> HIDE DEF P, L, n, O, one
  <2>6. /\ n \in Nat
        /\ one * n <= a \/ n <= 1
        /\ n = config.seqs \/ one * n + one > a
    BY <2>2, <2>3, <2>4, AtMostWhatFits
  <2>7. one * n \in Int
    BY <2>3, <2>6
  <2>8. QED
    BY <2>2, <2>3, <2>5, <2>6, <2>7
<1>2. EstimateInv => PlanFits
  BY <1>1 DEF PlanFits
<1>3. QED
  BY <1>2, AlwaysAnEstimate, PTL

-----------------------------------------------------------------------------
(* Bytes.                                                                  *)

\* The formats of an index and of a sign: fields of width bits, n to a byte.
IsFormat(width, n) ==
  \/ width = 1 /\ n = 8
  \/ width = 2 /\ n = 4
  \/ width = 4 /\ n = 2
  \/ width = 8 /\ n = 1

\* A byte with the n fields that x holds.
Byte(x, width, n) == SumFunction([j \in 0 .. n - 1 |-> (x[j] * 2^(width * j)) % 256]) % 256

\* The sums that a byte is made of.
LEMMA FieldSums ==
  ASSUME NEW f
  PROVE  /\ (\A i \in 0 .. 0 : f[i] \in Int) =>
              SumFunctionOnSet(f, 0 .. 0) = f[0]
         /\ (\A i \in 0 .. 1 : f[i] \in Int) =>
              SumFunctionOnSet(f, 0 .. 1) = f[0] + f[1]
         /\ (\A i \in 0 .. 3 : f[i] \in Int) =>
              SumFunctionOnSet(f, 0 .. 3) = f[0] + f[1] + f[2] + f[3]
         /\ (\A i \in 0 .. 7 : f[i] \in Int) =>
              SumFunctionOnSet(f, 0 .. 7) =
                f[0] + f[1] + f[2] + f[3] + f[4] + f[5] + f[6] + f[7]
<1> DEFINE sum(n) == SumFunctionOnSet(f, 0 .. n)
<1>1. ASSUME NEW n \in Nat, \A i \in 0 .. n : f[i] \in Int
      PROVE  sum(0) = f[0] /\ (n > 0 => sum(n) = f[n] + sum(n - 1))
  BY <1>1, SumUpTo
<1> HIDE DEF sum
<1>2. (\A i \in 0 .. 0 : f[i] \in Int) => sum(0) = f[0]
  BY <1>1
<1>3. ASSUME \A i \in 0 .. 1 : f[i] \in Int PROVE sum(1) = f[0] + f[1]
  <2>1. sum(1) = f[1] + sum(0) /\ sum(0) = f[0]
    BY <1>1, <1>3
  <2>2. f[0] \in Int /\ f[1] \in Int
    BY <1>3
  <2>3. QED
    BY <2>1, <2>2
<1>4. ASSUME \A i \in 0 .. 3 : f[i] \in Int PROVE sum(3) = f[0] + f[1] + f[2] + f[3]
  <2>1. sum(3) = f[3] + sum(2) /\ sum(2) = f[2] + sum(1) /\ sum(1) = f[0] + f[1]
    BY <1>1, <1>3, <1>4
  <2>2. f[0] \in Int /\ f[1] \in Int /\ f[2] \in Int /\ f[3] \in Int
    BY <1>4
  <2>3. QED
    BY <2>1, <2>2
<1>5. ASSUME \A i \in 0 .. 7 : f[i] \in Int
      PROVE  sum(7) = f[0] + f[1] + f[2] + f[3] + f[4] + f[5] + f[6] + f[7]
  <2>1. sum(7) = f[7] + sum(6)
    BY <1>1, <1>5, SMTT(30)
  <2>2. sum(6) = f[6] + sum(5)
    BY <1>1, <1>5
  <2>3. sum(5) = f[5] + sum(4)
    BY <1>1, <1>5, SMTT(30)
  <2>4. sum(4) = f[4] + sum(3)
    BY <1>1, <1>5
  <2>5. sum(3) = f[0] + f[1] + f[2] + f[3]
    BY <1>4, <1>5
  <2>6. /\ f[0] \in Int /\ f[1] \in Int /\ f[2] \in Int /\ f[3] \in Int
        /\ f[4] \in Int /\ f[5] \in Int /\ f[6] \in Int /\ f[7] \in Int
    BY <1>5
  <2>7. QED
    BY <2>1, <2>2, <2>3, <2>4, <2>5, <2>6
<1>6. QED
  BY <1>2, <1>3, <1>4, <1>5 DEF sum

\* The fields of a byte that has four.
LEMMA FourFields ==
  ASSUME NEW a \in 0 .. 3, NEW b \in 0 .. 3, NEW c \in 0 .. 3, NEW d \in 0 .. 3,
         NEW B, B = a + 4 * b + 16 * c + 64 * d
  PROVE  /\ Field(B, 2, 0) = a
         /\ Field(B, 2, 1) = b
         /\ Field(B, 2, 2) = c
         /\ Field(B, 2, 3) = d
<1>1. Field(B, 2, 0) = a
  BY DEF Field
<1>2. Field(B, 2, 1) = b
  BY DEF Field
<1>3. Field(B, 2, 2) = c
  BY DEF Field
<1>4. Field(B, 2, 3) = d
  BY DEF Field
<1>5. QED
  BY <1>1, <1>2, <1>3, <1>4

\* The fields of a byte that has eight.
LEMMA EightFields ==
  ASSUME NEW a \in 0 .. 1, NEW b \in 0 .. 1, NEW c \in 0 .. 1, NEW d \in 0 .. 1,
         NEW e \in 0 .. 1, NEW f \in 0 .. 1, NEW g \in 0 .. 1, NEW h \in 0 .. 1,
         NEW B, B = a + 2 * b + 4 * c + 8 * d + 16 * e + 32 * f + 64 * g + 128 * h
  PROVE  /\ Field(B, 1, 0) = a
         /\ Field(B, 1, 1) = b
         /\ Field(B, 1, 2) = c
         /\ Field(B, 1, 3) = d
         /\ Field(B, 1, 4) = e
         /\ Field(B, 1, 5) = f
         /\ Field(B, 1, 6) = g
         /\ Field(B, 1, 7) = h
<1>1. Field(B, 1, 0) = a
  BY DEF Field
<1>2. Field(B, 1, 1) = b
  BY DEF Field
<1>3. Field(B, 1, 2) = c
  BY DEF Field
<1>4. Field(B, 1, 3) = d
  BY DEF Field
<1>5. Field(B, 1, 4) = e
  BY DEF Field
<1>6. Field(B, 1, 5) = f
  BY DEF Field
<1>7. Field(B, 1, 6) = g
  BY DEF Field
<1>8. Field(B, 1, 7) = h
  BY DEF Field
<1>9. QED
  BY <1>1, <1>2, <1>3, <1>4, <1>5, <1>6, <1>7, <1>8

\* What is shifted into a byte is masked out of it again: fields do not
\* overlap, and none reaches beyond the byte.
LEMMA FieldOfByte ==
  ASSUME NEW width, NEW n, IsFormat(width, n),
         NEW x, \A j \in 0 .. n - 1 : x[j] \in 0 .. 2^width - 1
  PROVE  \A j \in 0 .. n - 1 : Field(Byte(x, width, n), width, j) = x[j]
<1> DEFINE f == [j \in 0 .. n - 1 |-> (x[j] * 2^(width * j)) % 256]
<1>1. Byte(x, width, n) = SumFunctionOnSet(f, 0 .. n - 1) % 256
  BY DEF Byte, SumFunction
<1>2. CASE width = 8 /\ n = 1
  <2>1. x[0] \in 0 .. 255
    BY <1>2
  <2>2. f[0] = x[0]
    BY <1>2, <2>1
  <2> HIDE DEF f
  <2>3. SumFunctionOnSet(f, 0 .. 0) = x[0]
    BY <2>1, <2>2, FieldSums
  <2>4. Field(Byte(x, width, n), width, 0) = x[0]
    BY <1>1, <1>2, <2>1, <2>3 DEF Field
  <2>5. QED
    BY <1>2, <2>4
<1>3. CASE width = 4 /\ n = 2
  <2>1. x[0] \in 0 .. 15 /\ x[1] \in 0 .. 15
    BY <1>3
  <2>2. f[0] = x[0] /\ f[1] = 16 * x[1]
    BY <1>3, <2>1
  <2> HIDE DEF f
  <2>3. SumFunctionOnSet(f, 0 .. 1) = x[0] + 16 * x[1]
    BY <2>1, <2>2, FieldSums
  <2> DEFINE B == Byte(x, width, n)
  <2>4. B = x[0] + 16 * x[1]
    BY <1>1, <1>3, <2>1, <2>3
  <2> HIDE DEF B
  <2>5. Field(B, 4, 0) = x[0] /\ Field(B, 4, 1) = x[1]
    BY <2>1, <2>4 DEF Field
  <2>6. QED
    BY <1>3, <2>5 DEF B
<1>4. CASE width = 2 /\ n = 4
  <2>1. x[0] \in 0 .. 3 /\ x[1] \in 0 .. 3 /\ x[2] \in 0 .. 3 /\ x[3] \in 0 .. 3
    BY <1>4
  <2>2. /\ 2^(2 * 0) = 1 /\ 2^(2 * 1) = 4 /\ 2^(2 * 2) = 16 /\ 2^(2 * 3) = 64
    OBVIOUS
  <2>3. f[0] = x[0] /\ f[1] = 4 * x[1] /\ f[2] = 16 * x[2] /\ f[3] = 64 * x[3]
    <3>1. /\ f[0] = (x[0] * 1) % 256 /\ f[1] = (x[1] * 4) % 256
          /\ f[2] = (x[2] * 16) % 256 /\ f[3] = (x[3] * 64) % 256
      BY <1>4, <2>2
    <3> HIDE DEF f
    <3>2. QED
      BY <2>1, <3>1
  <2> HIDE DEF f
  <2>4. SumFunctionOnSet(f, 0 .. 3) = x[0] + 4 * x[1] + 16 * x[2] + 64 * x[3]
    BY <2>1, <2>3, FieldSums
  <2> DEFINE B == Byte(x, width, n)
  <2>5. B = x[0] + 4 * x[1] + 16 * x[2] + 64 * x[3]
    <3>1. B = SumFunctionOnSet(f, 0 .. 3) % 256
      BY <1>1, <1>4
    <3> HIDE DEF B
    <3>2. QED
      BY <2>1, <2>4, <3>1
  <2> HIDE DEF B
  <2>6. /\ Field(B, 2, 0) = x[0] /\ Field(B, 2, 1) = x[1]
        /\ Field(B, 2, 2) = x[2] /\ Field(B, 2, 3) = x[3]
    BY <2>1, <2>5, FourFields
  <2>7. QED
    BY <1>4, <2>6 DEF B
<1>5. CASE width = 1 /\ n = 8
  <2>1. /\ x[0] \in 0 .. 1 /\ x[1] \in 0 .. 1 /\ x[2] \in 0 .. 1 /\ x[3] \in 0 .. 1
        /\ x[4] \in 0 .. 1 /\ x[5] \in 0 .. 1 /\ x[6] \in 0 .. 1 /\ x[7] \in 0 .. 1
    BY <1>5
  <2>2. /\ 2^(1 * 0) = 1 /\ 2^(1 * 1) = 2 /\ 2^(1 * 2) = 4 /\ 2^(1 * 3) = 8
        /\ 2^(1 * 4) = 16 /\ 2^(1 * 5) = 32 /\ 2^(1 * 6) = 64 /\ 2^(1 * 7) = 128
    OBVIOUS
  <2>3. /\ f[0] = x[0] /\ f[1] = 2 * x[1] /\ f[2] = 4 * x[2] /\ f[3] = 8 * x[3]
        /\ f[4] = 16 * x[4] /\ f[5] = 32 * x[5] /\ f[6] = 64 * x[6]
        /\ f[7] = 128 * x[7]
    <3>1. /\ f[0] = (x[0] * 1) % 256 /\ f[1] = (x[1] * 2) % 256
          /\ f[2] = (x[2] * 4) % 256 /\ f[3] = (x[3] * 8) % 256
      BY <1>5, <2>2
    <3>2. /\ f[4] = (x[4] * 16) % 256 /\ f[5] = (x[5] * 32) % 256
          /\ f[6] = (x[6] * 64) % 256 /\ f[7] = (x[7] * 128) % 256
      BY <1>5, <2>2
    <3> HIDE DEF f
    <3>3. QED
      BY <2>1, <3>1, <3>2
  <2> HIDE DEF f
  <2>4. SumFunctionOnSet(f, 0 .. 7) =
          x[0] + 2 * x[1] + 4 * x[2] + 8 * x[3] + 16 * x[4] + 32 * x[5]
            + 64 * x[6] + 128 * x[7]
    <3>1. \A i \in 0 .. 7 : f[i] \in Int
      BY <2>1, <2>3
    <3>2. QED
      BY <2>3, <3>1, FieldSums
  <2> DEFINE B == Byte(x, width, n)
  <2>5. B = x[0] + 2 * x[1] + 4 * x[2] + 8 * x[3] + 16 * x[4] + 32 * x[5]
              + 64 * x[6] + 128 * x[7]
    <3>1. B = SumFunctionOnSet(f, 0 .. 7) % 256
      BY <1>1, <1>5
    <3> HIDE DEF B
    <3>2. QED
      BY <2>1, <2>4, <3>1
  <2> HIDE DEF B
  <2>6. /\ Field(B, 1, 0) = x[0] /\ Field(B, 1, 1) = x[1]
        /\ Field(B, 1, 2) = x[2] /\ Field(B, 1, 3) = x[3]
        /\ Field(B, 1, 4) = x[4] /\ Field(B, 1, 5) = x[5]
        /\ Field(B, 1, 6) = x[6] /\ Field(B, 1, 7) = x[7]
    BY <2>1, <2>5, EightFields
  <2>7. QED
    BY <1>5, <2>6 DEF B
<1>6. QED
  BY <1>2, <1>3, <1>4, <1>5 DEF IsFormat

\* Places in a sequence of bytes with n fields each.
LEMMA Places ==
  ASSUME NEW n \in {1, 2, 4, 8}, NEW a \in Nat, NEW b, b = a \div n
  PROVE  /\ b \in Nat
         /\ a % n \in 0 .. n - 1
         /\ a = b * n + (a % n)
<1>1. CASE n = 1
  BY <1>1
<1>2. CASE n = 2
  BY <1>2
<1>3. CASE n = 4
  BY <1>3
<1>4. CASE n = 8
  BY <1>4
<1>5. QED
  BY <1>1, <1>2, <1>3, <1>4

IsPlace(a, n, b, j) == a \div n = b /\ a % n = j

LEMMA PlaceInByte ==
  ASSUME NEW n \in {1, 2, 4, 8}, NEW b \in Nat, NEW j \in 0 .. n - 1,
         NEW a, a = b * n + j
  PROVE  IsPlace(a, n, b, j)
<1>1. CASE n = 1
  BY <1>1 DEF IsPlace
<1>2. CASE n = 2
  <2>1. a = b * 2 + j /\ j \in 0 .. 1
    BY <1>2
  <2>2. a \div 2 = b /\ a % 2 = j
    BY <2>1
  <2>3. QED
    BY <1>2, <2>2 DEF IsPlace
<1>3. CASE n = 4
  <2>1. a = b * 4 + j /\ j \in 0 .. 3
    BY <1>3
  <2>2. a \div 4 = b /\ a % 4 = j
    BY <2>1
  <2>3. QED
    BY <1>3, <2>2 DEF IsPlace
<1>4. CASE n = 8
  <2>1. a = b * 8 + j /\ j \in 0 .. 7
    BY <1>4
  <2>2. a \div 8 = b /\ a % 8 = j
    BY <2>1
  <2>3. QED
    BY <1>4, <2>2 DEF IsPlace
<1>5. QED
  BY <1>1, <1>2, <1>3, <1>4
\* What Pack() makes of a sequence: a byte for each n of its elements, the last
\* one padded, in which each element is the field of its place.
Packed(bytes, s, width, n) ==
  /\ Len(bytes) \in Nat
  /\ bytes \in Seq(Int)
  /\ n * Len(bytes) >= Len(s) /\ n * Len(bytes) < Len(s) + n
  /\ \A i \in 1 .. Len(s) :
       /\ ((i - 1) \div n) + 1 \in 1 .. Len(bytes)
       /\ Field(bytes[((i - 1) \div n) + 1], width, (i - 1) % n) = s[i]

LEMMA PackFacts ==
  ASSUME NEW width, NEW n, IsFormat(width, n),
         NEW s \in Seq(Int), \A i \in 1 .. Len(s) : s[i] \in 0 .. 2^width - 1
  PROVE  Packed(Pack(s, width, n), s, width, n)
<1> DEFINE z == (n - (Len(s) % n)) % n
           p == Pad(s, n)
           f(b) == [j \in 0 .. n - 1 |->
                      (p[n * (b - 1) + j + 1] * 2^(width * j)) % 256]
           x(b) == [j \in 0 .. n - 1 |-> p[n * (b - 1) + j + 1]]
           L == Len(p) \div n
           bytes == Pack(s, width, n)
<1>1. /\ n \in {1, 2, 4, 8} /\ Len(s) \in Nat
      /\ z \in 0 .. n - 1 /\ (Len(s) + z) % n = 0
  <2>1. n \in {1, 2, 4, 8} /\ Len(s) \in Nat
    BY DEF IsFormat
  <2>2. CASE n = 1
    BY <2>1, <2>2
  <2>3. CASE n = 2
    BY <2>1, <2>3
  <2>4. CASE n = 4
    BY <2>1, <2>4
  <2>5. CASE n = 8
    BY <2>1, <2>5
  <2>6. QED
    BY <2>1, <2>2, <2>3, <2>4, <2>5
<1>2. 0 \in 0 .. 2^width - 1 /\ width \in Nat /\ 0 .. 2^width - 1 \subseteq Int
  <2>1. 2^width \in {2, 4, 16, 256} /\ width \in Nat
    <3>1. CASE width = 1
      BY <3>1
    <3>2. CASE width = 2
      BY <3>2
    <3>3. CASE width = 4
      BY <3>3
    <3>4. CASE width = 8
      BY <3>4
    <3>5. QED
      BY <3>1, <3>2, <3>3, <3>4 DEF IsFormat
  <2>2. QED
    BY <2>1
<1>3. /\ Len(p) = Len(s) + z
      /\ \A i \in 1 .. Len(p) : p[i] \in 0 .. 2^width - 1
      /\ \A i \in 1 .. Len(s) : p[i] = s[i]
  <2> DEFINE r == [i \in 1 .. z |-> 0]
  <2>1. p = s \o r
    BY DEF Pad
  <2>2. r \in Seq(Int) /\ Len(r) = z /\ \A i \in 1 .. z : r[i] = 0
    BY <1>1
  <2> HIDE DEF z, p, r
  <2>3. /\ Len(p) = Len(s) + z
        /\ \A i \in 1 .. Len(p) : p[i] = IF i <= Len(s) THEN s[i] ELSE r[i - Len(s)]
    BY <1>1, <2>1, <2>2
  <2>4. ASSUME NEW i \in 1 .. Len(p) PROVE p[i] \in 0 .. 2^width - 1
    <3>1. CASE i <= Len(s)
      BY <1>1, <2>3, <3>1
    <3>2. CASE i > Len(s)
      <4>1. i - Len(s) \in 1 .. z
        BY <1>1, <2>3, <3>2
      <4>2. p[i] = 0
        BY <1>1, <2>2, <2>3, <3>2, <4>1
      <4>3. QED
        BY <1>2, <4>2
    <3>3. QED
      BY <1>1, <2>3, <3>1, <3>2
  <2>5. QED
    BY <1>1, <2>3, <2>4
<1>4. L \in Nat /\ n * L = Len(p) /\ n * L >= Len(s) /\ n * L < Len(s) + n
  <2> HIDE DEF p, z
  <2>1. n * L = Len(p) /\ L \in Nat
    <3>1. Len(p) \in Nat /\ Len(p) % n = 0
      BY <1>1, <1>3
    <3>2. CASE n = 1
      BY <3>1, <3>2
    <3>3. CASE n = 2
      BY <3>1, <3>3
    <3>4. CASE n = 4
      BY <3>1, <3>4
    <3>5. CASE n = 8
      BY <3>1, <3>5
    <3>6. QED
      BY <1>1, <3>2, <3>3, <3>4, <3>5
  <2> HIDE DEF L
  <2>2. QED
    BY <1>1, <1>3, <2>1
<1>5. bytes = [b \in 1 .. L |-> SumFunction(f(b)) % 256]
  BY DEF Pack
<1>6. ASSUME NEW b \in 1 .. L, NEW j \in 0 .. n - 1
       PROVE  p[n * (b - 1) + j + 1] \in 0 .. 2^width - 1
  <2>1. n * (b - 1) + j + 1 \in 1 .. Len(p)
    <3> HIDE DEF p, L
    <3>1. CASE n = 1
      BY <1>4, <3>1
    <3>2. CASE n = 2
      BY <1>4, <3>2
    <3>3. CASE n = 4
      BY <1>4, <3>3
    <3>4. CASE n = 8
      BY <1>4, <3>4
    <3>5. QED
      BY <1>1, <3>1, <3>2, <3>3, <3>4
  <2> HIDE DEF p
  <2>2. QED
    BY <1>3, <2>1
<1>7. ASSUME NEW b \in 1 .. L
      PROVE  \A j \in 0 .. n - 1 :
               Field(bytes[b], width, j) = p[n * (b - 1) + j + 1]
  <2>1. ASSUME NEW j \in 0 .. n - 1
        PROVE  x(b)[j] = p[n * (b - 1) + j + 1] /\ x(b)[j] \in 0 .. 2^width - 1
    <3>1. p[n * (b - 1) + j + 1] \in 0 .. 2^width - 1
      BY <1>6
    <3> HIDE DEF p
    <3>2. QED
      BY <3>1
  <2>2. Byte(x(b), width, n) = SumFunction(f(b)) % 256
    <3>1. f(b) = [j \in 0 .. n - 1 |-> (x(b)[j] * 2^(width * j)) % 256]
      OBVIOUS
    <3> HIDE DEF f, x
    <3>2. QED
      BY <3>1 DEF Byte
  <2>3. bytes[b] = Byte(x(b), width, n)
    BY <1>5, <2>2
  <2> DEFINE xb == x(b)
  <2>4. \A j \in 0 .. n - 1 : xb[j] \in 0 .. 2^width - 1
    BY <2>1
  <2> HIDE DEF xb
  <2>5. \A j \in 0 .. n - 1 : Field(Byte(xb, width, n), width, j) = xb[j]
    BY <2>4, FieldOfByte
  <2>6. QED
    BY <2>1, <2>3, <2>5 DEF xb
<1>8. bytes \in Seq(Int) /\ Len(bytes) = L
  <2>1. ASSUME NEW b \in 1 .. L PROVE SumFunction(f(b)) % 256 \in Int
    <3>1. SumFunctionOnSet(f(b), 0 .. n - 1) \in Int
      <4>1. IsFiniteSet(0 .. n - 1)
        BY <1>1, FS_Interval
      <4>2. ASSUME NEW j \in 0 .. n - 1 PROVE f(b)[j] \in Int
        <5>1. width * j \in Nat
          BY <1>1, <1>2
        <5>2. 2^(width * j) \in Int
          BY <5>1
        <5>3. p[n * (b - 1) + j + 1] \in Int
          BY <1>2, <1>6
        <5>4. (p[n * (b - 1) + j + 1] * 2^(width * j)) % 256 \in Int
          BY <5>2, <5>3
        <5>5. QED
          BY <5>4
      <4> DEFINE fb == f(b)
      <4> HIDE DEF fb
      <4>3. \A T \in SUBSET (0 .. n - 1) : SumFunctionOnSet(fb, T) \in Int
        BY <4>1, <4>2, SumType DEF fb
      <4>4. QED
        BY <4>3 DEF fb
    <3>2. SumFunction(f(b)) = SumFunctionOnSet(f(b), 0 .. n - 1)
      BY DEF SumFunction
    <3> DEFINE sum == SumFunction(f(b))
    <3>3. sum \in Int
      BY <3>1, <3>2
    <3> HIDE DEF sum
    <3>4. sum % 256 \in Int
      BY <3>3
    <3>5. QED
      BY <3>4 DEF sum
  <2> HIDE DEF f, L, bytes
  <2>2. QED
    BY <1>4, <1>5, <2>1
<1>9. ASSUME NEW i \in 1 .. Len(s)
      PROVE  /\ ((i - 1) \div n) + 1 \in 1 .. Len(bytes)
             /\ Field(bytes[((i - 1) \div n) + 1], width, (i - 1) % n) = s[i]
  <2> DEFINE b == ((i - 1) \div n) + 1
             j == (i - 1) % n
  <2> HIDE DEF p, L, bytes
  <2>1. /\ b \in 1 .. L /\ j \in 0 .. n - 1 /\ n * (b - 1) + j + 1 = i
    <3>1. CASE n = 1
      <4>1. j \in 0 .. 0 /\ b \in Int /\ 1 * (b - 1) + j + 1 = i
        BY <3>1
      <4> HIDE DEF b, j
      <4>2. QED
        BY <1>1, <1>4, <3>1, <4>1
    <3>2. CASE n = 2
      <4>1. j \in 0 .. 1 /\ b \in Int /\ 2 * (b - 1) + j + 1 = i
        BY <3>2
      <4> HIDE DEF b, j
      <4>2. QED
        BY <1>1, <1>4, <3>2, <4>1
    <3>3. CASE n = 4
      <4>1. j \in 0 .. 3 /\ b \in Int /\ 4 * (b - 1) + j + 1 = i
        BY <3>3, SMTT(30)
      <4> HIDE DEF b, j
      <4>2. QED
        BY <1>1, <1>4, <3>3, <4>1
    <3>4. CASE n = 8
      <4>1. j \in 0 .. 7 /\ b \in Int /\ 8 * (b - 1) + j + 1 = i
        BY <3>4
      <4> HIDE DEF b, j
      <4>2. QED
        BY <1>1, <1>4, <3>4, <4>1
    <3>5. QED
      BY <1>1, <3>1, <3>2, <3>3, <3>4
  <2> HIDE DEF b, j
  <2>2. Field(bytes[b], width, j) = p[i]
    BY <1>7, <2>1
  <2>3. QED
    BY <1>3, <1>8, <2>1, <2>2 DEF b, j
<1>10. QED
  <2> HIDE DEF bytes, L, p
  <2>1. QED
    BY <1>4, <1>8, <1>9 DEF Packed, bytes

\* The fields of all bytes, cut off after the d-th.
Unpacked(bytes, width, n, d) ==
  SubSeq([i \in 1 .. n * Len(bytes) |->
            Field(bytes[((i - 1) \div n) + 1], width, (i - 1) % n)], 1, d)

\* A sequence of 0, 1, 2, ... fields that is packed is read back from the bytes.
LEMMA UnpackFacts ==
  ASSUME NEW width, NEW n, IsFormat(width, n), NEW s \in Seq(Int), NEW bytes,
         Packed(bytes, s, width, n)
  PROVE  s = Unpacked(bytes, width, n, Len(s))
<1> DEFINE fields == [i \in 1 .. n * Len(bytes) |->
                        Field(bytes[((i - 1) \div n) + 1], width, (i - 1) % n)]
           first == SubSeq(fields, 1, Len(s))
<1>1. /\ Len(bytes) \in Nat /\ n * Len(bytes) \in Nat
      /\ Len(s) \in Nat /\ n * Len(bytes) >= Len(s)
      /\ \A i \in 1 .. Len(s) :
           Field(bytes[((i - 1) \div n) + 1], width, (i - 1) % n) = s[i]
  BY DEF Packed, IsFormat
<1>2. \A i \in 1 .. Len(s) : fields[i] = s[i]
  BY <1>1
<1>3. first = [i \in 1 .. Len(s) |-> fields[i]]
  <2> HIDE DEF fields
  <2>1. first = [i \in 1 .. (Len(s) - 1) + 1 |-> fields[(1 + i) - 1]]
    BY <1>1
  <2> HIDE DEF first
  <2>2. QED
    BY <1>1, <2>1
<1>4. s = [i \in 1 .. Len(s) |-> s[i]]
  OBVIOUS
<1> HIDE DEF fields, first
<1>5. s = first
  BY <1>2, <1>3, <1>4
<1>6. QED
  BY <1>5 DEF first, fields, Unpacked

\* A loop over bytes has read r, the beginning of u.
ReadSoFar(r, u, n) ==
  /\ r \in Seq(Int)
  /\ Len(r) <= Len(u)
  /\ Len(r) % n = 0 \/ Len(r) = Len(u)
  /\ \A i \in 1 .. Len(r) : r[i] = u[i]

LEMMA LesserOfTwo ==
  ASSUME NEW a \in Int, NEW b \in Int
  PROVE  Min({a, b}) = IF a <= b THEN a ELSE b
<1>1. CASE a <= b
  <2>1. Min({a, b}) \in {a, b} /\ \A y \in {a, b} : Min({a, b}) <= y
    BY <1>1 DEF Min
  <2>2. QED
    BY <1>1, <2>1
<1>2. CASE b < a
  <2>1. Min({a, b}) \in {a, b} /\ \A y \in {a, b} : Min({a, b}) <= y
    BY <1>2 DEF Min
  <2>2. QED
    BY <1>2, <2>1
<1>3. QED
  BY <1>1, <1>2

\* A loop that has read r, the beginning of u, ends at byte b when that is all,
\* and else finds in the byte those fields of s that follow.
LoopTurn(bytes, s, width, n, r, u, b) ==
  /\ b * n < Len(r) \/ b >= Len(bytes) => r = u
  /\ ~ (b * n < Len(r) \/ b >= Len(bytes)) =>
       /\ b * n = Len(r) /\ Len(r) % n = 0
       /\ Min({n, Len(s) - b * n}) \in Nat
       /\ \A j \in 1 .. Min({n, Len(s) - b * n}) :
            /\ Len(r) + j \in 1 .. Len(s)
            /\ Field(bytes[b + 1], width, j - 1) = s[Len(r) + j]

LEMMA NextByte ==
  ASSUME NEW width, NEW n, IsFormat(width, n), NEW s \in Seq(Int), NEW bytes,
         Packed(bytes, s, width, n),
         NEW u \in Seq(Int), Len(u) = Len(s),
         NEW r, ReadSoFar(r, u, n), NEW b, b = Len(r) \div n
  PROVE  LoopTurn(bytes, s, width, n, r, u, b)
<1>1. /\ n \in {1, 2, 4, 8} /\ Len(bytes) \in Nat /\ Len(s) \in Nat
      /\ Len(r) \in Nat /\ Len(r) <= Len(s)
      /\ Len(r) % n = 0 \/ Len(r) = Len(s)
      /\ n * Len(bytes) >= Len(s) /\ n * Len(bytes) < Len(s) + n
  BY DEF ReadSoFar, Packed, IsFormat
<1>2. /\ b \in Nat /\ b * n \in Int /\ b * n <= Len(r)
      /\ (b * n < Len(r) <=> Len(r) % n # 0)
  <2> DEFINE q == b * n
             m == Len(r) % n
  <2>1. b \in Nat /\ m \in 0 .. n - 1 /\ Len(r) = q + m
    BY <1>1, Places
  <2>2. q \in Int
    BY <1>1, <2>1
  <2> HIDE DEF q, m
  <2>3. q <= Len(r) /\ (q < Len(r) <=> m # 0)
    BY <1>1, <2>1, <2>2
  <2>4. QED
    BY <2>1, <2>2, <2>3 DEF q, m
<1>3. ASSUME b * n < Len(r) \/ b >= Len(bytes)
      PROVE  r = u
  <2>1. Len(r) = Len(s)
    <3>1. CASE b * n < Len(r)
      BY <1>1, <1>2, <3>1
    <3>2. CASE b >= Len(bytes)
      <4>1. b * n >= n * Len(bytes)
        BY <1>1, <1>2, <3>2
      <4>2. b * n \in Int /\ n * Len(bytes) \in Int
        BY <1>1, <1>2
      <4>3. QED
        BY <1>1, <1>2, <4>1, <4>2
    <3>3. QED
      BY <1>3, <3>1, <3>2
  <2>2. /\ r \in Seq(Int) /\ Len(r) = Len(u)
        /\ \A i \in 1 .. Len(u) : r[i] = u[i]
    BY <2>1 DEF ReadSoFar
  <2>3. r = [i \in 1 .. Len(u) |-> r[i]] /\ u = [i \in 1 .. Len(u) |-> u[i]]
    BY <2>2
  <2>4. QED
    BY <2>2, <2>3
<1>4. ASSUME ~ (b * n < Len(r) \/ b >= Len(bytes))
      PROVE  /\ b * n = Len(r) /\ Len(r) % n = 0
             /\ Min({n, Len(s) - b * n}) \in Nat
             /\ \A j \in 1 .. Min({n, Len(s) - b * n}) :
                  /\ Len(r) + j \in 1 .. Len(s)
                  /\ Field(bytes[b + 1], width, j - 1) = s[Len(r) + j]
  <2>1. b * n = Len(r) /\ Len(r) % n = 0
    BY <1>1, <1>2, <1>4
  <2>2. ASSUME NEW j \in 1 .. Min({n, Len(s) - b * n})
        PROVE  /\ Len(r) + j \in 1 .. Len(s)
               /\ Field(bytes[b + 1], width, j - 1) = s[Len(r) + j]
    <3>1. j \in 1 .. n /\ Len(r) + j \in 1 .. Len(s)
      <4>1. n \in Int /\ Len(s) - b * n \in Int
        BY <1>1, <1>2
      <4>2. Min({n, Len(s) - b * n})
              = IF n <= Len(s) - b * n THEN n ELSE Len(s) - b * n
        BY <4>1, LesserOfTwo
      <4> DEFINE k == Min({n, Len(s) - b * n})
      <4> HIDE DEF k
      <4>3. j \in 1 .. k /\ k = IF n <= Len(s) - Len(r) THEN n ELSE Len(s) - Len(r)
        BY <2>1, <4>2 DEF k
      <4> DEFINE d == Len(s)
                 l == Len(r)
      <4>4. /\ n \in {1, 2, 4, 8} /\ d \in Nat /\ l \in Nat /\ l <= d
            /\ j \in 1 .. k /\ k = IF n <= d - l THEN n ELSE d - l
        BY <1>1, <4>3
      <4> HIDE DEF d, l
      <4>5. j \in 1 .. n /\ l + j \in 1 .. d
        BY ONLY <4>4
      <4>6. QED
        BY <4>5 DEF d, l
    <3> DEFINE i == Len(r) + j
    <3>2. (i - 1) \div n = b /\ (i - 1) % n = j - 1
      <4>1. i - 1 = b * n + (j - 1)
        <5>1. b * n = Len(r) /\ Len(r) \in Nat /\ j \in Nat
          BY <1>1, <2>1, <3>1
        <5>2. i - 1 = Len(r) + (j - 1)
          BY ONLY <5>1
        <5> HIDE DEF i
        <5>3. QED
          BY ONLY <5>1, <5>2
      <4>2. j - 1 \in 0 .. n - 1
        BY <1>1, <3>1
      <4> DEFINE a == i - 1
                 p == j - 1
      <4>3. a = b * n + p /\ p \in 0 .. n - 1
        BY <4>1, <4>2
      <4> HIDE DEF a, i, p
      <4>4. a \div n = b /\ a % n = p
        <5>1. n \in {1, 2, 4, 8} /\ b \in Nat
          BY <1>1, <1>2
        <5>2. IsPlace(a, n, b, p)
          BY ONLY <4>3, <5>1, PlaceInByte
        <5>3. QED
          BY <5>2 DEF IsPlace
      <4>5. QED
        BY <4>4 DEF a, p
    <3> HIDE DEF i
    <3>3. i \in 1 .. Len(s)
      BY <3>1 DEF i
    <3>4. Field(bytes[((i - 1) \div n) + 1], width, (i - 1) % n) = s[i]
      BY <3>3 DEF Packed
    <3>5. QED
      BY <3>1, <3>2, <3>4 DEF i
  <2>3. Min({n, Len(s) - b * n}) \in Nat
    <3>1. n \in Nat /\ Len(s) - b * n \in Nat
      BY <1>1, <2>1
    <3> DEFINE a == Len(s) - b * n
    <3> HIDE DEF a
    <3>2. a \in Nat
      BY <3>1 DEF a
    <3>3. Min({n, a}) = IF n <= a THEN n ELSE a
      BY <3>1, <3>2, LesserOfTwo
    <3>4. Min({n, a}) \in Nat
      BY ONLY <3>1, <3>2, <3>3
    <3>5. QED
      BY <3>4 DEF a
  <2>4. QED
    BY <2>1, <2>2, <2>3
<1>5. QED
  BY <1>3, <1>4 DEF LoopTurn

\* Nothing is read at first.
LEMMA NothingRead ==
  ASSUME NEW n \in {1, 2, 4, 8}, NEW u \in Seq(Int)
  PROVE  ReadSoFar(<<>>, u, n)
<1>1. Len(<<>>) = 0 /\ <<>> \in Seq(Int) /\ Len(u) \in Nat
  OBVIOUS
<1>2. 0 % n = 0
  OBVIOUS
<1>3. QED
  BY <1>1, <1>2 DEF ReadSoFar

\* What a turn appends continues u.
LEMMA ReadOn ==
  ASSUME NEW n \in {1, 2, 4, 8}, NEW u \in Seq(Int), NEW r, ReadSoFar(r, u, n),
         Len(r) % n = 0,
         NEW m \in Seq(Int), Len(m) = Min({n, Len(u) - Len(r)}),
         \A j \in 1 .. Len(m) : m[j] = u[Len(r) + j]
  PROVE  ReadSoFar(r \o m, u, n)
<1> DEFINE k == Min({n, Len(u) - Len(r)})
<1>1. /\ r \in Seq(Int) /\ Len(r) \in Nat /\ Len(u) \in Nat /\ Len(r) <= Len(u)
      /\ \A i \in 1 .. Len(r) : r[i] = u[i]
  BY DEF ReadSoFar
<1>2. k = IF n <= Len(u) - Len(r) THEN n ELSE Len(u) - Len(r)
  <2>1. n \in Int /\ Len(u) - Len(r) \in Int
    BY <1>1
  <2>2. QED
    BY <2>1, LesserOfTwo
<1>3. k \in Nat /\ Len(r) + k <= Len(u)
  BY <1>1, <1>2
<1>4. m \in Seq(Int) /\ Len(m) = k
  OBVIOUS
<1>5. \A j \in 1 .. k : m[j] = u[Len(r) + j]
  OBVIOUS
<1>6. Len(r) % n = 0
  OBVIOUS
<1> HIDE DEF k
<1>7. (Len(r) + k) % n = 0 \/ Len(r) + k = Len(u)
  <2>1. CASE k = n
    <3>1. CASE n = 1
      BY <1>1, <1>3, <3>1
    <3>2. CASE n = 2
      BY <1>1, <1>6, <2>1, <3>2
    <3>3. CASE n = 4
      BY <1>1, <1>6, <2>1, <3>3
    <3>4. CASE n = 8
      BY <1>1, <1>6, <2>1, <3>4
    <3>5. QED
      BY <3>1, <3>2, <3>3, <3>4
  <2>2. CASE k # n
    <3>1. Len(r) \in Nat /\ Len(u) \in Nat /\ k = Len(u) - Len(r)
      BY <1>1, <1>2, <2>2
    <3>2. QED
      BY ONLY <3>1
  <2>3. QED
    BY <2>1, <2>2
<1>8. ASSUME NEW i \in 1 .. Len(r) + k PROVE (r \o m)[i] = u[i]
  <2>1. CASE i <= Len(r)
    BY ONLY <1>1, <1>3, <1>4, <2>1, i \in 1 .. Len(r) + k
  <2>2. CASE i > Len(r)
    <3>1. i - Len(r) \in 1 .. k /\ Len(r) + (i - Len(r)) = i
      BY <1>1, <1>3, <2>2
    <3>2. (r \o m)[i] = m[i - Len(r)]
      BY ONLY <1>1, <1>3, <1>4, <2>2, i \in 1 .. Len(r) + k
    <3>3. QED
      BY <1>5, <3>1, <3>2
  <2>3. QED
    <3>1. i <= Len(r) \/ i > Len(r)
      BY ONLY <1>1, <1>3, i \in 1 .. Len(r) + k
    <3>2. QED
      BY ONLY <2>1, <2>2, <3>1
<1>9. r \o m \in Seq(Int) /\ Len(r \o m) = Len(r) + k
  <2>1. r \in Seq(Int) /\ m \in Seq(Int)
    BY <1>1
  <2>2. r \o m \in Seq(Int) /\ Len(r \o m) = Len(r) + Len(m)
    BY ONLY <2>1
  <2>3. QED
    BY <1>4, <2>2
<1>10. QED
  BY <1>3, <1>7, <1>8, <1>9 DEF ReadSoFar

-----------------------------------------------------------------------------
(* Values.                                                                 *)

\* What is rounded is within half of what is divided by.
LEMMA RoundHalf ==
  ASSUME NEW a \in Int, NEW b \in Nat \ {0}
  PROVE  /\ Round(a, b) * b \in Int
         /\ 2 * (Round(a, b) * b - a) <= b
         /\ 2 * (a - Round(a, b) * b) <= b
<1> DEFINE q == a \div b
           m == a % b
           t == q * b
<1>1. q \in Int /\ m \in 0 .. b - 1 /\ a = t + m
  <2>1. a = b * q + m /\ q \in Int /\ m \in 0 .. b - 1
    OBVIOUS
  <2> HIDE DEF q, m
  <2>2. QED
    BY <2>1
<1>2. t \in Int /\ (q + 1) * b = t + b
  <2> HIDE DEF q
  <2>1. QED
    BY <1>1
<1>3. \/ Round(a, b) = q /\ 2 * m <= b
      \/ Round(a, b) = q + 1 /\ 2 * m >= b
  <2>1. Round(a, b) = IF 2 * m < b \/ (2 * m = b /\ q % 2 = 0) THEN q ELSE q + 1
    BY DEF Round
  <2> HIDE DEF q, m
  <2>2. QED
    BY <1>1, <2>1
<1>4. \/ Round(a, b) * b = t /\ 2 * m <= b
      \/ Round(a, b) * b = t + b /\ 2 * m >= b
  <2> HIDE DEF q, m
  <2>1. QED
    BY <1>2, <1>3
<1> DEFINE R == Round(a, b) * b
<1> HIDE DEF t, m, q, R
<1>5. \/ R = t /\ 2 * m <= b
      \/ R = t + b /\ 2 * m >= b
  BY <1>4 DEF R
<1>6. R \in Int /\ 2 * (R - a) <= b /\ 2 * (a - R) <= b
  BY <1>1, <1>2, <1>5
<1>7. QED
  BY <1>6 DEF R

LEMMA RoundType ==
  ASSUME NEW a \in Nat, NEW b \in Nat \ {0}
  PROVE  Round(a, b) \in Nat
<1>1. a \div b \in Nat
  OBVIOUS
<1>2. Round(a, b) \in {a \div b, (a \div b) + 1}
  BY DEF Round
<1>3. QED
  BY <1>1, <1>2

LEMMA LeastAndGreatest ==
  ASSUME NEW S, IsFiniteSet(S), S \subseteq Int, S # {}
  PROVE  /\ Min(S) \in S /\ \A y \in S : Min(S) <= y
         /\ Max(S) \in S /\ \A y \in S : y <= Max(S)
<1>1. /\ \E x \in S : \A y \in S : y <= x
      /\ \E x \in S : \A y \in S : x <= y
  BY Extremes
<1>2. Min(S) \in S /\ \A y \in S : Min(S) <= y
  BY <1>1 DEF Min
<1>3. Max(S) \in S /\ \A y \in S : y <= Max(S)
  <2>1. Max(S) = CHOOSE x \in S : \A y \in S : x >= y
    BY DEF Max
  <2>2. \E x \in S : \A y \in S : x >= y
    <3>1. PICK x \in S : \A y \in S : y <= x
      BY <1>1
    <3>2. \A y \in S : x >= y
      BY <3>1
    <3>3. QED
      BY <3>2
  <2>3. Max(S) \in S /\ \A y \in S : Max(S) >= y
    BY <2>1, <2>2
  <2> DEFINE z == Max(S)
  <2>4. z \in S /\ \A y \in S : z >= y
    BY <2>3
  <2> HIDE DEF z
  <2>5. z \in S /\ \A y \in S : y <= z
    BY <2>4
  <2>6. QED
    BY <2>5 DEF z
<1>4. QED
  BY <1>2, <1>3

LEMMA MaxOfTwo ==
  ASSUME NEW a \in Int, NEW b \in Int
  PROVE  Max({a, b}) \in {a, b} /\ a <= Max({a, b}) /\ b <= Max({a, b})
<1> DEFINE S == {a, b}
<1>1. IsFiniteSet(S)
  <2>1. IsFiniteSet({b}) /\ S = {b} \cup {a}
    BY FS_Singleton
  <2>2. QED
    BY <2>1, FS_AddElement
<1>2. S \subseteq Int /\ S # {}
  OBVIOUS
<1> HIDE DEF S
<1>3. Max(S) \in S /\ \A y \in S : y <= Max(S)
  BY <1>1, <1>2, LeastAndGreatest
<1>4. QED
  BY <1>3 DEF S

LEMMA AbsFacts ==
  ASSUME NEW a \in Int
  PROVE  Abs(a) \in Nat /\ a <= Abs(a) /\ -a <= Abs(a) /\ Abs(a) \in {a, -a}
BY DEF Abs

\* A product grows with one of its factors.
LEMMA TimesGrows ==
  ASSUME NEW k \in Nat, NEW a \in Int, NEW b \in Int, a <= b
  PROVE  k * a \in Int /\ k * b \in Int /\ k * a <= k * b
OBVIOUS

\* The unit that a number is rounded to is a smallest one or no more than the
\* number itself with all its digits.
LEMMA UnitFacts ==
  ASSUME NEW A \in Nat, NEW b \in Nat \ {0},
         NEW e, e = Min({k \in 0 .. Exponents : A < b * 2^(Significand + k)}
                          \cup {Exponents})
  PROVE  /\ e \in 0 .. Exponents
         /\ 2^e = 1 \/ b * (Normal * 2^e) <= A
<1> DEFINE fitting == {k \in 0 .. Exponents : A < b * 2^(Significand + k)}
           T == fitting \cup {Exponents}
<1>1. Exponents \in Nat /\ Significand \in Nat \ {0}
  BY Float16Assumption
<1>2. e \in T /\ \A k \in T : e <= k
  <2>1. T \subseteq 0 .. Exponents /\ T # {}
    BY <1>1
  <2>2. IsFiniteSet(T)
    <3>1. IsFiniteSet(0 .. Exponents)
      BY <1>1, FS_Interval
    <3> HIDE DEF T
    <3>2. QED
      BY <2>1, <3>1, FS_Subset
  <2>3. T \subseteq Int /\ e = Min(T)
    BY <1>1
  <2> HIDE DEF T
  <2>4. QED
    BY <2>1, <2>2, <2>3, LeastAndGreatest
<1>3. e \in 0 .. Exponents
  BY <1>1, <1>2
<1>4. CASE e = 0
  <2>1. 2^0 = 1
    OBVIOUS
  <2>2. QED
    BY <1>3, <1>4, <2>1
<1>5. CASE e # 0
  <2>1. e - 1 \in 0 .. Exponents /\ e - 1 \notin fitting
    <3>1. e \in Int /\ e - 1 \in 0 .. Exponents
      BY <1>1, <1>3, <1>5
    <3> HIDE DEF T
    <3>2. e - 1 \notin T
      <4>1. ~ (e <= e - 1)
        BY ONLY <3>1
      <4>2. QED
        BY <1>2, <4>1
    <3>3. QED
      BY <3>1, <3>2 DEF T
  <2>2. ~ (A < b * 2^(Significand + (e - 1)))
    BY <2>1
  <2>3. 2^(Significand + (e - 1)) = Normal * 2^e
    <3>1. Significand - 1 \in Nat /\ e \in Nat
          /\ (Significand - 1) + e = Significand + (e - 1)
      BY <1>1, <1>3
    <3>2. 2^((Significand - 1) + e) = 2^(Significand - 1) * 2^e
      BY <3>1, PowerAdds
    <3>3. QED
      BY <3>1, <3>2 DEF Normal
  <2>4. b * (Normal * 2^e) \in Int
    <3>1. 2^(Significand + (e - 1)) \in Nat
      BY <1>1, <1>3, <1>5, PowerType
    <3>2. QED
      BY <2>3, <3>1
  <2>5. ~ (A < b * (Normal * 2^e))
    BY <2>2, <2>3
  <2> DEFINE p == b * (Normal * 2^e)
  <2> HIDE DEF p
  <2>6. p \in Int /\ ~ (A < p)
    BY <2>4, <2>5 DEF p
  <2>7. p <= A
    BY <2>6
  <2>8. QED
    BY <1>3, <2>7 DEF p
<1>6. QED
  BY <1>4, <1>5

\* A narrowed number is within half a digit, or half the smallest unit, of what
\* it was, and not finite only if that is larger than every float16.
LEMMA NarrowFacts ==
  ASSUME NEW a \in Int, NEW b \in Nat \ {0}, NEW x, x = Narrow(a, b)
  PROVE  /\ x = NotFinite => Abs(a) > b * Largest
         /\ x # NotFinite =>
              x \in Int /\ 2 * Normal * Abs(b * x - a) <= Max({Normal * b, Abs(a)})
<1> DEFINE A == Abs(a)
           e == Min({k \in 0 .. Exponents : A < b * 2^(Significand + k)}
                      \cup {Exponents})
           u == 2^e
           w == b * u
           R == Round(a, w)
           r == u * R
           c == b * r
<1>1. A \in Nat /\ A \in {a, -a} /\ a <= A /\ -a <= A
  BY AbsFacts
<1>2. x = IF Abs(r) <= Largest THEN r ELSE NotFinite
  BY DEF Narrow
<1> HIDE DEF A
<1>3. e \in 0 .. Exponents /\ (u = 1 \/ b * (Normal * u) <= A)
  BY <1>1, UnitFacts
<1> HIDE DEF e
<1>4. /\ Exponents \in Nat /\ Significand \in Nat \ {0} /\ NotFinite \notin Int
      /\ e \in Nat /\ Exponents - e \in Nat
  BY <1>3, Float16Assumption
<1>5. u \in Nat \ {0} /\ Normal \in Nat \ {0}
  BY <1>4, PowerType DEF Normal
<1> HIDE DEF u
<1>6. w \in Nat \ {0}
  BY <1>5
<1> HIDE DEF w
<1>7. R \in Int /\ R * w \in Int /\ 2 * (R * w - a) <= w /\ 2 * (a - R * w) <= w
  <2>1. R \in Int
    BY <1>6 DEF Round
  <2>2. QED
    BY <1>6, <2>1, RoundHalf
<1> HIDE DEF R
<1>8. r \in Int /\ c \in Int /\ c = R * w
  BY <1>5, <1>7 DEF w
<1>9. Abs(c - a) \in Nat /\ 2 * Abs(c - a) <= w
  BY <1>7, <1>8 DEF Abs
<1>10. ASSUME x # NotFinite
       PROVE  x \in Int /\ 2 * Normal * Abs(b * x - a) <= Max({Normal * b, A})
  <2>1. x = r
    BY <1>2, <1>10
  <2> DEFINE d == Abs(c - a)
             M == Max({Normal * b, A})
  <2>2. Normal * b \in Int /\ A \in Int /\ Normal * w \in Int
    BY <1>1, <1>5, <1>6
  <2>3. M \in Int /\ Normal * b <= M /\ A <= M
    BY <2>2, MaxOfTwo
  <2> HIDE DEF M, d
  <2>4. Normal * w <= M
    <3>1. CASE u = 1
      BY <1>5, <2>2, <2>3, <3>1 DEF w
    <3>2. CASE b * (Normal * u) <= A
      <4>1. b * (Normal * u) = Normal * w
        BY <1>5 DEF w
      <4>2. QED
        BY <1>1, <2>2, <2>3, <3>2, <4>1
    <3>3. QED
      BY <1>3, <3>1, <3>2
  <2>5. d \in Nat /\ 2 * d <= w
    BY <1>9 DEF d
  <2>6. Normal * (2 * d) <= Normal * w
    BY <1>5, <1>6, <2>5, TimesGrows
  <2>7. 2 * Normal * d = Normal * (2 * d) /\ Normal * (2 * d) \in Int
    BY <1>5, <2>5
  <2>8. 2 * Normal * d <= M
    BY <2>2, <2>3, <2>4, <2>6, <2>7
  <2>9. x \in Int /\ b * x = c
    BY <1>8, <2>1
  <2>10. QED
    BY <2>8, <2>9 DEF d, M
<1>11. ASSUME x = NotFinite PROVE A > b * Largest
  <2> DEFINE N == (2^Significand - 1) * 2^(Exponents - e)
             S == Abs(R)
             C == Abs(c)
  <2>1. N \in Nat /\ Largest = u * N
    <3>1. 2^Exponents = u * 2^(Exponents - e)
      BY <1>3, <1>4, PowerFacts DEF u
    <3>2. 2^(Exponents - e) \in Nat /\ 2^Significand - 1 \in Nat
      BY <1>4, PowerType
    <3> DEFINE p == 2^(Exponents - e)
               q == 2^Significand - 1
    <3> HIDE DEF p, q
    <3>3. p \in Nat /\ q \in Nat
      BY <3>2 DEF p, q
    <3>4. q * (u * p) = u * (q * p) /\ q * p \in Nat
      BY <1>5, <3>3
    <3>5. QED
      BY <3>1, <3>4 DEF p, q, Largest
  <2>2. S \in Nat /\ S \in {R, -R} /\ C \in Nat /\ C \in {c, -c} /\ c <= C /\ -c <= C
    BY <1>7, <1>8, AbsFacts
  <2>3. Abs(r) = u * S
    <3>1. CASE R >= 0
      BY <1>5, <1>7, <1>8, <3>1 DEF Abs
    <3>2. CASE R < 0
      <4>1. r = -(u * (-R)) /\ u * (-R) \in Nat /\ u * (-R) > 0
        BY <1>5, <1>7, <3>2
      <4>2. S = -R
        BY <3>2 DEF Abs
      <4> HIDE DEF r, S
      <4>3. Abs(r) = u * (-R)
        BY <1>8, <4>1 DEF Abs
      <4>4. QED
        BY <4>2, <4>3
    <3>3. QED
      BY <1>7, <3>1, <3>2
  <2> HIDE DEF N, S, C
  <2>4. S >= N + 1
    <3>1. ~ (u * S <= u * N)
      BY <1>2, <1>4, <1>8, <1>11, <2>1, <2>3
    <3>2. S <= N => u * S <= u * N
      BY <1>5, <2>1, <2>2, TimesGrows
    <3>3. QED
      BY <2>1, <2>2, <3>1, <3>2
  <2>5. C = w * S
    <3>1. w * R = c /\ w * (-R) = -c
      BY <1>6, <1>7, <1>8
    <3>2. w * S \in Nat /\ w * S \in {c, -c}
      BY <1>6, <2>2, <3>1
    <3>3. QED
      BY <1>8, <2>2, <3>2
  <2>6. C >= w * N + w
    <3>1. w * (N + 1) <= w * S
      BY <1>6, <2>1, <2>2, <2>4, TimesGrows
    <3>2. w * (N + 1) = w * N + w
      BY <1>6, <2>1
    <3>3. QED
      BY <2>5, <3>1, <3>2
  <2>7. b * Largest = w * N /\ w * N \in Nat
    <3>1. b * (u * N) = (b * u) * N
      BY <1>5, <2>1
    <3>2. QED
      BY <1>6, <2>1, <3>1 DEF w
  <2>8. 2 * C - 2 * A <= w
    <3> HIDE DEF r, c
    <3>1. 2 * (c - a) <= w /\ 2 * (a - c) <= w
      BY <1>7, <1>8
    <3>2. CASE C = c
      BY <1>1, <1>6, <1>8, <3>1, <3>2
    <3>3. CASE C = -c
      BY <1>1, <1>6, <1>8, <3>1, <3>3
    <3>4. QED
      BY <2>2, <3>2, <3>3
  <2> HIDE DEF r, c
  <2>9. A > w * N
    BY <1>1, <1>6, <2>2, <2>6, <2>7, <2>8
  <2>10. QED
    BY <2>7, <2>9
<1>12. QED
  BY <1>10, <1>11 DEF A

\* The group of each element is one of the groups of a sequence that they
\* divide, and holds elements of the sequence only.
InGroup(len, group, i, g) ==
  /\ g \in 1 .. len \div group
  /\ (g - 1) * group + 1 \in Int /\ g * group \in Int
  /\ i \in (g - 1) * group + 1 .. g * group
  /\ (g - 1) * group + 1 .. g * group \subseteq 1 .. len

LEMMA GroupOf ==
  ASSUME NEW len \in Nat, NEW group \in Nat \ {0}, len % group = 0,
         NEW i \in 1 .. len, NEW g, g = ((i - 1) \div group) + 1
  PROVE  InGroup(len, group, i, g)
<1> DEFINE q == (i - 1) \div group
           r == (i - 1) % group
           L == len \div group
           t == q * group
<1>1. q \in Nat /\ r \in 0 .. group - 1 /\ i - 1 = t + r
  <2>1. i - 1 = group * q + r /\ q \in Int /\ r \in 0 .. group - 1 /\ i - 1 \in Nat
    OBVIOUS
  <2>2. q >= 0
    OBVIOUS
  <2> HIDE DEF q, r
  <2>3. QED
    BY <2>1, <2>2
<1>2. L \in Nat /\ len = L * group
  <2>1. len = group * L + (len % group) /\ L \in Int /\ L >= 0
    OBVIOUS
  <2> HIDE DEF L
  <2>2. QED
    BY <2>1
<1>3. g = q + 1 /\ g - 1 = q
  <2> HIDE DEF r
  <2>1. g = q + 1
    OBVIOUS
  <2> HIDE DEF q
  <2>2. QED
    BY <1>1, <2>1
<1> HIDE DEF q, r, L
<1>4. t \in Nat /\ g * group = t + group
  BY <1>1, <1>3
<1>5. q < L
  <2>1. ASSUME q >= L PROVE FALSE
    <3>1. q * group >= L * group
      BY <1>1, <1>2, <2>1
    <3>2. QED
      BY <1>1, <1>2, <1>4, <3>1
  <2>2. QED
    BY <1>1, <1>2, <2>1
<1>6. t + group <= len
  <2>1. (q + 1) * group <= L * group
    BY <1>1, <1>2, <1>5
  <2>2. QED
    BY <1>2, <1>3, <1>4, <2>1
<1>7. (g - 1) * group + 1 = t + 1
  BY <1>3
<1> HIDE DEF t
<1>8. i \in t + 1 .. t + group /\ t + 1 .. t + group \subseteq 1 .. len
  BY <1>1, <1>4, <1>6
<1>9. g \in 1 .. L
  BY <1>1, <1>2, <1>3, <1>5
<1>10. QED
  BY <1>4, <1>7, <1>8, <1>9 DEF L, InGroup

\* The smallest value and the span of a group are those of its elements, and
\* what is read of an element is within half a step of it.
LEMMA ValueFacts ==
  ASSUME NEW v \in Seq(Int), NEW group \in Nat \ {0}, Len(v) % group = 0,
         NEW levels \in Nat, NEW i \in 1 .. Len(v),
         NEW Q, Q = QuantizeValue(v, group, levels),
         NEW g, g = ((i - 1) \div group) + 1,
         NEW d, d = (Q.data[i] * Q.scales[g] + levels * Q.zeros[g]) - levels * v[i]
  PROVE  /\ g \in DOMAIN Q.scales /\ g \in DOMAIN Q.zeros
         /\ Q.scales[g] \in Nat /\ Q.zeros[g] \in Int /\ Q.data[i] \in Nat
         /\ d \in Int /\ 2 * Abs(d) <= Q.scales[g]
<1> DEFINE I == (g - 1) * group + 1 .. g * group
           V == {v[k] : k \in I}
           lo == Min(V)
           hi == Max(V)
           a == (v[i] - lo) * levels
           s == hi - lo
<1>1. /\ g \in 1 .. Len(v) \div group
      /\ (g - 1) * group + 1 \in Int /\ g * group \in Int
      /\ i \in I /\ I \subseteq 1 .. Len(v)
  <2> DEFINE len == Len(v)
  <2>1. len \in Nat /\ len % group = 0 /\ i \in 1 .. len
    OBVIOUS
  <2> HIDE DEF len
  <2>2. InGroup(len, group, i, g)
    BY <2>1, GroupOf
  <2>3. QED
    BY <2>2 DEF len, InGroup
<1>2. IsFiniteSet(V) /\ V \subseteq Int /\ v[i] \in V
  <2>1. IsFiniteSet(I)
    BY <1>1, FS_Interval
  <2> HIDE DEF I
  <2>2. IsFiniteSet(V)
    <3> DEFINE f == [k \in I |-> v[k]]
    <3>1. f \in Surjection(I, V)
      BY DEF Surjection
    <3> HIDE DEF f, V
    <3>2. QED
      BY <2>1, <3>1, FS_Surjection
  <2>3. V \subseteq Int
    <3>1. \A k \in I : v[k] \in Int
      BY <1>1
    <3>2. QED
      BY <3>1
  <2>4. v[i] \in V
    BY <1>1
  <2>5. QED
    BY <2>2, <2>3, <2>4
<1>3. lo \in Int /\ hi \in Int /\ v[i] \in Int /\ lo <= v[i] /\ v[i] <= hi
  <2> HIDE DEF V
  <2>1. QED
    BY <1>2, LeastAndGreatest
<1>4. /\ Q.scales[g] = s
      /\ Q.zeros[g] = lo
      /\ Q.data[i] = IF hi = lo THEN 0 ELSE Round(a, s)
      /\ g \in DOMAIN Q.scales /\ g \in DOMAIN Q.zeros
  <2> DEFINE Group(h) == {v[k] : k \in (h - 1) * group + 1 .. h * group}
             Lo == [h \in 1 .. Len(v) \div group |-> Min(Group(h))]
             Hi == [h \in DOMAIN Lo |-> Max(Group(h))]
             G(k) == ((k - 1) \div group) + 1
  <2>1. Q = [data |-> [k \in DOMAIN v |->
                         IF Hi[G(k)] = Lo[G(k)] THEN 0
                         ELSE Round((v[k] - Lo[G(k)]) * levels, Hi[G(k)] - Lo[G(k)])],
             scales |-> [h \in DOMAIN Lo |-> Hi[h] - Lo[h]],
             zeros |-> Lo]
    BY DEF QuantizeValue
  <2>2. g \in DOMAIN Lo /\ Lo[g] = lo /\ Hi[g] = hi
    BY <1>1
  <2>3. G(i) = g /\ i \in DOMAIN v
    OBVIOUS
  <2> DEFINE D(k) == IF Hi[G(k)] = Lo[G(k)] THEN 0
                     ELSE Round((v[k] - Lo[G(k)]) * levels, Hi[G(k)] - Lo[G(k)])
  <2>4. /\ Q.scales[g] = Hi[g] - Lo[g] /\ Q.zeros[g] = Lo[g]
        /\ Q.data = [k \in DOMAIN v |-> D(k)]
        /\ g \in DOMAIN Q.scales /\ g \in DOMAIN Q.zeros
    <3> HIDE DEF Lo, Hi, G
    <3>1. QED
      BY <2>1, <2>2
  <2>5. D(i) = IF hi = lo THEN 0 ELSE Round(a, s)
    <3> HIDE DEF Lo, Hi, G, lo, hi
    <3>1. QED
      BY <2>2, <2>3
  <2> HIDE DEF Lo, Hi, G, D, lo, hi, a
  <2>6. Q.data[i] = D(i)
    BY <2>3, <2>4
  <2>7. QED
    BY <2>2, <2>4, <2>5, <2>6
<1> HIDE DEF lo, hi, V, I
<1>5. /\ s \in Nat /\ a \in Nat /\ (hi = lo <=> s = 0)
      /\ levels * lo \in Int /\ levels * v[i] \in Int
      /\ levels * lo - levels * v[i] = -a
  <2> DEFINE x == v[i]
  <2>1. lo \in Int /\ hi \in Int /\ x \in Int /\ lo <= hi
    BY <1>3
  <2> HIDE DEF x
  <2>2. s \in Nat /\ (hi = lo <=> s = 0)
    BY ONLY <2>1
  <2>3. /\ (x - lo) * levels \in Nat
        /\ levels * lo \in Int /\ levels * x \in Int
        /\ levels * lo - levels * x = -((x - lo) * levels)
    <3>1. lo <= x
      BY <1>3 DEF x
    <3>2. x - lo \in Nat
      BY ONLY <2>1, <3>1
    <3>3. QED
      BY ONLY <2>1, <3>2, levels \in Nat
  <2>4. QED
    BY <2>2, <2>3 DEF x
<1>6. d = Q.data[i] * s - a
  <2> DEFINE X == Q.data[i] * s
             K == levels * lo
             M == levels * v[i]
  <2>1. d = (X + K) - M
    BY <1>4
  <2>2. K \in Int /\ M \in Int /\ a \in Int /\ K - M = -a
    <3> HIDE DEF a, s
    <3>1. QED
      BY ONLY <1>5
  <2>3. X \in Int
    <3> HIDE DEF a, s
    <3>1. CASE hi = lo
      BY <1>4, <1>5, <3>1
    <3>2. CASE hi # lo
      BY <1>4, <1>5, <3>2, RoundHalf
    <3>3. QED
      BY <3>1, <3>2
  <2> HIDE DEF X, K, M, a
  <2>4. d = X - a
    BY ONLY <2>1, <2>2, <2>3
  <2>5. QED
    BY <2>4 DEF X
<1>7. ASSUME s = 0 PROVE 2 * (IF d < 0 THEN -d ELSE d) <= Q.scales[g]
  <2>1. v[i] - lo = 0
    <3> DEFINE x == v[i]
    <3>1. lo \in Int /\ hi \in Int /\ x \in Int /\ lo <= x /\ x <= hi
      BY <1>3
    <3> HIDE DEF x
    <3>2. x - lo = 0
      BY ONLY <3>1, <1>7
    <3>3. QED
      BY <3>2 DEF x
  <2>2. a = 0
    BY <2>1
  <2>3. Q.data[i] = 0 /\ Q.scales[g] = 0
    BY <1>4, <1>5, <1>7
  <2> HIDE DEF a, s
  <2>4. d = 0 * 0 - 0
    BY <1>6, <1>7, <2>2, <2>3
  <2>5. QED
    BY <2>3, <2>4
<1>8. ASSUME s # 0 PROVE 2 * (IF d < 0 THEN -d ELSE d) <= Q.scales[g]
  <2>1. Q.data[i] = Round(a, s)
    BY <1>4, <1>5, <1>8
  <2> HIDE DEF a, s
  <2>2. /\ Round(a, s) * s \in Int
        /\ 2 * (Round(a, s) * s - a) <= s
        /\ 2 * (a - Round(a, s) * s) <= s
    <3>1. a \in Int /\ s \in Nat \ {0}
      BY ONLY <1>5, <1>8
    <3>2. QED
      BY <3>1, RoundHalf
  <2> DEFINE R == Round(a, s) * s
  <2>3. d = R - a
    BY <1>6, <2>1
  <2>4. R \in Int /\ 2 * (R - a) <= s /\ 2 * (a - R) <= s
    BY <2>2
  <2> HIDE DEF R
  <2>5. 2 * (IF d < 0 THEN -d ELSE d) <= s
    <3>1. a \in Int /\ s \in Nat
      BY <1>5
    <3>2. QED
      BY ONLY <2>3, <2>4, <3>1
  <2>6. QED
    BY <1>4, <2>5 DEF s
<1>9. Q.data[i] \in Nat
  <2>1. CASE hi = lo
    BY <1>4, <2>1
  <2>2. CASE hi # lo
    <3> HIDE DEF a, s
    <3>1. Q.data[i] = Round(a, s) /\ s \in Nat \ {0} /\ a \in Nat
      BY <1>4, <1>5, <2>2
    <3>2. QED
      BY <3>1, RoundType
  <2>3. QED
    BY <2>1, <2>2
<1>10. d \in Int
  <2> DEFINE k == Q.data[i]
             X == k * s
  <2> HIDE DEF a, s
  <2>1. k \in Nat /\ s \in Nat /\ a \in Int
    <3>1. s \in Nat /\ a \in Nat
      BY <1>5
    <3>2. QED
      BY <1>9, <3>1
  <2>2. d = X - a
    BY <1>6
  <2> HIDE DEF k
  <2>3. X \in Int
    BY ONLY <2>1
  <2> HIDE DEF X
  <2>4. QED
    BY ONLY <2>1, <2>2, <2>3
<1>11. QED
  BY <1>3, <1>4, <1>5, <1>7, <1>8, <1>9, <1>10 DEF Abs

-----------------------------------------------------------------------------
(* A token on its way.                                                     *)

\* A row as the kernels assume it: stored only if the sizes are those of the
\* store.
Whole == stored => token.dim % 8 = 0

\* The signs that are kept, and those that are read.
SignBits(t) == [i \in DOMAIN t.projected |-> IF t.projected[i] > 0 THEN 1 ELSE 0]
SignsOf(t) == [i \in 1 .. t.dim |-> IF t.projected[i] > 0 THEN 1 ELSE -1]

\* The scales and the zeros of a row in the store, and of a row.
KeptScales(scales, levels) ==
  [g \in DOMAIN scales |-> NarrowScale(scales[g], levels)]
KeptZeros(zeros) == [g \in DOMAIN zeros |-> Narrow(zeros[g], 1)]
Kept == stored /\ pc # "append"

\* The value is the quantized one wherever the row is, with its scales and zeros
\* narrowed in the store.
RowInv ==
  pc \in {"append", "mse", "signs", "value", "done"} =>
    LET v == QuantizeValue(token.value, token.group, token.levels)
    IN  /\ token.dim % token.group = 0
        /\ row = [mse |-> row.mse, signs |-> row.signs, data |-> v.data,
                  scales |-> IF Kept THEN KeptScales(v.scales, token.levels)
                             ELSE v.scales,
                  zeros |-> IF Kept THEN KeptZeros(v.zeros) ELSE v.zeros]

\* So is the key, unless it was copied over another size.
KeyInv ==
  pc = "append" \/ (pc \in {"mse", "signs", "value", "done"} /\ Whole) =>
    /\ row.mse = PackIndices(token.indices, token.bits)
    /\ row.signs = PackSigns(token.projected)

\* The first loop has read indices up to a byte, the second one signs.
ScoredInv ==
  /\ pc \in {"quantize", "append"} => scored = <<>>
  /\ pc = "mse" /\ Whole =>
       ReadSoFar(scored, token.indices, ValsPerByte(token.bits))
  /\ pc \in {"signs", "value", "done"} /\ Whole => scored = token.indices

SignedInv ==
  /\ pc \in {"quantize", "append", "mse"} => signed = <<>>
  /\ pc = "signs" /\ Whole => ReadSoFar(signed, SignsOf(token), 8)
  /\ pc \in {"value", "done"} /\ Whole => signed = SignsOf(token)

ReadInv ==
  pc = "done" =>
    read = [i \in 1 .. token.dim |->
              LET g == ((i - 1) \div token.group) + 1
              IN  IF NotFinite \in {row.scales[g], row.zeros[g]} THEN NotFinite
                  ELSE row.data[i] * row.scales[g] + token.levels * row.zeros[g]]

FormatInv ==
  /\ token \in Tokens /\ stored \in BOOLEAN
  /\ pc \in {"quantize", "append", "mse", "signs", "value", "done", "raised"}
  /\ pc = "append" => stored
  /\ RowInv /\ KeyInv /\ ScoredInv /\ SignedInv /\ ReadInv
  /\ FillsItsBuffers

\* Every width of an index has a format, in which its indices fit.
LEMMA FormatOfIndex ==
  ASSUME NEW bits \in 1 .. 8
  PROVE  /\ IsFormat(EffBits(bits), ValsPerByte(bits))
         /\ ValsPerByte(bits) \in {1, 2, 4, 8}
         /\ 0 .. 2^bits - 1 \subseteq 0 .. 2^EffBits(bits) - 1
<1>1. bits \in {1, 2, 3, 4, 5, 6, 7, 8}
  OBVIOUS
<1>2. CASE bits = 1
  BY <1>2 DEF IsFormat, EffBits, ValsPerByte
<1>3. CASE bits = 2
  BY <1>3 DEF IsFormat, EffBits, ValsPerByte
<1>4. CASE bits \in 3 .. 4
  <2>1. EffBits(bits) = 4 /\ ValsPerByte(bits) = 2
    BY <1>4 DEF EffBits, ValsPerByte
  <2>2. bits = 3 => 2^bits = 8
    OBVIOUS
  <2>3. bits = 4 => 2^bits = 16
    OBVIOUS
  <2>4. QED
    BY <1>1, <1>4, <2>1, <2>2, <2>3 DEF IsFormat
<1>5. CASE bits > 4
  <2>1. EffBits(bits) = 8 /\ ValsPerByte(bits) = 1
    BY <1>5 DEF EffBits, ValsPerByte
  <2>2. bits = 5 => 2^bits = 32
    OBVIOUS
  <2>3. bits = 6 => 2^bits = 64
    OBVIOUS
  <2>4. bits = 7 => 2^bits = 128
    OBVIOUS
  <2>5. 2^8 = 256
    OBVIOUS
  <2>6. 2^bits \in {32, 64, 128, 256}
    <3>1. bits \in {5, 6, 7} => 2^bits \in {32, 64, 128}
      BY <2>2, <2>3, <2>4
    <3>2. bits = 8 => 2^bits = 256
      OBVIOUS
    <3> DEFINE p == 2^bits
    <3>3. (bits \in {5, 6, 7} => p \in {32, 64, 128}) /\ (bits = 8 => p = 256)
      BY <3>1, <3>2
    <3> HIDE DEF p
    <3>4. p \in {32, 64, 128, 256}
      BY <1>1, <1>5, <3>3
    <3>5. QED
      BY <3>4 DEF p
  <2>7. QED
    BY <2>1, <2>5, <2>6 DEF IsFormat
<1>6. QED
  BY <1>2, <1>3, <1>4, <1>5

\* What the bytes of a token hold.
LEMMA TokenFacts ==
  ASSUME NEW t \in Tokens
  PROVE  /\ t.dim \in Nat /\ t.bits \in 1 .. 8 /\ t.group \in Nat \ {0}
         /\ t.levels \in Nat \ {0} /\ t.value \in Seq(Int) /\ Len(t.value) = t.dim
         /\ t.indices \in Seq(Int) /\ Len(t.indices) = t.dim
         /\ SignBits(t) \in Seq(Int) /\ Len(SignBits(t)) = t.dim
         /\ SignsOf(t) \in Seq(Int) /\ Len(SignsOf(t)) = t.dim
         /\ DOMAIN t.projected = 1 .. t.dim
         /\ Packed(PackIndices(t.indices, t.bits), t.indices,
                   EffBits(t.bits), ValsPerByte(t.bits))
         /\ Packed(PackSigns(t.projected), SignBits(t), 1, 8)
<1>1. /\ t.dim \in Nat /\ t.bits \in 1 .. 8
      /\ t.group \in Nat \ {0} /\ t.levels \in 1 .. 255
      /\ t.indices \in Seq(Nat) /\ Len(t.indices) = t.dim
      /\ \A i \in 1 .. t.dim : t.indices[i] \in 0 .. 2^t.bits - 1
      /\ t.projected \in Seq(Int) /\ Len(t.projected) = t.dim
      /\ t.value \in Seq(Int) /\ Len(t.value) = t.dim
  BY TokensAssumption
<1>2. t.indices \in Seq(Int) /\ DOMAIN t.projected = 1 .. t.dim
  BY <1>1
<1>3. SignBits(t) = [i \in 1 .. t.dim |-> IF t.projected[i] > 0 THEN 1 ELSE 0]
  BY <1>2 DEF SignBits
<1>4. /\ SignBits(t) \in Seq(Int) /\ Len(SignBits(t)) = t.dim
      /\ \A i \in 1 .. t.dim : SignBits(t)[i] \in 0 .. 2^1 - 1
  <2>1. 2^1 = 2
    OBVIOUS
  <2>2. QED
    BY <1>1, <1>3, <2>1, SMTT(30)
<1>5. SignsOf(t) \in Seq(Int) /\ Len(SignsOf(t)) = t.dim
  <2> DEFINE f == [i \in 1 .. t.dim |-> IF t.projected[i] > 0 THEN 1 ELSE -1]
  <2>1. f \in [1 .. t.dim -> Int] /\ t.dim \in Nat
    BY <1>1
  <2> HIDE DEF f
  <2>2. f \in Seq(Int) /\ Len(f) = t.dim
    BY ONLY <2>1
  <2>3. QED
    BY <2>2 DEF f, SignsOf
<1>6. Packed(PackIndices(t.indices, t.bits), t.indices,
             EffBits(t.bits), ValsPerByte(t.bits))
  <2> DEFINE s == t.indices
             w == EffBits(t.bits)
             n == ValsPerByte(t.bits)
  <2>1. /\ s \in Seq(Int) /\ IsFormat(w, n)
        /\ \A i \in 1 .. Len(s) : s[i] \in 0 .. 2^w - 1
    BY <1>1, <1>2, FormatOfIndex
  <2>2. PackIndices(t.indices, t.bits) = Pack(s, w, n)
    BY DEF PackIndices
  <2> HIDE DEF s, w, n
  <2>3. Packed(Pack(s, w, n), s, w, n)
    BY <2>1, PackFacts
  <2>4. QED
    BY <2>2, <2>3 DEF s, w, n
<1>7. Packed(PackSigns(t.projected), SignBits(t), 1, 8)
  <2> DEFINE s == SignBits(t)
  <2>1. /\ s \in Seq(Int) /\ IsFormat(1, 8)
        /\ \A i \in 1 .. Len(s) : s[i] \in 0 .. 2^1 - 1
    BY <1>4 DEF IsFormat
  <2>2. PackSigns(t.projected) = Pack(s, 1, 8)
    BY DEF PackSigns, SignBits
  <2> HIDE DEF s
  <2>3. Packed(Pack(s, 1, 8), s, 1, 8)
    BY <2>1, PackFacts
  <2>4. QED
    BY <2>2, <2>3 DEF s
<1>8. t.levels \in Nat \ {0}
  <2>1. t.levels \in 1 .. 255
    BY <1>1
  <2>2. QED
    BY ONLY <2>1
<1>9. QED
  BY <1>1, <1>2, <1>4, <1>5, <1>6, <1>7, <1>8, Zenon

\* A copy of the right size changes nothing; the buffers have that size for
\* dimensions that are whole in bytes of signs.
LEMMA CopyFits ==
  ASSUME NEW s \in Seq(Int)
  PROVE  CopyTo(s, Len(s)) = s
<1>1. s = [i \in 1 .. Len(s) |-> s[i]]
  OBVIOUS
<1>2. \A i \in 1 .. Len(s) : (IF Len(s) = 1 THEN s[1] ELSE s[i]) = s[i]
  OBVIOUS
<1>3. CopyTo(s, Len(s)) = [i \in 1 .. Len(s) |-> s[i]]
  BY <1>2 DEF CopyTo
<1>4. QED
  BY <1>1, <1>3

LEMMA StoreSizes ==
  ASSUME NEW t \in Tokens, t.dim % 8 = 0
  PROVE  /\ Len(PackSigns(t.projected)) = PackedDSigns(t.dim)
         /\ t.bits <= 4 =>
              Len(PackIndices(t.indices, t.bits)) = PackedDMse(t.dim, t.bits)
         /\ Copies(PackIndices(t.indices, t.bits), PackedDMse(t.dim, t.bits)) =>
              Len(PackIndices(t.indices, t.bits)) = PackedDMse(t.dim, t.bits)
<1> DEFINE d == t.dim
           m == Len(PackIndices(t.indices, t.bits))
           s == Len(PackSigns(t.projected))
           n == ValsPerByte(t.bits)
<1>1. /\ d \in Nat /\ d % 8 = 0 /\ t.bits \in 1 .. 8
      /\ m \in Nat /\ n * m >= d /\ n * m < d + n
      /\ s \in Nat /\ 8 * s >= d /\ 8 * s < d + 8
  BY TokenFacts DEF Packed
<1>2. n = IF t.bits = 1 THEN 8 ELSE IF t.bits = 2 THEN 4
          ELSE IF t.bits <= 4 THEN 2 ELSE 1
  BY <1>1 DEF ValsPerByte, EffBits
<1>3. PackedDMse(t.dim, t.bits) = IF t.bits = 1 THEN d \div 8
                                  ELSE IF t.bits = 2 THEN d \div 4 ELSE d \div 2
  BY DEF PackedDMse
<1> HIDE DEF d, m, s, n
<1>4. s = d \div 8
  BY <1>1
<1>5. t.bits <= 4 => m = PackedDMse(t.dim, t.bits)
  <2>1. CASE t.bits = 1
    BY <1>1, <1>2, <1>3, <2>1
  <2>2. CASE t.bits = 2
    BY <1>1, <1>2, <1>3, <2>2
  <2>3. CASE t.bits \in 3 .. 4
    BY <1>1, <1>2, <1>3, <2>3
  <2>4. QED
    BY <1>1, <2>1, <2>2, <2>3
<1>6. t.bits > 4 /\ m \in {1, d \div 2} => m = d \div 2
  BY <1>1, <1>2
<1>7. t.bits > 4 => PackedDMse(t.dim, t.bits) = d \div 2
  BY <1>1, <1>3
<1>8. QED
  BY <1>1, <1>4, <1>5, <1>6, <1>7, SMTT(30) DEF d, m, s, Copies, PackedDSigns

\* The invariant of a token on its way.
LEMMA AlwaysInFormat == Spec => []FormatInv
<1>1. Init => FormatInv
  BY DEF Init, FormatInv, RowInv, KeyInv, ScoredInv, SignedInv, ReadInv,
         FillsItsBuffers
<1>2. ASSUME FormatInv, Quantize PROVE FormatInv'
  <2> DEFINE v == QuantizeValue(token.value, token.group, token.levels)
  <2> HIDE DEF v
  <2>1. /\ token \in Tokens /\ stored \in BOOLEAN /\ scored = <<>> /\ signed = <<>>
        /\ pc = "quantize" /\ UNCHANGED <<token, stored, scored, signed, read>>
    BY <1>2 DEF FormatInv, ScoredInv, SignedInv, Quantize
  <2>2. CASE token.dim % token.group # 0
    <3>1. pc' = "raised" /\ row' = row
      BY <1>2, <2>2 DEF Quantize
    <3>2. QED
      BY <2>1, <2>2, <3>1 DEF FormatInv, RowInv, KeyInv, ScoredInv, SignedInv,
                              ReadInv, FillsItsBuffers
  <2>3. CASE token.dim % token.group = 0
    <3>1. /\ pc' = IF stored THEN "append" ELSE "mse"
          /\ row' = [mse |-> PackIndices(token.indices, token.bits),
                     signs |-> PackSigns(token.projected),
                     data |-> v.data, scales |-> v.scales, zeros |-> v.zeros]
      BY <1>2, <2>3 DEF Quantize, v
    <3>2. RowInv' /\ KeyInv'
      BY <2>1, <2>3, <3>1 DEF RowInv, KeyInv, Kept, v
    <3>3. ScoredInv' /\ SignedInv' /\ ReadInv' /\ FillsItsBuffers'
      <4>1. ReadSoFar(<<>>, token.indices, ValsPerByte(token.bits))
        BY <2>1, TokenFacts, FormatOfIndex, NothingRead
      <4>2. QED
        BY <2>1, <3>1, <4>1 DEF ScoredInv, SignedInv, ReadInv, FillsItsBuffers
    <3>4. QED
      BY <2>1, <3>1, <3>2, <3>3 DEF FormatInv
  <2>4. QED
    BY <2>2, <2>3
<1>3. ASSUME FormatInv, StoreRow PROVE FormatInv'
  <2> DEFINE v == QuantizeValue(token.value, token.group, token.levels)
             M == PackIndices(token.indices, token.bits)
             S == PackSigns(token.projected)
             dm == PackedDMse(token.dim, token.bits)
             ds == PackedDSigns(token.dim)
  <2> HIDE DEF v, M, S, dm, ds
  <2>1. /\ token \in Tokens /\ stored = TRUE /\ scored = <<>> /\ signed = <<>>
        /\ pc = "append" /\ UNCHANGED <<token, stored, scored, signed, read>>
        /\ token.dim % token.group = 0
        /\ row = [mse |-> M, signs |-> S, data |-> v.data, scales |-> v.scales,
                  zeros |-> v.zeros]
    BY <1>3 DEF FormatInv, RowInv, KeyInv, ScoredInv, SignedInv, StoreRow, Kept, v, M, S
  <2>2. token.dim % 8 = 0 =>
          /\ Len(S) = ds
          /\ token.bits <= 4 => Len(M) = dm
          /\ Copies(M, dm) => Len(M) = dm
    BY <2>1, StoreSizes DEF M, S, dm, ds
  <2>3. M \in Seq(Int) /\ S \in Seq(Int)
    BY <2>1, TokenFacts DEF Packed, M, S
  <2>4. CASE Copies(M, dm) /\ Copies(S, ds)
    <3>1. /\ pc' = "mse"
          /\ row' = [mse |-> CopyTo(row.mse, dm), signs |-> CopyTo(row.signs, ds),
                     data |-> row.data,
                     scales |-> KeptScales(row.scales, token.levels),
                     zeros |-> KeptZeros(row.zeros)]
      BY <1>3, <2>1, <2>4 DEF StoreRow, KeptScales, KeptZeros, dm, ds
    <3>2. row' = [mse |-> CopyTo(M, dm), signs |-> CopyTo(S, ds), data |-> v.data,
                  scales |-> KeptScales(v.scales, token.levels),
                  zeros |-> KeptZeros(v.zeros)]
      BY <2>1, <3>1
    <3>3. RowInv'
      BY <2>1, <3>1, <3>2 DEF RowInv, Kept, v
    <3>4. KeyInv'
      <4>1. ASSUME token.dim % 8 = 0 PROVE CopyTo(M, dm) = M /\ CopyTo(S, ds) = S
        BY <2>2, <2>3, <2>4, <4>1, CopyFits
      <4>2. QED
        BY <2>1, <3>1, <3>2, <4>1 DEF KeyInv, Whole, M, S
    <3>5. ScoredInv' /\ SignedInv' /\ ReadInv' /\ FillsItsBuffers'
      <4>1. ReadSoFar(<<>>, token.indices, ValsPerByte(token.bits))
        BY <2>1, TokenFacts, FormatOfIndex, NothingRead
      <4>2. QED
        BY <2>1, <3>1, <4>1 DEF ScoredInv, SignedInv, ReadInv, FillsItsBuffers
    <3>6. QED
      BY <2>1, <3>1, <3>3, <3>4, <3>5 DEF FormatInv
  <2>5. CASE ~ (Copies(M, dm) /\ Copies(S, ds))
    <3>1. pc' = "raised" /\ row' = row
      BY <1>3, <2>1, <2>5 DEF StoreRow, dm, ds
    <3>2. token.dim % 8 # 0 \/ token.bits > 4
      <4>1. ASSUME token.dim % 8 = 0, token.bits <= 4 PROVE FALSE
        BY <2>2, <2>5, <4>1 DEF Copies
      <4>2. token.bits \in Int
        BY <2>1, TokenFacts
      <4>3. QED
        BY <4>1, <4>2
    <3>3. QED
      BY <2>1, <3>1, <3>2 DEF FormatInv, RowInv, KeyInv, ScoredInv, SignedInv,
                              ReadInv, FillsItsBuffers
  <2>6. QED
    BY <2>4, <2>5
<1>4. ASSUME FormatInv, ScoreByte PROVE FormatInv'
  <2> DEFINE n == ValsPerByte(token.bits)
             w == EffBits(token.bits)
             b == Len(scored) \div n
             u == token.indices
             ends == b * n < Len(scored) \/ b >= Len(row.mse)
             more == [j \in 1 .. Min({n, token.dim - b * n}) |->
                        Field(row.mse[b + 1], w, j - 1)]
  <2>1. /\ token \in Tokens /\ pc = "mse" /\ signed = <<>>
        /\ UNCHANGED <<token, stored, row, signed, read>>
        /\ ends => pc' = "signs" /\ scored' = scored
        /\ ~ ends => pc' = pc /\ scored' = scored \o more
    BY <1>4 DEF FormatInv, SignedInv, ScoreByte
  <2>2. ASSUME Whole
        PROVE  /\ ends => scored = u
               /\ ~ ends => ReadSoFar(scored \o more, u, n)
    <3>1. /\ u \in Seq(Int) /\ Len(u) = token.dim /\ IsFormat(w, n)
          /\ n \in {1, 2, 4, 8} /\ token.dim \in Nat
          /\ Packed(row.mse, u, w, n)
      BY <1>4, <2>1, <2>2, TokenFacts, FormatOfIndex DEF FormatInv, KeyInv
    <3>2. ReadSoFar(scored, u, n)
      BY <1>4, <2>1, <2>2 DEF FormatInv, ScoredInv
    <3> HIDE DEF n, w, u, b
    <3>3. b = Len(scored) \div n
      BY DEF b
    <3>4. LoopTurn(row.mse, u, w, n, scored, u, b)
      BY <3>1, <3>2, <3>3, NextByte
    <3>5. ASSUME ~ ends PROVE ReadSoFar(scored \o more, u, n)
      <4> DEFINE k == Min({n, token.dim - b * n})
      <4>1. /\ b * n = Len(scored) /\ Len(scored) % n = 0 /\ k \in Nat
            /\ \A j \in 1 .. k :
                 /\ Len(scored) + j \in 1 .. Len(u)
                 /\ Field(row.mse[b + 1], w, j - 1) = u[Len(scored) + j]
        BY <3>1, <3>4, <3>5 DEF LoopTurn
      <4>2. /\ u \in Seq(Int) /\ k \in Nat
            /\ \A j \in 1 .. k : Len(scored) + j \in 1 .. Len(u)
        BY <3>1, <4>1
      <4>3. k = Min({n, Len(u) - Len(scored)})
        <5>1. Len(u) - Len(scored) = token.dim - b * n
          BY <3>1, <4>1
        <5>2. QED
          BY <5>1
      <4>4. more = [j \in 1 .. k |-> Field(row.mse[b + 1], w, j - 1)]
        OBVIOUS
      <4> HIDE DEF k, more
      <4>5. more = [j \in 1 .. k |-> u[Len(scored) + j]]
        BY <4>1, <4>4
      <4>6. more \in Seq(Int) /\ Len(more) = k
        BY ONLY <4>2, <4>5
      <4>7. \A j \in 1 .. Len(more) : more[j] = u[Len(scored) + j]
        BY ONLY <4>5, <4>6
      <4>8. QED
        BY <3>1, <3>2, <4>1, <4>3, <4>6, <4>7, ReadOn
    <3>6. ends => scored = u
      BY <3>4 DEF LoopTurn
    <3>7. QED
      BY <3>5, <3>6
  <2> HIDE DEF ends, more, b
  <2>3. RowInv' /\ KeyInv' /\ ReadInv' /\ FillsItsBuffers'
    BY <1>4, <2>1 DEF FormatInv, RowInv, KeyInv, ReadInv, FillsItsBuffers, Whole, Kept
  <2>4. ScoredInv'
    BY <1>4, <2>1, <2>2 DEF ScoredInv, Whole
  <2>5. SignedInv'
    <3>1. ReadSoFar(<<>>, SignsOf(token), 8)
      BY <2>1, TokenFacts, NothingRead
    <3>2. QED
      BY <2>1, <3>1 DEF SignedInv, Whole
  <2>6. QED
    BY <1>4, <2>1, <2>3, <2>4, <2>5 DEF FormatInv
<1>5. ASSUME FormatInv, SignByte PROVE FormatInv'
  <2> DEFINE b == Len(signed) \div 8
             u == SignsOf(token)
             s == SignBits(token)
             ends == b * 8 < Len(signed) \/ b >= Len(row.signs)
             more == [j \in 1 .. Min({8, token.dim - b * 8}) |->
                        IF Field(row.signs[b + 1], 1, j - 1) = 1 THEN 1 ELSE -1]
  <2>1. /\ token \in Tokens /\ pc = "signs"
        /\ UNCHANGED <<token, stored, row, scored, read>>
        /\ ends => pc' = "value" /\ signed' = signed
        /\ ~ ends => pc' = pc /\ signed' = signed \o more
    BY <1>5 DEF FormatInv, SignByte
  <2>2. ASSUME Whole
        PROVE  /\ ends => signed = u
               /\ ~ ends => ReadSoFar(signed \o more, u, 8)
    <3>1. /\ u \in Seq(Int) /\ Len(u) = token.dim /\ IsFormat(1, 8)
          /\ s \in Seq(Int) /\ Len(s) = token.dim
          /\ token.dim \in Nat
          /\ Packed(row.signs, s, 1, 8)
      BY <1>5, <2>1, <2>2, TokenFacts DEF FormatInv, KeyInv, IsFormat
    <3>2. ReadSoFar(signed, u, 8)
      BY <1>5, <2>1, <2>2 DEF FormatInv, SignedInv
    <3>3. \A i \in 1 .. token.dim : u[i] = IF s[i] = 1 THEN 1 ELSE -1
      BY <2>1, TokenFacts DEF SignsOf, SignBits
    <3> HIDE DEF u, s, b
    <3>4. b = Len(signed) \div 8
      BY DEF b
    <3>5. LoopTurn(row.signs, s, 1, 8, signed, u, b)
      BY <3>1, <3>2, <3>4, NextByte
    <3>6. ASSUME ~ ends PROVE ReadSoFar(signed \o more, u, 8)
      <4> DEFINE k == Min({8, token.dim - b * 8})
      <4>1. /\ b * 8 = Len(signed) /\ Len(signed) % 8 = 0 /\ k \in Nat
            /\ \A j \in 1 .. k :
                 /\ Len(signed) + j \in 1 .. token.dim
                 /\ Field(row.signs[b + 1], 1, j - 1) = s[Len(signed) + j]
        BY <3>1, <3>5, <3>6 DEF LoopTurn
      <4>2. /\ u \in Seq(Int) /\ k \in Nat
            /\ \A j \in 1 .. k : Len(signed) + j \in 1 .. Len(u)
        BY <3>1, <4>1
      <4>3. k = Min({8, Len(u) - Len(signed)})
        <5>1. Len(u) - Len(signed) = token.dim - b * 8
          BY <3>1, <4>1
        <5>2. QED
          BY <5>1
      <4>4. more = [j \in 1 .. k |->
                      IF Field(row.signs[b + 1], 1, j - 1) = 1 THEN 1 ELSE -1]
        OBVIOUS
      <4> HIDE DEF k, more
      <4>5. more = [j \in 1 .. k |-> u[Len(signed) + j]]
        BY <3>3, <4>1, <4>4
      <4>6. more \in Seq(Int) /\ Len(more) = k
        BY ONLY <4>2, <4>5
      <4>7. \A j \in 1 .. Len(more) : more[j] = u[Len(signed) + j]
        BY ONLY <4>5, <4>6
      <4>8. QED
        BY <3>1, <3>2, <4>1, <4>3, <4>6, <4>7, ReadOn
    <3>7. ends => signed = u
      BY <3>5 DEF LoopTurn
    <3>8. QED
      BY <3>6, <3>7
  <2> HIDE DEF ends, more, b
  <2>3. RowInv' /\ KeyInv' /\ ReadInv' /\ FillsItsBuffers'
    BY <1>5, <2>1 DEF FormatInv, RowInv, KeyInv, ReadInv, FillsItsBuffers, Whole, Kept
  <2>4. SignedInv'
    BY <1>5, <2>1, <2>2 DEF SignedInv, Whole
  <2>5. ScoredInv'
    BY <1>5, <2>1 DEF FormatInv, ScoredInv, Whole
  <2>6. QED
    BY <1>5, <2>1, <2>3, <2>4, <2>5 DEF FormatInv
<1>6. ASSUME FormatInv, AccumulateValue PROVE FormatInv'
  BY <1>6 DEF FormatInv, AccumulateValue, RowInv, KeyInv, ScoredInv, SignedInv,
              ReadInv, FillsItsBuffers, Whole, Kept
<1>7. ASSUME FormatInv, UNCHANGED vars PROVE FormatInv'
  BY <1>7 DEF FormatInv, vars, RowInv, KeyInv, ScoredInv, SignedInv, ReadInv,
              FillsItsBuffers, Whole, Kept
<1>8. QED
  BY <1>1, <1>2, <1>3, <1>4, <1>5, <1>6, <1>7, PTL DEF Spec, Next

\* kv_store.py:222-247: append_chunk() finds the rows of the sizes that it
\* reserved for them, whenever the head dimension is whole in bytes and groups.
THEOREM StoreFits == Spec => []FillsItsBuffers
<1>1. FormatInv => FillsItsBuffers
  BY DEF FormatInv
<1>2. QED
  BY <1>1, AlwaysInFormat, PTL

\* triton_kernels.py:54-76 and quantizer.py:80-94: for every key, the loops over
\* the bytes and the functions that unpack a row use the indices and the signs
\* that were packed, of each coordinate once.
THEOREM KeyComesBack == Spec => []ReadersRecoverKey
<1>1. ASSUME FormatInv, pc = "done", stored => token.dim % 8 = 0
      PROVE  /\ scored = token.indices
             /\ scored = UnpackIndices(row.mse, token.bits, token.dim)
             /\ signed = [i \in 1 .. token.dim |->
                            IF token.projected[i] > 0 THEN 1 ELSE -1]
             /\ signed = UnpackSigns(row.signs, token.dim)
  <2>1. /\ scored = token.indices /\ signed = SignsOf(token)
        /\ row.mse = PackIndices(token.indices, token.bits)
        /\ row.signs = PackSigns(token.projected)
        /\ token \in Tokens
    BY <1>1 DEF FormatInv, KeyInv, ScoredInv, SignedInv, Whole
  <2>2. token.indices = UnpackIndices(row.mse, token.bits, token.dim)
    <3>1. /\ IsFormat(EffBits(token.bits), ValsPerByte(token.bits))
          /\ token.indices \in Seq(Int) /\ Len(token.indices) = token.dim
          /\ Packed(row.mse, token.indices, EffBits(token.bits),
                    ValsPerByte(token.bits))
      BY <2>1, TokenFacts, FormatOfIndex
    <3> DEFINE w == EffBits(token.bits)
               n == ValsPerByte(token.bits)
               s == token.indices
               bytes == row.mse
    <3>2. UnpackIndices(bytes, token.bits, Len(s)) = Unpacked(bytes, w, n, Len(s))
      BY DEF UnpackIndices, Unpacked
    <3>3. s = UnpackIndices(bytes, token.bits, Len(s))
      <4>1. IsFormat(w, n) /\ s \in Seq(Int) /\ Packed(bytes, s, w, n)
        BY <3>1
      <4> HIDE DEF w, n, s, bytes
      <4>2. QED
        BY <4>1, <3>2, UnpackFacts
    <3>4. QED
      BY <3>1, <3>3
  <2>3. SignsOf(token) = UnpackSigns(row.signs, token.dim)
    <3> DEFINE s == SignBits(token)
               bytes == row.signs
               d == token.dim
               f == [i \in 1 .. 8 * Len(bytes) |->
                       2 * Field(bytes[((i - 1) \div 8) + 1], 1, (i - 1) % 8) - 1]
    <3>1. /\ s \in Seq(Int) /\ Len(s) = d /\ d \in Nat /\ Packed(bytes, s, 1, 8)
      BY <2>1, TokenFacts
    <3>2. /\ d \in Nat /\ Len(bytes) \in Nat /\ 8 * Len(bytes) >= d
          /\ \A i \in 1 .. d :
               Field(bytes[((i - 1) \div 8) + 1], 1, (i - 1) % 8) = s[i]
      BY <3>1 DEF Packed
    <3>3. \A i \in 1 .. d : SignsOf(token)[i] = 2 * s[i] - 1
      BY <2>1, TokenFacts DEF SignsOf, SignBits
    <3>4. SignsOf(token) = [i \in 1 .. d |-> SignsOf(token)[i]]
      BY DEF SignsOf
    <3> HIDE DEF s, d, bytes
    <3>5. SubSeq(f, 1, d) = [i \in 1 .. d |-> 2 * s[i] - 1]
      <4>1. \A i \in 1 .. d : f[i] = 2 * s[i] - 1
        BY <3>2
      <4> HIDE DEF f
      <4>2. SubSeq(f, 1, d) = [i \in 1 .. (d - 1) + 1 |-> f[(1 + i) - 1]]
        BY <3>2
      <4>3. SubSeq(f, 1, d) = [i \in 1 .. d |-> f[i]]
        BY <3>2, <4>2
      <4>4. QED
        BY <4>1, <4>3
    <3>6. UnpackSigns(bytes, d) = SubSeq(f, 1, d)
      BY DEF UnpackSigns
    <3>7. QED
      BY <3>3, <3>4, <3>5, <3>6 DEF bytes, d
  <2>4. QED
    BY <2>1, <2>2, <2>3 DEF SignsOf
<1>2. FormatInv => ReadersRecoverKey
  BY <1>1 DEF ReadersRecoverKey
<1>3. QED
  BY <1>2, AlwaysInFormat, PTL

\* The error of what is read, from those of rounding to steps, of the scale and
\* of the zero.
LEMMA ErrorsAdd ==
  ASSUME NEW N \in Nat, NEW data \in Nat, NEW levels \in Nat,
         NEW span \in Nat, NEW zero \in Int, NEW y \in Int,
         NEW S \in Int, NEW Z \in Int, NEW A \in Int, NEW B \in Int,
         2 * Abs((data * span + levels * zero) - y) <= span,
         2 * N * Abs(S - span) <= A, 2 * N * Abs(Z - zero) <= B
  PROVE  2 * N * Abs((data * S + levels * Z) - y) <= N * span + (data * A + levels * B)
<1> DEFINE e0 == (data * span + levels * zero) - y
           e1 == S - span
           e2 == Z - zero
           a0 == Abs(e0)
           a1 == Abs(e1)
           a2 == Abs(e2)
           d  == (data * S + levels * Z) - y
<1>1. e0 \in Int /\ e1 \in Int /\ e2 \in Int /\ d \in Int
  OBVIOUS
<1>2. d = e0 + data * e1 + levels * e2
  <2>1. data * S = data * span + data * e1 /\ levels * Z = levels * zero + levels * e2
    OBVIOUS
  <2> DEFINE p == data * S
             q == data * span
             r == data * e1
             t == levels * Z
             u == levels * zero
             w == levels * e2
  <2>2. p \in Int /\ q \in Int /\ r \in Int /\ t \in Int /\ u \in Int /\ w \in Int
    OBVIOUS
  <2>3. p = q + r /\ t = u + w
    BY <2>1
  <2>4. d = (p + t) - y /\ e0 = (q + u) - y
    OBVIOUS
  <2> HIDE DEF p, q, r, t, u, w, d, e0, e1, e2
  <2>5. d = e0 + r + w
    BY ONLY <2>2, <2>3, <2>4, y \in Int
  <2>6. QED
    BY <2>5 DEF r, w
<1> HIDE DEF e0, e1, e2, d
<1>3. /\ a0 \in Nat /\ e0 <= a0 /\ -e0 <= a0
      /\ a1 \in Nat /\ e1 <= a1 /\ -e1 <= a1
      /\ a2 \in Nat /\ e2 <= a2 /\ -e2 <= a2
  BY <1>1, AbsFacts
<1>4. 2 * a0 <= span /\ 2 * N * a1 <= A /\ 2 * N * a2 <= B
  BY DEF e0, e1, e2
<1> HIDE DEF a0, a1, a2
<1>5. /\ data * e1 <= data * a1 /\ data * (-e1) <= data * a1
      /\ levels * e2 <= levels * a2 /\ levels * (-e2) <= levels * a2
      /\ data * (-e1) = -(data * e1) /\ levels * (-e2) = -(levels * e2)
      /\ data * e1 \in Int /\ levels * e2 \in Int
      /\ data * a1 \in Int /\ levels * a2 \in Int
  BY <1>1, <1>3, TimesGrows
<1>6. d <= a0 + data * a1 + levels * a2 /\ -d <= a0 + data * a1 + levels * a2
  BY <1>1, <1>2, <1>3, <1>5
<1>7. Abs(d) \in Nat /\ Abs(d) <= a0 + data * a1 + levels * a2
  BY <1>1, <1>6, AbsFacts
<1> DEFINE c == Abs(d)
           s1 == data * a1
           s2 == levels * a2
<1>8. c \in Nat /\ s1 \in Nat /\ s2 \in Nat /\ c <= a0 + s1 + s2
  BY <1>3, <1>7
<1>9. /\ N * (2 * a0) <= N * span
      /\ data * (2 * N * a1) <= data * A
      /\ levels * (2 * N * a2) <= levels * B
  BY <1>3, <1>4, TimesGrows
<1>10. data * (2 * N * a1) = 2 * N * s1 /\ levels * (2 * N * a2) = 2 * N * s2
  BY <1>3
<1> HIDE DEF c, s1, s2
<1>11. 2 * N * c <= 2 * N * (a0 + s1 + s2)
  <2>1. 2 * N \in Nat /\ a0 + s1 + s2 \in Int
    BY <1>3, <1>8
  <2>2. QED
    BY <1>8, <2>1, TimesGrows
<1>12. 2 * N * (a0 + s1 + s2) = N * (2 * a0) + 2 * N * s1 + 2 * N * s2
  BY <1>3, <1>8
<1> DEFINE p0 == N * (2 * a0)
           p1 == 2 * N * s1
           p2 == 2 * N * s2
           q0 == N * span
           q1 == data * A
           q2 == levels * B
           p  == 2 * N * c
<1>13. /\ p0 \in Int /\ p1 \in Int /\ p2 \in Int
       /\ q0 \in Int /\ q1 \in Int /\ q2 \in Int /\ p \in Int
  BY <1>3, <1>8
<1>14. p <= p0 + p1 + p2 /\ p0 <= q0 /\ p1 <= q1 /\ p2 <= q2
  BY <1>9, <1>10, <1>11, <1>12
<1> HIDE DEF p0, p1, p2, q0, q1, q2, p
<1>15. p <= q0 + (q1 + q2)
  BY ONLY <1>13, <1>14
<1>16. QED
  BY <1>15 DEF p, q0, q1, q2, c, d

\* kv_store.py:34-88 and 241-246, and the kernels: for every value, group and
\* number of levels, and every width of the store's floats, what is read is
\* within half a step of what was quantized, and the store adds half a digit of
\* the scale for every step and half a digit of the zero, unless one of them is
\* larger than the largest float.
THEOREM ValueComesBack == Spec => []ValueComesBackClose
<1>1. ASSUME FormatInv, pc = "done", NEW i \in 1 .. token.dim,
             NEW v, v = QuantizeValue(token.value, token.group, token.levels),
             NEW g, g = ((i - 1) \div token.group) + 1
      PROVE  IF read[i] = NotFinite
             THEN stored /\ \/ Abs(v.zeros[g]) > Largest
                            \/ v.scales[g] > token.levels * Largest
             ELSE 2 * Normal * Abs(read[i] - token.levels * token.value[i])
                    <= Normal * v.scales[g]
                         + (IF stored
                            THEN v.data[i] * Max({Normal * token.levels, v.scales[g]})
                                   + token.levels * Max({Normal, Abs(v.zeros[g])})
                            ELSE 0)
  <2> DEFINE levels == token.levels
             value == token.value
             data == v.data[i]
             span == v.scales[g]
             zero == v.zeros[g]
             S == row.scales[g]
             Z == row.zeros[g]
             y == levels * value[i]
  <2>1. /\ value \in Seq(Int) /\ Len(value) = token.dim
        /\ token.group \in Nat \ {0} /\ levels \in Nat \ {0}
        /\ token.dim % token.group = 0
    BY <1>1, TokenFacts DEF FormatInv, RowInv
  <2>2. /\ row.data = v.data
        /\ row.scales = IF stored THEN KeptScales(v.scales, levels) ELSE v.scales
        /\ row.zeros = IF stored THEN KeptZeros(v.zeros) ELSE v.zeros
    BY <1>1 DEF FormatInv, RowInv, Kept
  <2>3. /\ g \in DOMAIN v.scales /\ g \in DOMAIN v.zeros
        /\ span \in Nat /\ zero \in Int /\ data \in Nat
        /\ 2 * Abs((data * span + levels * zero) - y) <= span
    <3> DEFINE d == (data * span + levels * zero) - y
    <3>1. /\ g \in DOMAIN v.scales /\ g \in DOMAIN v.zeros
          /\ span \in Nat /\ zero \in Int /\ data \in Nat
          /\ d \in Int /\ 2 * Abs(d) <= span
      <4>1. levels \in Nat /\ Len(value) % token.group = 0 /\ i \in 1 .. Len(value)
        BY <1>1, <2>1
      <4>2. d = (v.data[i] * v.scales[g] + levels * v.zeros[g]) - levels * value[i]
        OBVIOUS
      <4>3. v = QuantizeValue(value, token.group, levels)
            /\ g = ((i - 1) \div token.group) + 1
        BY <1>1
      <4> HIDE DEF d, value, levels
      <4>4. QED
        BY <2>1, <4>1, <4>2, <4>3, ValueFacts
    <3>2. QED
      BY <3>1
  <2>4. y \in Int
    BY <1>1, <2>1
  <2>5. read[i] = IF NotFinite \in {S, Z} THEN NotFinite
                  ELSE data * S + levels * Z
    BY <1>1, <2>2 DEF FormatInv, ReadInv
  <2>6. NotFinite \notin Int /\ Normal \in Nat
    BY Float16Assumption, PowerType DEF Normal
  <2> DEFINE A == Max({Normal * levels, span})
             B == Max({Normal, Abs(zero)})
             result == read[i]
  <2>7. CASE ~ stored
    <3>1. S = span /\ Z = zero
      BY <2>2, <2>7
    <3> HIDE DEF S, Z, span, zero, data, y, levels
    <3>2. data * span + levels * zero \in Int
      BY <2>1, <2>3
    <3>3. result = data * span + levels * zero /\ result # NotFinite
      BY <2>3, <2>5, <2>6, <3>1, <3>2
    <3> HIDE DEF result
    <3>4. 2 * Normal * Abs(result - y) <= Normal * span
      <4> DEFINE d == Abs(result - y)
      <4>1. d \in Nat
        BY <2>4, <3>2, <3>3, AbsFacts
      <4>2. 2 * d <= span
        BY <2>3, <3>3
      <4> HIDE DEF d
      <4>3. Normal * (2 * d) <= Normal * span
        BY <2>3, <2>6, <4>1, <4>2, TimesGrows
      <4>4. Normal * (2 * d) = 2 * Normal * d
        BY <2>6, <4>1
      <4>5. QED
        BY <4>3, <4>4 DEF d
    <3>5. Normal * span + 0 = Normal * span
      BY <2>3, <2>6
    <3>6. QED
      BY <2>7, <3>3, <3>4, <3>5 DEF result, span, y, levels
  <2>8. CASE stored
    <3>1. /\ S = NarrowScale(span, levels)
          /\ Z = Narrow(zero, 1)
      BY <2>2, <2>3, <2>8 DEF KeptScales, KeptZeros
    <3> DEFINE scale == Narrow(span, levels)
    <3> HIDE DEF S, Z, span, zero, data, y, levels
    <3>2. span \in Int /\ Abs(span) = span
      BY <2>3 DEF Abs
    <3>3. /\ scale = NotFinite => span > levels * Largest
          /\ scale # NotFinite =>
               scale \in Int /\ 2 * Normal * Abs(levels * scale - span) <= A
      BY <2>1, <3>2, NarrowFacts
    <3>4. /\ Z = NotFinite => Abs(zero) > 1 * Largest
          /\ Z # NotFinite =>
               Z \in Int /\ 2 * Normal * Abs(1 * Z - zero) <= Max({Normal * 1, Abs(zero)})
      <4>1. 1 \in Nat \ {0}
        OBVIOUS
      <4>2. QED
        BY <2>3, <3>1, <4>1, NarrowFacts
    <3>5. 1 * Largest = Largest /\ Normal * 1 = Normal
      <4>1. Largest \in Int
        BY Float16Assumption, PowerType DEF Largest
      <4>2. QED
        BY <2>6, <4>1
    <3>6. S = IF scale = NotFinite THEN NotFinite ELSE levels * scale
      BY <3>1 DEF NarrowScale
    <3> HIDE DEF scale
    <3>7. CASE scale = NotFinite \/ Z = NotFinite
      <4>1. result = NotFinite
        BY <2>5, <3>6, <3>7
      <4>2. Abs(zero) > Largest \/ span > levels * Largest
        BY <3>3, <3>4, <3>5, <3>7
      <4>3. QED
        BY <2>8, <4>1, <4>2 DEF result, zero, span, levels
    <3>8. CASE scale # NotFinite /\ Z # NotFinite
      <4>1. /\ S \in Int /\ S = levels * scale
            /\ 2 * Normal * Abs(S - span) <= A
        BY <2>1, <3>3, <3>6, <3>8
      <4>2. /\ Z \in Int /\ 1 * Z = Z
            /\ 2 * Normal * Abs(Z - zero) <= B
        BY <3>4, <3>5, <3>8
      <4>3. result = data * S + levels * Z /\ result # NotFinite
        <5>1. data * S + levels * Z \in Int
          BY <2>1, <2>3, <4>1, <4>2
        <5>2. QED
          BY <2>5, <2>6, <4>1, <4>2, <5>1
      <4> HIDE DEF result
      <4>4. A \in Int /\ B \in Int
        <5>1. Normal * levels \in Int /\ span \in Int
          BY <2>1, <2>3, <2>6
        <5>2. Normal \in Int /\ Abs(zero) \in Int
          BY <2>3, <2>6, AbsFacts
        <5>3. QED
          BY <5>1, <5>2, MaxOfTwo
      <4> HIDE DEF A, B
      <4>5. 2 * Normal * Abs((data * S + levels * Z) - y)
              <= Normal * span + (data * A + levels * B)
        <5>1. levels \in Nat /\ Normal \in Nat
          BY <2>1, <2>6
        <5>2. /\ data \in Nat /\ span \in Nat /\ zero \in Int
              /\ 2 * Abs((data * span + levels * zero) - y) <= span
          BY <2>3
        <5>3. /\ 2 * Normal * Abs(S - span) <= A
              /\ 2 * Normal * Abs(Z - zero) <= B
          BY <4>1, <4>2
        <5>4. QED
          BY <5>1, <5>2, <5>3, <2>4, <4>1, <4>2, <4>4, ErrorsAdd
      <4>6. /\ result # NotFinite
            /\ 2 * Normal * Abs(result - y)
                 <= Normal * span + (IF stored THEN data * A + levels * B ELSE 0)
        BY <2>8, <4>3, <4>5
      <4>7. IF result = NotFinite
            THEN stored /\ \/ Abs(zero) > Largest
                           \/ span > levels * Largest
            ELSE 2 * Normal * Abs(result - y)
                   <= Normal * span + (IF stored THEN data * A + levels * B ELSE 0)
        BY <4>6
      <4>8. QED
        BY <4>7 DEF result, A, B, data, span, zero, y, levels, value
    <3>9. QED
      BY <3>7, <3>8
  <2>9. QED
    BY <2>7, <2>8
<1>2. FormatInv => ValueComesBackClose
  BY <1>1 DEF ValueComesBackClose
<1>3. QED
  BY <1>2, AlwaysInFormat, PTL

-----------------------------------------------------------------------------
(* Attention: weights and their sums.                                      *)

\* What is a multiple is divided exactly.
LEMMA ExactDivision ==
  ASSUME NEW k \in Nat, k > 0, NEW q \in Nat
  PROVE  (k * q) \div k = q
<1> DEFINE a == k * q
           d == a \div k
           r == a % k
<1>1. a \in Nat
  OBVIOUS
<1>2. d \in Int /\ r \in 0 .. k - 1 /\ a = k * d + r
  <2> HIDE DEF a
  <2>1. QED
    BY <1>1
<1> HIDE DEF d, r
<1>3. k * q = k * d + r
  BY <1>2 DEF a
<1>4. CASE q = d
  BY <1>4 DEF d
<1>5. CASE q > d
  <2>1. q - d - 1 \in Nat
    BY <1>2, <1>5
  <2>2. k * q - k * d = k + k * (q - d - 1)
    BY ONLY <1>2, k \in Nat, q \in Nat
  <2>3. k * (q - d - 1) \in Nat
    BY <2>1
  <2> DEFINE u == k * (q - d - 1)
             x == k * q
             y == k * d
  <2>4. x \in Int /\ y \in Int
    BY <1>2
  <2> HIDE DEF u, x, y
  <2>5. x - y = k + u /\ x = y + r /\ u \in Nat
    BY <1>3, <2>2, <2>3 DEF x, y, u
  <2>6. FALSE
    BY <1>2, <2>4, <2>5
  <2>7. QED
    BY <2>6
<1>6. CASE q < d
  <2>1. d - q - 1 \in Nat
    BY <1>2, <1>6
  <2>2. k * d - k * q = k + k * (d - q - 1)
    BY ONLY <1>2, k \in Nat, q \in Nat
  <2>3. k * (d - q - 1) \in Nat
    BY <2>1
  <2> DEFINE u == k * (d - q - 1)
             x == k * q
             y == k * d
  <2>4. x \in Int /\ y \in Int
    BY <1>2
  <2> HIDE DEF u, x, y
  <2>5. y - x = k + u /\ x = y + r /\ u \in Nat
    BY <1>3, <2>2, <2>3 DEF x, y, u
  <2>6. FALSE
    BY <1>2, <2>4, <2>5
  <2>7. QED
    BY <2>6
<1>7. QED
  BY <1>2, <1>4, <1>5, <1>6

LEMMA UnitType == Unit \in Nat /\ Unit > 0
  BY AttentionAssumption, PowerType DEF Unit

\* A weight relative to a maximum, and to a greater one.
LEMMA ExpFacts ==
  ASSUME NEW x \in 0 .. TopScore, NEW m \in x .. TopScore
  PROVE  /\ Exp(x, m) \in 0 .. Unit
         /\ Exp(x, m) > 0
         /\ Exp(m, m) = Unit
         /\ Exp(x, m) * 2 ^ m = Unit * 2 ^ x
<1> USE AttentionAssumption
<1> DEFINE k == (TopScore + x) - m
<1>1. k \in Nat /\ k <= TopScore /\ TopScore \in Nat /\ x # NegInf /\ m # NegInf
      /\ x \in Nat /\ m \in Nat
  BY DEF NegInf
<1>2. Exp(x, m) = 2 ^ k
  <2>1. TopScore + x - m = k
    OBVIOUS
  <2>2. QED
    BY <1>1, <2>1 DEF Exp
<1>3. Exp(m, m) = 2 ^ TopScore
  <2>1. TopScore + m - m = TopScore
    BY <1>1
  <2>2. QED
    BY <1>1, <2>1 DEF Exp
<1>4. 2 ^ k \in Nat /\ 2 ^ k > 0 /\ 2 ^ k <= 2 ^ TopScore
  BY <1>1, PowerType, PowerFacts
<1>5. 2 ^ k * 2 ^ m = 2 ^ TopScore * 2 ^ x
  <2>1. k + m = TopScore + x
    BY <1>1
  <2>2. 2 ^ (k + m) = 2 ^ k * 2 ^ m /\ 2 ^ (TopScore + x) = 2 ^ TopScore * 2 ^ x
    BY <1>1, PowerAdds
  <2>3. QED
    BY <2>1, <2>2
<1> HIDE DEF k
<1>6. QED
  BY <1>2, <1>3, <1>4, <1>5, UnitType DEF Unit

LEMMA ExpRescaled ==
  ASSUME NEW x \in 0 .. TopScore, NEW n \in x .. TopScore, NEW m \in n .. TopScore
  PROVE  Exp(x, n) = 2 ^ (m - n) * Exp(x, m)
<1> USE AttentionAssumption
<1> DEFINE a == (TopScore + x) - m
           b == m - n
<1>1. a \in Nat /\ b \in Nat /\ x # NegInf
  BY DEF NegInf
<1>2. TopScore + x - n = b + a /\ TopScore + x - m = a
  OBVIOUS
<1>3. Exp(x, n) = 2 ^ (b + a) /\ Exp(x, m) = 2 ^ a
  BY <1>1, <1>2 DEF Exp
<1> HIDE DEF a
<1>4. 2 ^ (b + a) = 2 ^ b * 2 ^ a
  BY <1>1, PowerAdds
<1>5. QED
  BY <1>3, <1>4

\* m is the greatest of the scores of T.
Top(m, T, score) ==
  /\ m \in NegInf .. TopScore
  /\ \A n \in T : score[n] <= m
  /\ m = NegInf \/ \E n \in T : score[n] = m

\* Raised to the scores of more tokens, it is the greatest of all.
LEMMA TopOfMore ==
  ASSUME NEW ps, IsFiniteSet(ps), NEW score \in [ps -> 0 .. TopScore],
         NEW T \in SUBSET ps, NEW L \in SUBSET ps, NEW m0, Top(m0, T, score),
         NEW m, m = Max({m0} \cup {score[n] : n \in L})
  PROVE  Top(m, T \cup L, score) /\ m0 <= m
<1> DEFINE S == {m0} \cup {score[n] : n \in L}
<1>0. TopScore \in Nat
  BY AttentionAssumption
<1>1. IsFiniteSet(S)
  <2>1. IsFiniteSet(L)
    BY FS_Subset
  <2> DEFINE f == [n \in L |-> score[n]]
             V == {score[n] : n \in L}
  <2>2. f \in Surjection(L, V)
    BY DEF Surjection
  <2> HIDE DEF f, V
  <2>3. IsFiniteSet(V)
    BY <2>1, <2>2, FS_Surjection
  <2>4. IsFiniteSet({m0})
    BY FS_Singleton
  <2>5. IsFiniteSet({m0} \cup V)
    BY <2>3, <2>4, FS_Union
  <2>6. QED
    BY <2>5 DEF V
<1>2. m0 \in NegInf .. TopScore /\ \A n \in L : score[n] \in 0 .. TopScore
  BY DEF Top
<1>3. S \subseteq NegInf .. TopScore /\ S \subseteq Int
  BY <1>0, <1>2 DEF NegInf
<1>4. m \in S /\ \A y \in S : y <= m
  <2>1. m0 \in S
    OBVIOUS
  <2> HIDE DEF S
  <2>2. Max(S) \in S /\ \A y \in S : y <= Max(S)
    BY <1>1, <1>3, <2>1, LeastAndGreatest
  <2>3. m = Max(S)
    BY DEF S
  <2>4. QED
    BY <2>2, <2>3
<1>5. m \in NegInf .. TopScore /\ m0 <= m
  BY <1>3, <1>4
<1>6. \A n \in T \cup L : score[n] <= m
  <2>1. ASSUME NEW n \in T PROVE score[n] <= m
    <3>1. score[n] <= m0 /\ score[n] \in Int /\ m0 \in Int /\ m \in Int
      BY <1>0, <1>5 DEF Top, NegInf
    <3>2. QED
      BY <1>5, <3>1
  <2>2. ASSUME NEW n \in L PROVE score[n] <= m
    BY <1>4
  <2>3. QED
    BY <2>1, <2>2
<1>7. m = NegInf \/ \E n \in T \cup L : score[n] = m
  <2>1. CASE m = m0
    BY <2>1 DEF Top
  <2>2. CASE \E n \in L : score[n] = m
    BY <2>2
  <2>3. QED
    BY <1>4, <2>1, <2>2
<1>8. QED
  BY <1>5, <1>6, <1>7 DEF Top

LEMMA TopIsMax ==
  ASSUME NEW ps, IsFiniteSet(ps), NEW score \in [ps -> 0 .. TopScore],
         NEW T \in SUBSET ps, NEW m
  PROVE  Top(m, T, score) <=> m = Max({NegInf} \cup {score[n] : n \in T})
<1> DEFINE x == Max({NegInf} \cup {score[n] : n \in T})
<1>0. TopScore \in Nat
  BY AttentionAssumption
<1>1. Top(x, T, score)
  <2>1. Top(NegInf, {}, score)
    BY <1>0 DEF Top, NegInf
  <2>2. {} \in SUBSET ps /\ {} \cup T = T
    OBVIOUS
  <2>3. Top(x, {} \cup T, score)
    BY <2>1, <2>2, TopOfMore
  <2>4. QED
    BY <2>2, <2>3
<1> HIDE DEF x
<1>2. ASSUME Top(m, T, score) PROVE m = x
  <2>1. \A n \in T : score[n] \in Int /\ score[n] >= 0
    OBVIOUS
  <2>2. m \in Int /\ x \in Int /\ m >= NegInf /\ x >= NegInf
    BY <1>0, <1>1, <1>2 DEF Top, NegInf
  <2>3. m <= x
    BY <1>1, <1>2, <2>1, <2>2 DEF Top
  <2>4. x <= m
    BY <1>1, <1>2, <2>1, <2>2 DEF Top
  <2>5. QED
    BY <2>2, <2>3, <2>4
<1>3. QED
  BY <1>1, <1>2 DEF x

\* What the tokens T weigh relative to m among the positions ps.
WeightsOf(ps, T, score, m) ==
  [n \in ps |-> IF n \in T THEN Exp(score[n], m) ELSE 0]

\* Tokens with scores up to m.
UpTo(ps, T, score, m) ==
  /\ IsFiniteSet(ps) /\ T \subseteq ps
  /\ score \in [ps -> 0 .. TopScore]
  /\ m \in NegInf .. TopScore
  /\ \A n \in T : score[n] <= m

LEMMA UpToType ==
  ASSUME NEW ps, NEW T, NEW score, NEW m, UpTo(ps, T, score, m), NEW n \in T
  PROVE  score[n] \in 0 .. TopScore /\ m \in score[n] .. TopScore
<1>1. score[n] \in 0 .. TopScore /\ score[n] <= m /\ m \in NegInf .. TopScore
  BY DEF UpTo
<1>2. QED
  BY <1>1, AttentionAssumption DEF NegInf

LEMMA WeightsType ==
  ASSUME NEW ps, NEW T, NEW score, NEW m, UpTo(ps, T, score, m)
  PROVE  LET W == WeightsOf(ps, T, score, m)
         IN  /\ W \in [ps -> 0 .. Unit]
             /\ SumFunction(W) \in Nat
             /\ \A n \in ps : W[n] <= SumFunction(W)
<1> DEFINE W == WeightsOf(ps, T, score, m)
<1>1. \A n \in T : Exp(score[n], m) \in 0 .. Unit
  BY UpToType, ExpFacts
<1>2. W \in [ps -> 0 .. Unit] /\ DOMAIN W = ps
  BY <1>1, UnitType DEF WeightsOf
<1> HIDE DEF W
<1>3. IsFiniteSet(ps) /\ \A n \in ps : W[n] \in Nat
  BY <1>2, UnitType DEF UpTo
<1>4. SumFunctionOnSet(W, ps) \in Nat /\ \A n \in ps : W[n] <= SumFunctionOnSet(W, ps)
  BY <1>3, SumBounds
<1>5. QED
  BY <1>2, <1>4 DEF SumFunction, W

\* W is what scaling makes of W0, which was relative to m0.
ScalesDown(W0, m0, W, m) ==
  /\ \A n \in DOMAIN W : Scaled(W0[n], m0, m) = W[n]
  /\ Scaled(SumFunction(W0), m0, m) = SumFunction(W)

\* Relative to a greater maximum, every weight and their sum are scaled down.
LEMMA Rescaled ==
  ASSUME NEW ps, NEW T, NEW score, NEW m0, NEW m \in 0 .. TopScore,
         UpTo(ps, T, score, m0), m0 <= m
  PROVE  /\ UpTo(ps, T, score, m)
         /\ ScalesDown(WeightsOf(ps, T, score, m0), m0, WeightsOf(ps, T, score, m), m)
<1> DEFINE W0 == WeightsOf(ps, T, score, m0)
           W == WeightsOf(ps, T, score, m)
           K == 2 ^ (m - m0)
<1>0. TopScore \in Nat /\ m0 \in NegInf .. TopScore /\ IsFiniteSet(ps)
  BY AttentionAssumption DEF UpTo
<1>1. \A n \in T : score[n] \in 0 .. TopScore /\ m0 \in score[n] .. TopScore
  BY UpToType
<1>2. UpTo(ps, T, score, m)
  <2>1. \A n \in T : score[n] <= m
    BY <1>0, <1>1
  <2>2. m \in NegInf .. TopScore
    BY <1>0 DEF NegInf
  <2>3. QED
    BY <2>1, <2>2 DEF UpTo
<1>3. /\ W0 \in [ps -> 0 .. Unit] /\ SumFunction(W0) \in Nat
      /\ W \in [ps -> 0 .. Unit] /\ SumFunction(W) \in Nat
  BY <1>2, WeightsType
<1>4. /\ \A n \in ps : W0[n] = IF n \in T THEN Exp(score[n], m0) ELSE 0
      /\ \A n \in ps : W[n] = IF n \in T THEN Exp(score[n], m) ELSE 0
      /\ T \subseteq ps
  BY DEF WeightsOf, UpTo
<1>5. SumFunction(W0) = SumFunctionOnSet(W0, ps) /\ SumFunction(W) = SumFunctionOnSet(W, ps)
  BY <1>3 DEF SumFunction
<1> HIDE DEF W0, W
<1>6. CASE m0 = NegInf
  <2>1. T = {}
    <3>1. \A n \in T : FALSE
      BY <1>0, <1>1, <1>6 DEF NegInf
    <3>2. QED
      BY <3>1
  <2>2. \A n \in ps : W[n] = 0
    BY <1>4, <2>1
  <2>3. SumFunctionOnSet(W, ps) = SumFunctionOnSet(W, {})
    BY <1>0, <2>2, SumSupport
  <2>4. SumFunction(W) = 0
    BY <1>5, <2>3, SumOfNone
  <2>5. \A x : Scaled(x, m0, m) = 0
    BY <1>6 DEF Scaled
  <2>6. ScalesDown(W0, m0, W, m)
    BY <1>3, <2>2, <2>4, <2>5 DEF ScalesDown
  <2>7. QED
    BY <1>2, <2>6 DEF W, W0
<1>7. CASE m0 # NegInf
  <2>1. m0 \in Nat /\ m - m0 \in Nat /\ m \in m0 .. TopScore
    BY <1>0, <1>7 DEF NegInf
  <2>2. K \in Nat /\ K > 0
    BY <2>1, PowerType
  <2> HIDE DEF K
  <2>3. \A n \in ps : W0[n] = K * W[n]
    <3>1. TAKE n \in ps
    <3>2. CASE n \in T
      <4>1. Exp(score[n], m0) = K * Exp(score[n], m)
        BY <1>1, <2>1, <3>2, ExpRescaled DEF K
      <4>2. QED
        BY <1>4, <3>2, <4>1
    <3>3. CASE n \notin T
      <4>1. K * 0 = 0
        BY <2>2
      <4>2. QED
        BY <1>4, <3>3, <4>1
    <3>4. QED
      BY <3>2, <3>3
  <2>4. \A n \in ps : W[n] \in Nat
    BY <1>3, UnitType
  <2>5. SumFunction(W0) = K * SumFunction(W)
    <3>1. \A n \in ps : W[n] \in Int /\ W0[n] = K * W[n]
      BY <2>3, <2>4
    <3>2. SumFunctionOnSet(W0, ps) = K * SumFunctionOnSet(W, ps)
      BY <1>0, <2>2, <3>1, SumScaled
    <3>3. QED
      BY <1>5, <3>2
  <2>6. \A x : Scaled(x, m0, m) = x \div K
    BY <1>7 DEF Scaled, K
  <2>7. \A n \in ps : (K * W[n]) \div K = W[n]
    BY <2>2, <2>4, ExactDivision
  <2>8. (K * SumFunction(W)) \div K = SumFunction(W)
    BY <1>3, <2>2, ExactDivision
  <2>9. \A n \in ps : Scaled(W0[n], m0, m) = W[n]
    BY <2>3, <2>6, <2>7
  <2>10. Scaled(SumFunction(W0), m0, m) = SumFunction(W)
    BY <2>5, <2>6, <2>8
  <2>11. ScalesDown(W0, m0, W, m)
    BY <1>3, <2>9, <2>10 DEF ScalesDown
  <2>12. QED
    BY <1>2, <2>11 DEF W, W0
<1>8. QED
  BY <1>6, <1>7

-----------------------------------------------------------------------------
(* A kernel between two blocks.                                            *)

\* The record of a softmax over T, written out.
Relative(p, ps, T, score, m) ==
  /\ ~ p.nan
  /\ p.acc = WeightsOf(ps, T, score, m)
  /\ p.l = SumFunction(WeightsOf(ps, T, score, m))

LEMMA SoftmaxFacts ==
  ASSUME NEW ps, IsFiniteSet(ps), NEW score \in [ps -> 0 .. TopScore],
         NEW T \in SUBSET ps, NEW p \in Partial(ps)
  PROVE  IsSoftmax(p, T, score) <=>
           /\ Top(p.m, T, score)
           /\ Relative(p, ps, T, score, p.m)
<1>1. p.acc \in [ps -> 0 .. Unit] /\ p.acc = [n \in ps |-> p.acc[n]] /\ DOMAIN p.acc = ps
  BY DEF Partial
<1>2. p.m = Max({NegInf} \cup {score[n] : n \in T}) <=> Top(p.m, T, score)
  BY TopIsMax
<1>3. (\A n \in ps : p.acc[n] = IF n \in T THEN Exp(score[n], p.m) ELSE 0)
        <=> p.acc = WeightsOf(ps, T, score, p.m)
  BY <1>1 DEF WeightsOf
<1>4. QED
  BY <1>1, <1>2, <1>3 DEF IsSoftmax, Relative

LEMMA TopIsUpTo ==
  ASSUME NEW ps, IsFiniteSet(ps), NEW score \in [ps -> 0 .. TopScore],
         NEW T \in SUBSET ps, NEW m, Top(m, T, score)
  PROVE  /\ UpTo(ps, T, score, m)
         /\ T # {} => m \in 0 .. TopScore
<1>1. UpTo(ps, T, score, m)
  BY DEF UpTo, Top
<1>2. ASSUME NEW n \in T PROVE m \in 0 .. TopScore
  <2>1. score[n] \in 0 .. TopScore /\ m \in score[n] .. TopScore
    BY <1>1, UpToType
  <2>2. QED
    BY <2>1, AttentionAssumption
<1>3. QED
  BY <1>1, <1>2

\* Before the first block.
LEMMA StartFacts ==
  ASSUME NEW ps, IsFiniteSet(ps), NEW score \in [ps -> 0 .. TopScore]
  PROVE  /\ Start(ps) \in Partial(ps) /\ Zeros(ps) \in Partial(ps)
         /\ IsSoftmax(Start(ps), {}, score)
         /\ SumFunction(Zeros(ps).acc) = 0
<1> DEFINE Z == [n \in ps |-> 0]
<1>1. Z \in [ps -> 0 .. Unit]
  BY UnitType
<1>2. TopScore \in Nat
  BY AttentionAssumption
<1>3. Zeros(ps) = [m |-> 0, l |-> 0, acc |-> Z, nan |-> FALSE]
  BY DEF Zeros
<1>4. SumFunction(Z) = 0
  <2>1. DOMAIN Z = ps /\ \A n \in ps : Z[n] = 0
    OBVIOUS
  <2> HIDE DEF Z
  <2>2. SumFunctionOnSet(Z, ps) = SumFunctionOnSet(Z, {})
    BY <2>1, SumSupport
  <2>3. QED
    BY <2>1, <2>2, SumOfNone DEF SumFunction
<1>5. Z = WeightsOf(ps, {}, score, NegInf)
  BY DEF WeightsOf
<1>6. Top(NegInf, {}, score)
  BY <1>2 DEF Top, NegInf
<1> HIDE DEF Z
<1>7. Zeros(ps) \in Partial(ps)
  BY <1>1, <1>2, <1>3 DEF Partial, NegInf
<1> DEFINE z == Zeros(ps)
           q == Start(ps)
<1>8. z.acc = Z /\ z.l = 0 /\ z.nan = FALSE
  BY <1>3
<1>9. q = [z EXCEPT !.m = NegInf]
  BY DEF Start
<1> HIDE DEF z, q
<1>10. q \in Partial(ps) /\ q.m = NegInf /\ q.acc = Z /\ q.l = 0 /\ q.nan = FALSE
  <2>1. z \in Partial(ps) /\ NegInf \in NegInf .. TopScore
    BY <1>2, <1>7 DEF z, NegInf
  <2>2. QED
    BY <1>8, <1>9, <2>1 DEF Partial
<1>11. Relative(q, ps, {}, score, NegInf)
  BY <1>4, <1>5, <1>10 DEF Relative
<1>12. IsSoftmax(q, {}, score)
  <2>1. {} \in SUBSET ps
    OBVIOUS
  <2>2. QED
    BY <1>6, <1>10, <1>11, <2>1, SoftmaxFacts
<1>13. QED
  BY <1>4, <1>7, <1>8, <1>10, <1>12 DEF z, q

\* A block with the lanes L, after the blocks with the tokens T.
LEMMA UpdateFacts ==
  ASSUME NEW ps, IsFiniteSet(ps), NEW score \in [ps -> 0 .. TopScore],
         NEW T \in SUBSET ps, NEW L \in SUBSET ps, T \cap L = {}, T \cup L # {},
         NEW p \in Partial(ps), IsSoftmax(p, T, score)
  PROVE  /\ Update(p, L, score) \in Partial(ps)
         /\ IsSoftmax(Update(p, L, score), T \cup L, score)
<1> DEFINE m == Max({p.m} \cup {score[n] : n \in L})
           u == Update(p, L, score)
           V == WeightsOf(ps, T, score, p.m)
           W == WeightsOf(ps, T, score, m)
           WL == WeightsOf(ps, L, score, m)
           WW == WeightsOf(ps, T \cup L, score, m)
           e == [n \in L |-> Exp(score[n], m)]
<1>0. T \cup L \in SUBSET ps
  OBVIOUS
<1>1. Top(p.m, T, score) /\ Relative(p, ps, T, score, p.m)
  BY SoftmaxFacts
<1>2. Top(m, T \cup L, score) /\ p.m <= m
  <2>1. m = Max({p.m} \cup {score[n] : n \in L})
    OBVIOUS
  <2> HIDE DEF m
  <2>2. QED
    BY <1>1, <2>1, TopOfMore
<1>3. m \in 0 .. TopScore /\ UpTo(ps, T \cup L, score, m) /\ UpTo(ps, T, score, p.m)
  BY <1>0, <1>1, <1>2, TopIsUpTo
<1>4. UpTo(ps, L, score, m)
  BY <1>3 DEF UpTo
<1> HIDE DEF m
<1>5. /\ \A n \in ps : Scaled(V[n], p.m, m) = W[n]
      /\ Scaled(SumFunction(V), p.m, m) = SumFunction(W)
      /\ UpTo(ps, T, score, m)
  <2>1. UpTo(ps, T, score, m) /\ ScalesDown(V, p.m, W, m)
    BY <1>2, <1>3, Rescaled
  <2>2. DOMAIN W = ps
    BY DEF WeightsOf
  <2> HIDE DEF V, W
  <2>3. QED
    BY <2>1, <2>2 DEF ScalesDown
<1>6. p.nan = FALSE /\ m # NegInf
  BY <1>1, <1>3 DEF Relative, NegInf, Partial
<1>7. u = [m |-> m, l |-> Scaled(p.l, p.m, m) + SumFunction(e),
           acc |-> [n \in DOMAIN p.acc |->
                      Scaled(p.acc[n], p.m, m)
                        + (IF n \in L THEN Exp(score[n], m) ELSE 0)],
           nan |-> FALSE]
  BY <1>6 DEF Update, m
<1>8. p.acc = V /\ p.l = SumFunction(V) /\ DOMAIN V = ps
  BY <1>1 DEF Relative, WeightsOf
<1>9. /\ W \in [ps -> 0 .. Unit] /\ WL \in [ps -> 0 .. Unit]
      /\ WW \in [ps -> 0 .. Unit] /\ SumFunction(WW) \in Nat
  BY <1>3, <1>4, <1>5, WeightsType
<1>21. \A n \in ps : W[n] \in Int /\ WL[n] \in Int /\ WW[n] \in Int
  <2> HIDE DEF W, WL, WW
  <2>1. QED
    BY <1>9, UnitType
<1>10. \A n \in ps : WL[n] = IF n \in L THEN Exp(score[n], m) ELSE 0
  BY DEF WeightsOf
<1>11. \A n \in ps : WW[n] = W[n] + WL[n]
  <2>1. TAKE n \in ps
  <2>2. /\ W[n] = IF n \in T THEN Exp(score[n], m) ELSE 0
        /\ WW[n] = IF n \in T \cup L THEN Exp(score[n], m) ELSE 0
    BY DEF WeightsOf
  <2> DEFINE w == W[n]
             wl == WL[n]
             ww == WW[n]
             x == Exp(score[n], m)
  <2>3. w \in Int /\ wl \in Int /\ ww \in Int
    BY <1>21
  <2>4. /\ w = IF n \in T THEN x ELSE 0
        /\ ww = IF n \in T \cup L THEN x ELSE 0
        /\ wl = IF n \in L THEN x ELSE 0
    BY <1>10, <2>2
  <2> HIDE DEF w, wl, ww, x
  <2>5. ww = w + wl
    BY <2>3, <2>4
  <2>6. QED
    BY <2>5 DEF w, wl, ww
<1>12. WW = [n \in ps |-> W[n] + WL[n]]
  <2>1. WW = [n \in ps |-> WW[n]]
    BY DEF WeightsOf
  <2> HIDE DEF WW, W, WL
  <2>2. QED
    BY <1>11, <2>1
<1> HIDE DEF V, W, WL, WW
<1>13. u.acc = WW
  <2>1. u.acc = [n \in ps |-> Scaled(V[n], p.m, m)
                                + (IF n \in L THEN Exp(score[n], m) ELSE 0)]
    BY <1>7, <1>8
  <2>2. \A n \in ps : Scaled(V[n], p.m, m) + (IF n \in L THEN Exp(score[n], m) ELSE 0)
                        = W[n] + WL[n]
    BY <1>5, <1>10
  <2>3. QED
    BY <1>12, <2>1, <2>2
<1>14. SumFunction(e) = SumFunctionOnSet(WL, ps)
  <2>1. IsFiniteSet(L) /\ DOMAIN e = L
    BY FS_Subset
  <2>2. \A n \in L : e[n] = WL[n]
    BY <1>10
  <2> HIDE DEF e
  <2>3. SumFunctionOnSet(e, L) = SumFunctionOnSet(WL, L)
    BY <2>1, <2>2, SumSame
  <2>4. /\ \A n \in L : WL[n] \in Int
        /\ \A n \in ps \ L : WL[n] = 0
    BY <1>9, <1>10, UnitType
  <2>5. SumFunctionOnSet(WL, ps) = SumFunctionOnSet(WL, L)
    BY <2>4, SumSupport
  <2>6. QED
    BY <2>1, <2>3, <2>5 DEF SumFunction
<1>15. SumFunction(WW) = SumFunction(W) + SumFunction(e)
  <2>1. DOMAIN W = ps /\ DOMAIN WW = ps
    BY <1>9
  <2>2. \A n \in ps : W[n] \in Int /\ WL[n] \in Int /\ WW[n] = W[n] + WL[n]
    BY <1>9, <1>11, UnitType
  <2>3. SumFunctionOnSet(WW, ps) = SumFunctionOnSet(W, ps) + SumFunctionOnSet(WL, ps)
    BY <2>2, SumAdds
  <2>4. QED
    BY <1>14, <2>1, <2>3 DEF SumFunction
<1> HIDE DEF e
<1>16. u.m = m /\ u.nan = FALSE /\ u.l = SumFunction(WW)
  BY <1>5, <1>7, <1>8, <1>15
<1>17. u \in Partial(ps)
  <2>1. u = [m |-> m, l |-> SumFunction(WW), acc |-> WW, nan |-> FALSE]
    BY <1>7, <1>13, <1>16
  <2>2. m \in NegInf .. TopScore
    BY <1>2 DEF Top
  <2> HIDE DEF u
  <2>3. QED
    BY <1>9, <2>1, <2>2 DEF Partial
<1> HIDE DEF u
<1>18. Relative(u, ps, T \cup L, score, u.m)
  BY <1>13, <1>16 DEF Relative, WW
<1>19. IsSoftmax(u, T \cup L, score)
  BY <1>0, <1>2, <1>16, <1>17, <1>18, SoftmaxFacts
<1>20. QED
  BY <1>17, <1>19 DEF u

-----------------------------------------------------------------------------
(* The two tiers together.                                                 *)

\* What the merge makes of one tier.
LEMMA RelativeToFacts ==
  ASSUME NEW ps, IsFiniteSet(ps), NEW score \in [ps -> 0 .. TopScore],
         NEW T \in SUBSET ps, NEW p \in Partial(ps), IsSoftmax(p, T, score),
         NEW m \in 0 .. TopScore, p.m <= m, NEW nan, nan = FALSE,
         NEW q, q = RelativeTo(p, m, nan)
  PROVE  /\ q \in Partial(ps)
         /\ Relative(q, ps, T, score, m)
         /\ UpTo(ps, T, score, m)
<1> DEFINE V == WeightsOf(ps, T, score, p.m)
           W == WeightsOf(ps, T, score, m)
<1>1. Top(p.m, T, score) /\ Relative(p, ps, T, score, p.m)
  BY SoftmaxFacts
<1>2. UpTo(ps, T, score, p.m)
  BY <1>1, TopIsUpTo
<1>3. UpTo(ps, T, score, m) /\ ScalesDown(V, p.m, W, m)
  BY <1>2, Rescaled
<1>4. W \in [ps -> 0 .. Unit] /\ SumFunction(W) \in Nat
  BY <1>3, WeightsType
<1>5. W = [n \in ps |-> W[n]] /\ DOMAIN W = ps /\ DOMAIN V = ps
  BY DEF WeightsOf
<1>6. p.acc = V /\ p.l = SumFunction(V)
  BY <1>1 DEF Relative
<1> HIDE DEF V, W
<1>7. /\ \A n \in ps : Scaled(V[n], p.m, m) = W[n]
      /\ Scaled(SumFunction(V), p.m, m) = SumFunction(W)
  BY <1>3, <1>5 DEF ScalesDown
<1>8. q = [m |-> m, l |-> SumFunction(W), nan |-> nan, acc |-> W]
  <2>1. [n \in DOMAIN p.acc |-> Scaled(p.acc[n], p.m, m)] = W
    BY <1>5, <1>6, <1>7
  <2>2. Scaled(p.l, p.m, m) = SumFunction(W)
    BY <1>6, <1>7
  <2>3. QED
    BY <2>1, <2>2 DEF RelativeTo
<1>9. m \in NegInf .. TopScore
  BY AttentionAssumption DEF NegInf
<1>10. q \in Partial(ps)
  <2>1. nan \in BOOLEAN
    OBVIOUS
  <2>2. /\ W \in [ps -> 0 .. Unit] /\ SumFunction(W) \in Nat
        /\ m \in NegInf .. TopScore
    BY <1>4, <1>9
  <2>3. QED
    BY ONLY <1>8, <2>1, <2>2, nan \in BOOLEAN DEF Partial
<1>11. Relative(q, ps, T, score, m)
  <2>1. q.acc = W /\ q.l = SumFunction(W) /\ q.nan = FALSE
    BY <1>8
  <2>2. QED
    BY <2>1 DEF Relative, W
<1>12. QED
  BY <1>3, <1>10, <1>11

\* The exponentials of the scores of T.
Powers(T, score) == [n \in T |-> 2 ^ score[n]]

\* Multiplied by exp(m), what the tokens of a tier weigh relative to m are
\* their exponentials, in units.
InProportion(acc, l, ps, T, score, m) ==
  /\ SumFunction(Powers(T, score)) \in Nat
  /\ l * 2 ^ m = Unit * SumFunction(Powers(T, score))
  /\ \A n \in ps : acc[n] * 2 ^ m = Unit * (IF n \in T THEN 2 ^ score[n] ELSE 0)

LEMMA TierProportion ==
  ASSUME NEW ps, NEW T, NEW score, NEW m \in 0 .. TopScore,
         UpTo(ps, T, score, m), NEW p \in Partial(ps),
         Relative(p, ps, T, score, m)
  PROVE  InProportion(p.acc, p.l, ps, T, score, m)
<1> DEFINE W == WeightsOf(ps, T, score, m)
           E == Powers(T, score)
           M == 2 ^ m
           h == [n \in T |-> Unit * E[n]]
<1>1. IsFiniteSet(ps) /\ T \in SUBSET ps /\ p.acc = W /\ p.l = SumFunction(W)
  BY DEF UpTo, Relative
<1>2. IsFiniteSet(T)
  BY <1>1, FS_Subset
<1>3. M \in Nat /\ M > 0
  <2>1. m \in Nat
    BY AttentionAssumption
  <2>2. QED
    BY <2>1, PowerType
<1>4. W \in [ps -> 0 .. Unit] /\ SumFunction(W) \in Nat
  BY WeightsType
<1>5. \A n \in T : /\ score[n] \in Nat /\ E[n] = 2 ^ score[n] /\ E[n] \in Nat
                   /\ W[n] * M = Unit * E[n]
  <2>1. TAKE n \in T
  <2>2. score[n] \in 0 .. TopScore /\ m \in score[n] .. TopScore
    BY UpToType
  <2>3. score[n] \in Nat
    BY <2>2, AttentionAssumption
  <2>4. Exp(score[n], m) * 2 ^ m = Unit * 2 ^ score[n]
    BY <2>2, ExpFacts
  <2>5. W[n] = Exp(score[n], m)
    BY <1>1 DEF WeightsOf
  <2>6. E[n] = 2 ^ score[n]
    BY DEF Powers
  <2>7. QED
    BY <2>3, <2>4, <2>5, <2>6, PowerType
<1>6. \A n \in ps \ T : W[n] = 0
  BY DEF WeightsOf
<1>7. DOMAIN W = ps /\ DOMAIN E = T /\ DOMAIN h = T
  BY DEF WeightsOf, Powers
<1>8. \A n \in T : h[n] = Unit * E[n]
  OBVIOUS
<1> HIDE DEF W, E, M, h
<1>9. SumFunction(E) \in Nat
  BY <1>2, <1>5, <1>7, SumBounds DEF SumFunction
<1>10. SumFunction(W) = SumFunctionOnSet(W, T)
  <2>1. \A n \in T : W[n] \in Int
    BY <1>1, <1>4, UnitType
  <2>2. SumFunctionOnSet(W, ps) = SumFunctionOnSet(W, T)
    BY <1>1, <1>6, <2>1, SumSupport
  <2>3. QED
    BY <1>7, <2>2 DEF SumFunction
<1>11. SumFunctionOnSet(h, T) = Unit * SumFunctionOnSet(E, T)
  <2>1. \A n \in T : E[n] \in Int /\ h[n] = Unit * E[n]
    BY <1>5, <1>8
  <2>2. Unit \in Int
    BY UnitType
  <2>3. QED
    BY <1>2, <2>1, <2>2, SumScaled
<1>12. SumFunctionOnSet(h, T) = M * SumFunctionOnSet(W, T)
  <2>1. \A n \in T : W[n] \in Int /\ h[n] = M * W[n]
    <3>1. TAKE n \in T
    <3> DEFINE w == W[n]
    <3>2. w \in Int
      BY <1>1, <1>4, UnitType
    <3>3. h[n] = w * M
      BY <1>5, <1>8
    <3> HIDE DEF w
    <3>4. w * M = M * w
      BY ONLY <1>3, <3>2
    <3>5. QED
      BY <3>2, <3>3, <3>4 DEF w
  <2>2. QED
    BY <1>2, <1>3, <2>1, SumScaled
<1>13. SumFunction(W) * M = Unit * SumFunction(E)
  <2> DEFINE w == SumFunction(W)
  <2>1. w \in Int /\ M * w = Unit * SumFunction(E)
    BY <1>4, <1>7, <1>10, <1>11, <1>12 DEF SumFunction
  <2> HIDE DEF w
  <2>2. w * M = M * w
    BY ONLY <1>3, <2>1
  <2>3. QED
    BY <2>1, <2>2 DEF w
<1>14. \A n \in ps : W[n] * M = Unit * (IF n \in T THEN 2 ^ score[n] ELSE 0)
  <2>1. TAKE n \in ps
  <2>2. CASE n \in T
    BY <1>5, <2>2
  <2>3. CASE n \notin T
    <3>1. 0 * M = 0 /\ Unit * 0 = 0
      BY <1>3, UnitType
    <3>2. QED
      BY <1>6, <2>3, <3>1
  <2>4. QED
    BY <2>2, <2>3
<1>15. QED
  BY <1>1, <1>9, <1>13, <1>14 DEF InProportion, M, E

\* What is in the same proportion to its exponential as the sum to its own.
LEMMA Proportion ==
  ASSUME NEW M \in Nat, M > 0, NEW U \in Nat, NEW a \in Nat, NEW t \in Nat,
         NEW l \in Nat, NEW s \in Nat, a * M = U * t, l * M = U * s
  PROVE  a * s = t * l
<1>1. M * (a * s) = s * (a * M)
  BY ONLY M \in Nat, a \in Nat, s \in Nat
<1>2. s * (U * t) = t * (U * s)
  BY ONLY U \in Nat, t \in Nat, s \in Nat
<1>3. t * (l * M) = M * (t * l)
  BY ONLY M \in Nat, t \in Nat, l \in Nat
<1>4. M * (a * s) = M * (t * l)
  BY <1>1, <1>2, <1>3
<1>5. a * s \in Nat /\ t * l \in Nat
  OBVIOUS
<1>6. (M * (a * s)) \div M = a * s /\ (M * (t * l)) \div M = t * l
  BY <1>5, ExactDivision
<1>7. QED
  BY <1>4, <1>6

-----------------------------------------------------------------------------
(* The blocks.                                                             *)

\* triton.next_power_of_2() has a value: there is a power of two from n on
\* and below 2n.
LEMMA NextPowerIsPositive ==
  ASSUME NEW n \in Nat \ {0}
  PROVE  NextPowerOf2(n) \in Nat \ {0}
<1> DEFINE K == {k \in 0 .. n : n <= 2 ^ k}
           P == {2 ^ k : k \in 0 .. n}
<1>1. \A k \in 0 .. n : 2 ^ k \in Nat /\ 2 ^ k > 0
  BY PowerType
<1>2. n \in K
  <2>1. n < 2 ^ n /\ 2 ^ n \in Nat
    BY PowerIsGreater, PowerType
  <2>2. QED
    BY <2>1
<1>3. PICK k \in K : \A j \in K : k <= j
  <2>1. K \subseteq Nat /\ K # {}
    BY <1>2
  <2> HIDE DEF K
  <2>2. QED
    BY <2>1, LeastElement
<1>4. k \in 0 .. n /\ n <= 2 ^ k
  OBVIOUS
<1>5. 2 ^ k < 2 * n
  <2>1. CASE k = 0
    <3>1. 2 ^ 0 = 1
      OBVIOUS
    <3>2. QED
      BY <2>1, <3>1
  <2>2. CASE k # 0
    <3> DEFINE j == k - 1
    <3>1. j \in Nat /\ j + 1 = k /\ j \in 0 .. n /\ j < k
      BY <1>4, <2>2
    <3>2. j \notin K
      BY <1>3, <3>1
    <3> HIDE DEF j
    <3>3. 2 ^ (j + 1) = 2 * 2 ^ j /\ 2 ^ j \in Nat
      BY <3>1, PowerDoubles, PowerType
    <3>4. 2 ^ j < n
      BY <3>1, <3>2, <3>3
    <3>5. QED
      BY <3>1, <3>3, <3>4
  <2>3. QED
    BY <2>1, <2>2
<1>6. \E b \in P : n <= b /\ b < 2 * n
  BY <1>4, <1>5
<1>7. NextPowerOf2(n) = CHOOSE b \in P : n <= b /\ b < 2 * n
  BY DEF NextPowerOf2
<1>8. NextPowerOf2(n) \in P
  <2> HIDE DEF P
  <2>1. QED
    BY <1>6, <1>7
<1>9. QED
  BY <1>1, <1>8

LEMMA MinOfTwo ==
  ASSUME NEW a \in Int, NEW b \in Int
  PROVE  Min({a, b}) = IF a <= b THEN a ELSE b
<1> DEFINE S == {a, b}
<1>1. IsFiniteSet(S)
  <2>1. IsFiniteSet({b}) /\ S = {b} \cup {a}
    BY FS_Singleton
  <2>2. QED
    BY <2>1, FS_AddElement
<1>2. S \subseteq Int /\ S # {}
  OBVIOUS
<1> HIDE DEF S
<1>3. Min(S) \in S /\ \A y \in S : Min(S) <= y
  BY <1>1, <1>2, LeastAndGreatest
<1>4. QED
  BY <1>3 DEF S

\* BlockN, for this step or the next.
BlockSize(g, n) == IF g THEN BlockC ELSE Min({BlockC, NextPowerOf2(n)})

LEMMA BlockIsPositive ==
  ASSUME NEW g \in BOOLEAN, NEW n \in Nat \ {0}
  PROVE  BlockSize(g, n) \in Nat \ {0}
<1> DEFINE q == NextPowerOf2(n)
<1>1. BlockC \in Nat \ {0} /\ q \in Nat \ {0}
  BY AttentionAssumption, NextPowerIsPositive
<1> HIDE DEF q
<1>2. Min({BlockC, q}) \in Nat \ {0}
  BY <1>1, MinOfTwo
<1>3. QED
  BY <1>1, <1>2 DEF BlockSize, q

\* Of the first N positions, those of the first b blocks below the limit.
Below(N, limit, b, size) == {n \in 0 .. N - 1 : n < limit /\ n < b * size}

\* The lanes of a block follow those of the blocks before.
Follows(N, limit, b, size) ==
  LET T == Below(N, limit, b, size)
      L == Lanes(b, size, limit)
  IN  /\ L \subseteq 0 .. N - 1 /\ T \cap L = {}
      /\ T \cup L = Below(N, limit, b + 1, size)
      /\ limit > 0 => T \cup L # {}
      /\ b * size >= limit => T = {n \in 0 .. N - 1 : n < limit}

LEMMA LanesFacts ==
  ASSUME NEW N \in Nat, NEW limit \in 0 .. N, NEW b \in Nat, NEW size \in Nat \ {0}
  PROVE  Follows(N, limit, b, size)
<1> DEFINE x == b * size
<1>1. x \in Nat
  OBVIOUS
<1>2. (b + 1) * size = x + size
  OBVIOUS
<1> HIDE DEF x
<1>3. /\ Below(N, limit, b, size) = {n \in 0 .. N - 1 : n < limit /\ n < x}
      /\ Below(N, limit, b + 1, size) = {n \in 0 .. N - 1 : n < limit /\ n < x + size}
  BY <1>2 DEF Below, x
<1>4. Lanes(b, size, limit) = {n \in x .. (x + size) - 1 : n < limit}
  <2>1. (b + 1) * size - 1 = (x + size) - 1
    BY <1>2
  <2>2. QED
    BY <2>1 DEF Lanes, x
<1>5. {n \in 0 .. N - 1 : n < limit /\ n < x} \cup {n \in x .. (x + size) - 1 : n < limit}
        = {n \in 0 .. N - 1 : n < limit /\ n < x + size}
  BY ONLY <1>1, N \in Nat, limit \in 0 .. N, size \in Nat \ {0}
<1>6. limit > 0 => 0 \in {n \in 0 .. N - 1 : n < limit /\ n < x + size}
  BY <1>1
<1>7. x >= limit => \A n \in 0 .. N - 1 : n < limit => n < x
  BY <1>1
<1> DEFINE T == Below(N, limit, b, size)
           L == Lanes(b, size, limit)
<1>8. L \subseteq 0 .. N - 1 /\ T \cap L = {}
  BY <1>1, <1>3, <1>4
<1>9. T \cup L = Below(N, limit, b + 1, size)
  BY <1>3, <1>4, <1>5
<1>10. limit > 0 => T \cup L # {}
  BY <1>3, <1>6, <1>9
<1>11. x >= limit => T = {n \in 0 .. N - 1 : n < limit}
  BY <1>3, <1>7
<1> HIDE DEF T, L
<1>12. QED
  BY <1>8, <1>9, <1>10, <1>11 DEF Follows, x, T, L

-----------------------------------------------------------------------------
(* The invariant of the kernels.                                           *)

StoreTokens == {n \in PositionC : n < n_stored}
RingTokens == {n \in PositionR : n < count}

ScoresOK ==
  /\ scoreC \in [PositionC -> 0 .. TopScore]
  /\ scoreR \in [PositionR -> 0 .. TopScore]

\* The kernels that run are those that the tiers call for.
PathOK ==
  /\ pass # "idle" => /\ n_stored > 0 <=> path \in {"hybrid", "compressed"}
                      /\ count > 0 <=> path \in {"hybrid", "ring"}
  /\ pass = "zero" => path = "none"
  /\ pass = "compressed" => path \in {"hybrid", "compressed"}
  /\ pass = "ring" => path \in {"hybrid", "ring"}
  /\ pass = "merge" => path = "hybrid"
  /\ pass = "normalise" => path \in {"compressed", "ring"}

\* The registers and what the kernels have stored are softmaxes.
PartOK ==
  /\ pass = "compressed" => part \in Partial(PositionC)
  /\ pass = "ring" => part \in Partial(PositionR)

StoredOK ==
  /\ pass \in {"ring", "merge", "normalise"} /\ path \in {"hybrid", "compressed"}
     => IsSoftmax(comp, StoreTokens, scoreC)
  /\ pass \in {"merge", "normalise"} /\ path \in {"hybrid", "ring"}
     => IsSoftmax(recent, RingTokens, scoreR)

\* Both tiers are relative to the greatest score of the two.
CommonMax(m) ==
  /\ UpTo(PositionC, StoreTokens, scoreC, m)
  /\ UpTo(PositionR, RingTokens, scoreR, m)
  /\ Relative(output.comp, PositionC, StoreTokens, scoreC, m)
  /\ Relative(output.recent, PositionR, RingTokens, scoreR, m)
  /\ \/ \E n \in StoreTokens : scoreC[n] = m
     \/ \E n \in RingTokens : scoreR[n] = m

ResultOK ==
  pass = "done" =>
    \/ /\ n_stored = 0 /\ count = 0
       /\ output = [comp |-> Zeros(PositionC), recent |-> Zeros(PositionR)]
    \/ \E m \in 0 .. TopScore : CommonMax(m)

AttentionInv ==
  TypeOK /\ ScoresOK /\ PathOK /\ PartOK /\ PartialSoftmax /\ StoredOK /\ ResultOK

LEMMA Sizes ==
  /\ MaxTokens \in Nat \ {0} /\ Capacity \in Nat \ {0}
  /\ BlockC \in Nat \ {0} /\ BlockR \in Nat \ {0} /\ TopScore \in Nat
  /\ IsFiniteSet(PositionC) /\ IsFiniteSet(PositionR)
<1>1. /\ MaxTokens \in Nat \ {0} /\ Capacity \in Nat \ {0}
      /\ BlockC \in Nat \ {0} /\ BlockR \in Nat \ {0} /\ TopScore \in Nat
  BY AttentionAssumption
<1>2. MaxTokens - 1 \in Int /\ Capacity - 1 \in Int
  BY <1>1
<1>3. QED
  BY <1>1, <1>2, FS_Interval DEF PositionC, PositionR

LEMMA InitAttention == AttentionInit => AttentionInv
<1> SUFFICES ASSUME AttentionInit PROVE AttentionInv
  OBVIOUS
<1>1. ScoresOK
  BY DEF AttentionInit, ScoresOK
<1>2. /\ Start({}) \in Partial({})
      /\ Zeros(PositionC) \in Partial(PositionC)
      /\ Zeros(PositionR) \in Partial(PositionR)
  <2>1. IsFiniteSet({}) /\ [n \in {} |-> 0] \in [{} -> 0 .. TopScore]
    BY FS_EmptySet
  <2>2. QED
    BY <1>1, <2>1, Sizes, StartFacts DEF ScoresOK
<1>3. TypeOK
  <2>1. \E ps \in {{}, PositionC, PositionR} : part \in Partial(ps)
    BY <1>2 DEF AttentionInit
  <2>2. QED
    BY <1>2, <2>1 DEF AttentionInit, TypeOK, Paths, Passes
<1>4. pass = "idle"
  BY DEF AttentionInit
<1>5. QED
  BY <1>1, <1>3, <1>4 DEF AttentionInv, PathOK, PartOK, PartialSoftmax, StoredOK,
     ResultOK

LEMMA DispatchStep ==
  ASSUME AttentionInv, Dispatch
  PROVE  AttentionInv'
<1>1. /\ pass = "idle" /\ block' = 0 /\ graph' \in BOOLEAN
      /\ part' = Start(IF pass' = "ring" THEN PositionR ELSE PositionC)
      /\ pass' = FirstPass(path')
      /\ UNCHANGED <<n_stored, count, scoreC, scoreR, comp, recent, output>>
  BY DEF Dispatch
<1>2. n_stored \in Nat /\ count \in Nat
  BY Sizes DEF AttentionInv, TypeOK
<1>3. path' = IF n_stored > 0 THEN (IF count > 0 THEN "hybrid" ELSE "compressed")
              ELSE (IF count > 0 THEN "ring" ELSE "none")
  BY <1>2 DEF Dispatch
<1>4. pass' = IF path' \in {"hybrid", "compressed"} THEN "compressed"
              ELSE IF path' = "ring" THEN "ring" ELSE "zero"
  BY <1>1, <1>3 DEF FirstPass
<1>5. ScoresOK /\ ScoresOK'
  BY <1>1 DEF AttentionInv, ScoresOK
<1>6. /\ Start(PositionC) \in Partial(PositionC) /\ IsSoftmax(Start(PositionC), {}, scoreC)
      /\ Start(PositionR) \in Partial(PositionR) /\ IsSoftmax(Start(PositionR), {}, scoreR)
  BY <1>5, Sizes, StartFacts DEF ScoresOK
<1>7. TypeOK'
  <2>1. \E ps \in {{}, PositionC, PositionR} : part' \in Partial(ps)
    BY <1>1, <1>6
  <2>2. path' \in Paths /\ pass' \in Passes
    BY <1>3, <1>4 DEF Paths, Passes
  <2>3. QED
    BY <1>1, <2>1, <2>2 DEF AttentionInv, TypeOK
<1>8. PathOK'
  BY <1>1, <1>2, <1>3, <1>4 DEF PathOK
<1>9. PartOK'
  BY <1>1, <1>3, <1>4, <1>6 DEF PartOK
<1>10. PartialSoftmax'
  <2>1. CASE pass' = "compressed"
    <3>1. block' * BlockN' = 0
      <4>1. n_stored' \in Nat \ {0}
        BY <1>1, <1>2, <1>3, <1>4, <2>1
      <4> DEFINE size == BlockSize(graph', n_stored')
      <4>2. BlockN' = size
        BY DEF BlockN, BlockSize
      <4>3. size \in Nat \ {0}
        BY <1>1, <4>1, BlockIsPositive
      <4> HIDE DEF size
      <4>4. 0 * size = 0
        BY <4>3
      <4>5. QED
        BY <1>1, <4>2, <4>4
    <3>2. {n \in PositionC : n < n_stored' /\ n < block' * BlockN'} = {}
      BY <3>1 DEF PositionC
    <3>3. part' = Start(PositionC) /\ scoreC' = scoreC
      BY <1>1, <2>1
    <3>4. QED
      BY <1>6, <2>1, <3>2, <3>3 DEF PartialSoftmax
  <2>2. CASE pass' = "ring"
    <3>1. block' * BlockR = 0
      BY <1>1, Sizes
    <3>2. {n \in PositionR : n < count' /\ n < block' * BlockR} = {}
      BY <3>1 DEF PositionR
    <3>3. part' = Start(PositionR) /\ scoreR' = scoreR
      BY <1>1, <2>2
    <3>4. QED
      BY <1>6, <2>2, <3>2, <3>3 DEF PartialSoftmax
  <2>3. QED
    BY <2>1, <2>2 DEF PartialSoftmax
<1>11. StoredOK' /\ ResultOK'
  BY <1>3, <1>4 DEF StoredOK, ResultOK
<1>12. QED
  BY <1>5, <1>7, <1>8, <1>9, <1>10, <1>11 DEF AttentionInv

\* The kernels' tokens below the end of a block, as PartialSoftmax has them.
LEMMA TokensBelow ==
  /\ {n \in PositionC : n < n_stored /\ n < block * BlockN}
       = Below(MaxTokens, n_stored, block, BlockSize(graph, n_stored))
  /\ {n \in PositionR : n < count /\ n < block * BlockR}
       = Below(Capacity, count, block, BlockR)
  BY DEF PositionC, PositionR, Below, BlockN, BlockSize

LEMMA CompressedBlockStep ==
  ASSUME AttentionInv, CompressedBlock
  PROVE  AttentionInv'
<1> DEFINE size == BlockSize(graph, n_stored)
           T == Below(MaxTokens, n_stored, block, size)
           TT == Below(MaxTokens, n_stored, block + 1, size)
           L == Lanes(block, size, n_stored)
<1>1. /\ pass = "compressed" /\ pass' = "compressed"
      /\ path \in {"hybrid", "compressed"}
      /\ part' = Update(part, L, scoreC)
      /\ block' = block + 1
      /\ UNCHANGED <<n_stored, count, scoreC, scoreR, graph, path, comp, recent, output>>
  BY DEF CompressedBlock, input, AttentionInv, PathOK, BlockN, BlockSize
<1>2. n_stored \in 0 .. MaxTokens /\ block \in Nat /\ graph \in BOOLEAN
  BY DEF AttentionInv, TypeOK
<1>3. n_stored > 0
  BY <1>1 DEF AttentionInv, PathOK
<1>4. size \in Nat \ {0}
  <2>1. n_stored \in Nat \ {0}
    BY <1>2, <1>3, Sizes
  <2>2. QED
    BY <1>2, <2>1, BlockIsPositive
<1>5. part \in Partial(PositionC) /\ IsSoftmax(part, T, scoreC)
  BY <1>1, TokensBelow DEF AttentionInv, PartOK, PartialSoftmax
<1> HIDE DEF size
<1>6. Follows(MaxTokens, n_stored, block, size)
  BY <1>2, <1>4, Sizes, LanesFacts
<1>7. T \in SUBSET PositionC /\ L \in SUBSET PositionC /\ T \cap L = {}
      /\ T \cup L = TT /\ T \cup L # {}
  BY <1>3, <1>6 DEF Follows, PositionC, Below
<1> HIDE DEF T, L, TT
<1>8. part' \in Partial(PositionC) /\ IsSoftmax(part', TT, scoreC)
  <2>1. scoreC \in [PositionC -> 0 .. TopScore]
    BY DEF AttentionInv, ScoresOK
  <2>2. QED
    BY <1>1, <1>5, <1>7, <2>1, Sizes, UpdateFacts
<1>9. TypeOK'
  <2>1. \E ps \in {{}, PositionC, PositionR} : part' \in Partial(ps)
    BY <1>8
  <2>2. block' \in Nat
    BY <1>1, <1>2
  <2>3. QED
    BY <1>1, <2>1, <2>2 DEF AttentionInv, TypeOK
<1>10. PartialSoftmax'
  <2>1. {n \in PositionC : n < n_stored' /\ n < block' * BlockN'} = TT
    BY <1>1 DEF TT, size, Below, BlockN, BlockSize, PositionC
  <2>2. QED
    BY <1>1, <1>8, <2>1 DEF PartialSoftmax
<1>11. ScoresOK' /\ PathOK' /\ PartOK' /\ StoredOK' /\ ResultOK'
  BY <1>1, <1>8 DEF AttentionInv, ScoresOK, PathOK, PartOK, StoredOK, ResultOK
<1>12. QED
  BY <1>9, <1>10, <1>11 DEF AttentionInv

LEMMA RingBlockStep ==
  ASSUME AttentionInv, RingBlock
  PROVE  AttentionInv'
<1> DEFINE T == Below(Capacity, count, block, BlockR)
           TT == Below(Capacity, count, block + 1, BlockR)
           L == Lanes(block, BlockR, count)
<1>1. /\ pass = "ring" /\ pass' = "ring"
      /\ path \in {"hybrid", "ring"}
      /\ part' = Update(part, Lanes(block, BlockR, Min({count, Capacity})), scoreR)
      /\ block' = block + 1
      /\ UNCHANGED <<n_stored, count, scoreC, scoreR, graph, path, comp, recent, output>>
  BY DEF RingBlock, input, AttentionInv, PathOK
<1>2. count \in 0 .. Capacity /\ block \in Nat
  BY DEF AttentionInv, TypeOK
<1>3. count > 0
  BY <1>1 DEF AttentionInv, PathOK
<1>4. Min({count, Capacity}) = count
  <2>1. count \in Int /\ Capacity \in Int /\ count <= Capacity
    BY <1>2, Sizes
  <2>2. QED
    BY <2>1, MinOfTwo
<1>5. part \in Partial(PositionR) /\ IsSoftmax(part, T, scoreR)
  BY <1>1, TokensBelow DEF AttentionInv, PartOK, PartialSoftmax
<1>6. Follows(Capacity, count, block, BlockR)
  BY <1>2, Sizes, LanesFacts
<1>7. T \in SUBSET PositionR /\ L \in SUBSET PositionR /\ T \cap L = {}
      /\ T \cup L = TT /\ T \cup L # {}
  BY <1>3, <1>6 DEF Follows, PositionR, Below
<1>8. part' = Update(part, L, scoreR)
  BY <1>1, <1>4
<1> HIDE DEF T, L, TT
<1>9. part' \in Partial(PositionR) /\ IsSoftmax(part', TT, scoreR)
  <2>1. scoreR \in [PositionR -> 0 .. TopScore]
    BY DEF AttentionInv, ScoresOK
  <2>2. QED
    BY <1>5, <1>7, <1>8, <2>1, Sizes, UpdateFacts
<1>10. TypeOK'
  <2>1. \E ps \in {{}, PositionC, PositionR} : part' \in Partial(ps)
    BY <1>9
  <2>2. block' \in Nat
    BY <1>1, <1>2
  <2>3. QED
    BY <1>1, <2>1, <2>2 DEF AttentionInv, TypeOK
<1>11. PartialSoftmax'
  <2>1. {n \in PositionR : n < count' /\ n < block' * BlockR} = TT
    BY <1>1 DEF TT, Below, PositionR
  <2>2. QED
    BY <1>1, <1>9, <2>1 DEF PartialSoftmax
<1>12. ScoresOK' /\ PathOK' /\ PartOK' /\ ResultOK'
  BY <1>1, <1>9 DEF AttentionInv, ScoresOK, PathOK, PartOK, ResultOK
<1>13. StoredOK'
  <2>1. StoreTokens' = StoreTokens /\ RingTokens' = RingTokens
    BY <1>1 DEF StoreTokens, RingTokens
  <2>2. QED
    BY <1>1, <2>1 DEF AttentionInv, StoredOK
<1>14. QED
  BY <1>10, <1>11, <1>12, <1>13 DEF AttentionInv


\* The registers of a kernel that has seen all its tokens.
LEMMA AllBelow ==
  ASSUME AttentionInv
  PROVE  /\ pass = "compressed" /\ block * BlockN >= n_stored
              => part \in Partial(PositionC) /\ IsSoftmax(part, StoreTokens, scoreC)
         /\ pass = "ring" /\ block * BlockR >= Capacity
              => part \in Partial(PositionR) /\ IsSoftmax(part, RingTokens, scoreR)
<1>1. n_stored \in 0 .. MaxTokens /\ count \in 0 .. Capacity /\ block \in Nat
      /\ graph \in BOOLEAN
  BY DEF AttentionInv, TypeOK
<1>2. ASSUME pass = "compressed", block * BlockN >= n_stored
      PROVE  part \in Partial(PositionC) /\ IsSoftmax(part, StoreTokens, scoreC)
  <2> DEFINE size == BlockSize(graph, n_stored)
             T == Below(MaxTokens, n_stored, block, size)
  <2>1. n_stored \in Nat \ {0}
    BY <1>1, <1>2, Sizes DEF AttentionInv, PathOK
  <2>2. size \in Nat \ {0}
    BY <1>1, <2>1, BlockIsPositive
  <2>3. block * size >= n_stored
    BY <1>2 DEF BlockN, BlockSize
  <2>4. IsSoftmax(part, T, scoreC)
    BY <1>2, TokensBelow DEF AttentionInv, PartialSoftmax
  <2> HIDE DEF size
  <2>5. Follows(MaxTokens, n_stored, block, size)
    BY <1>1, <2>2, Sizes, LanesFacts
  <2>6. T = StoreTokens
    BY <2>3, <2>5 DEF Follows, StoreTokens, PositionC
  <2>7. QED
    BY <1>2, <2>4, <2>6 DEF AttentionInv, PartOK
<1>3. ASSUME pass = "ring", block * BlockR >= Capacity
      PROVE  part \in Partial(PositionR) /\ IsSoftmax(part, RingTokens, scoreR)
  <2> DEFINE T == Below(Capacity, count, block, BlockR)
             x == block * BlockR
  <2>1. x >= count
    <3>1. x \in Nat /\ x >= Capacity
      BY <1>1, <1>3, Sizes
    <3> HIDE DEF x
    <3>2. QED
      BY <1>1, <3>1, Sizes
  <2>2. IsSoftmax(part, T, scoreR)
    BY <1>3, TokensBelow DEF AttentionInv, PartialSoftmax
  <2>3. Follows(Capacity, count, block, BlockR)
    BY <1>1, Sizes, LanesFacts
  <2>4. T = RingTokens
    BY <2>1, <2>3 DEF Follows, RingTokens, PositionR
  <2>5. QED
    BY <1>3, <2>2, <2>4 DEF AttentionInv, PartOK
<1>4. QED
  BY <1>2, <1>3

LEMMA CompressedStoreStep ==
  ASSUME AttentionInv, CompressedStore
  PROVE  AttentionInv'
<1>1. /\ pass = "compressed" /\ path \in {"hybrid", "compressed"}
      /\ pass' = IF path = "hybrid" THEN "ring" ELSE "normalise"
      /\ comp' = part /\ block' = 0 /\ part' = Start(PositionR)
      /\ UNCHANGED <<n_stored, count, scoreC, scoreR, graph, path, recent, output>>
  BY DEF CompressedStore, input, AttentionInv, PathOK
<1>2. part \in Partial(PositionC) /\ IsSoftmax(part, StoreTokens, scoreC)
  BY AllBelow DEF CompressedStore
<1>3. Start(PositionR) \in Partial(PositionR) /\ IsSoftmax(Start(PositionR), {}, scoreR)
  BY Sizes, StartFacts DEF AttentionInv, ScoresOK
<1>4. TypeOK'
  <2>1. \E ps \in {{}, PositionC, PositionR} : part' \in Partial(ps)
    BY <1>1, <1>3
  <2>2. pass' \in Passes /\ path' \in Paths /\ comp' \in Partial(PositionC)
    BY <1>1, <1>2 DEF Passes, Paths
  <2>3. QED
    BY <1>1, <2>1, <2>2 DEF AttentionInv, TypeOK
<1>5. PartialSoftmax'
  <2>1. block' * BlockR = 0
    BY <1>1, Sizes
  <2>2. {n \in PositionR : n < count' /\ n < block' * BlockR} = {}
    BY <2>1 DEF PositionR
  <2>3. QED
    BY <1>1, <1>3, <2>2 DEF PartialSoftmax
<1>6. StoredOK'
  <2>1. StoreTokens' = StoreTokens
    BY <1>1 DEF StoreTokens
  <2>2. QED
    BY <1>1, <1>2, <2>1 DEF StoredOK
<1>7. ScoresOK' /\ PathOK' /\ PartOK' /\ ResultOK'
  BY <1>1, <1>3 DEF AttentionInv, ScoresOK, PathOK, PartOK, ResultOK
<1>8. QED
  BY <1>4, <1>5, <1>6, <1>7 DEF AttentionInv

LEMMA RingStoreStep ==
  ASSUME AttentionInv, RingStore
  PROVE  AttentionInv'
<1>1. /\ pass = "ring" /\ path \in {"hybrid", "ring"}
      /\ pass' = IF path = "hybrid" THEN "merge" ELSE "normalise"
      /\ recent' = part
      /\ UNCHANGED <<n_stored, count, scoreC, scoreR, graph, path, block, part, comp,
                     output>>
  BY DEF RingStore, input, AttentionInv, PathOK
<1>2. part \in Partial(PositionR) /\ IsSoftmax(part, RingTokens, scoreR)
  BY AllBelow DEF RingStore
<1>3. TypeOK'
  <2>1. pass' \in Passes /\ recent' \in Partial(PositionR)
    BY <1>1, <1>2 DEF Passes
  <2>2. QED
    BY <1>1, <2>1 DEF AttentionInv, TypeOK
<1>4. StoredOK'
  <2>1. StoreTokens' = StoreTokens /\ RingTokens' = RingTokens
    BY <1>1 DEF StoreTokens, RingTokens
  <2>2. path = "hybrid" => IsSoftmax(comp, StoreTokens, scoreC)
    BY <1>1 DEF AttentionInv, StoredOK
  <2>3. QED
    BY <1>1, <1>2, <2>1, <2>2 DEF StoredOK
<1>5. ScoresOK' /\ PathOK' /\ PartOK' /\ PartialSoftmax' /\ ResultOK'
  BY <1>1 DEF AttentionInv, ScoresOK, PathOK, PartOK, PartialSoftmax, ResultOK
<1>6. QED
  BY <1>3, <1>4, <1>5 DEF AttentionInv

\* Of a tier with tokens, the maximum is one of the scores.
FullTier(p, T, score) ==
  /\ p.m \in 0 .. TopScore /\ p.nan = FALSE
  /\ \E n \in T : score[n] = p.m

LEMMA TierFacts ==
  ASSUME NEW ps, IsFiniteSet(ps), NEW score \in [ps -> 0 .. TopScore],
         NEW T \in SUBSET ps, T # {}, NEW p \in Partial(ps), IsSoftmax(p, T, score)
  PROVE  /\ FullTier(p, T, score)
         /\ UpTo(ps, T, score, p.m) /\ Relative(p, ps, T, score, p.m)
<1>1. Top(p.m, T, score) /\ Relative(p, ps, T, score, p.m)
  BY SoftmaxFacts
<1>2. UpTo(ps, T, score, p.m) /\ p.m \in 0 .. TopScore
  BY <1>1, TopIsUpTo
<1>3. \E n \in T : score[n] = p.m
  BY <1>1, <1>2 DEF Top, NegInf
<1>4. p.nan = FALSE
  BY <1>1 DEF Relative, Partial
<1>5. QED
  BY <1>1, <1>2, <1>3, <1>4 DEF FullTier

\* A tier without tokens.
LEMMA ZerosFacts ==
  ASSUME NEW ps, IsFiniteSet(ps), NEW score \in [ps -> 0 .. TopScore],
         NEW m \in 0 .. TopScore
  PROVE  /\ Zeros(ps) \in Partial(ps)
         /\ UpTo(ps, {}, score, m) /\ Relative(Zeros(ps), ps, {}, score, m)
<1>1. UpTo(ps, {}, score, m)
  BY AttentionAssumption DEF UpTo, NegInf
<1>2. Zeros(ps) \in Partial(ps) /\ SumFunction(Zeros(ps).acc) = 0
  BY StartFacts
<1>3. Zeros(ps).acc = WeightsOf(ps, {}, score, m) /\ Zeros(ps).l = 0
      /\ ~ Zeros(ps).nan
  BY DEF Zeros, WeightsOf
<1>4. QED
  BY <1>1, <1>2, <1>3 DEF Relative

LEMMA TokensFacts ==
  ASSUME n_stored \in 0 .. MaxTokens, count \in 0 .. Capacity
  PROVE  /\ StoreTokens \in SUBSET PositionC /\ RingTokens \in SUBSET PositionR
         /\ StoreTokens = {} <=> n_stored = 0
         /\ RingTokens = {} <=> count = 0
<1>1. n_stored > 0 => 0 \in StoreTokens
  BY Sizes DEF StoreTokens, PositionC
<1>2. count > 0 => 0 \in RingTokens
  BY Sizes DEF RingTokens, PositionR
<1>3. n_stored = 0 => StoreTokens = {}
  BY DEF StoreTokens, PositionC
<1>4. count = 0 => RingTokens = {}
  BY DEF RingTokens, PositionR
<1>5. StoreTokens \in SUBSET PositionC /\ RingTokens \in SUBSET PositionR
  BY DEF StoreTokens, RingTokens
<1>6. n_stored \in Nat /\ count \in Nat
  BY Sizes
<1>7. QED
  BY <1>1, <1>2, <1>3, <1>4, <1>5, <1>6

LEMMA MergeStep ==
  ASSUME AttentionInv, Merge
  PROVE  AttentionInv'
<1> DEFINE m == Max({comp.m, recent.m})
           nan == comp.nan \/ recent.nan \/ m = NegInf
<1>1. /\ pass = "merge" /\ path = "hybrid" /\ pass' = "done"
      /\ output' = Merged(comp, recent)
      /\ UNCHANGED <<n_stored, count, scoreC, scoreR, graph, path, block, part, comp,
                     recent>>
  BY DEF Merge, input, AttentionInv, PathOK
<1>2. /\ n_stored \in 0 .. MaxTokens /\ count \in 0 .. Capacity
      /\ n_stored > 0 /\ count > 0
      /\ comp \in Partial(PositionC) /\ recent \in Partial(PositionR)
      /\ IsSoftmax(comp, StoreTokens, scoreC)
      /\ IsSoftmax(recent, RingTokens, scoreR)
      /\ scoreC \in [PositionC -> 0 .. TopScore]
      /\ scoreR \in [PositionR -> 0 .. TopScore]
  BY <1>1 DEF AttentionInv, TypeOK, PathOK, StoredOK, ScoresOK
<1>3. /\ StoreTokens \in SUBSET PositionC /\ StoreTokens # {}
      /\ RingTokens \in SUBSET PositionR /\ RingTokens # {}
  BY <1>2, TokensFacts
<1>4. /\ comp.m \in 0 .. TopScore /\ comp.nan = FALSE
      /\ \E n \in StoreTokens : scoreC[n] = comp.m
  <2>1. FullTier(comp, StoreTokens, scoreC)
    BY <1>2, <1>3, Sizes, TierFacts
  <2>2. QED
    BY <2>1 DEF FullTier
<1>5. /\ recent.m \in 0 .. TopScore /\ recent.nan = FALSE
      /\ \E n \in RingTokens : scoreR[n] = recent.m
  <2>1. FullTier(recent, RingTokens, scoreR)
    BY <1>2, <1>3, Sizes, TierFacts
  <2>2. QED
    BY <2>1 DEF FullTier
<1>6. /\ m \in {comp.m, recent.m} /\ m \in 0 .. TopScore
      /\ comp.m <= m /\ recent.m <= m
  <2>1. comp.m \in Int /\ recent.m \in Int
    BY <1>4, <1>5
  <2>2. m \in {comp.m, recent.m} /\ comp.m <= m /\ recent.m <= m
    BY <2>1, MaxOfTwo
  <2> HIDE DEF m
  <2>3. QED
    BY <1>4, <1>5, <2>2
<1> DEFINE c == RelativeTo(comp, m, nan)
           r == RelativeTo(recent, m, nan)
<1>7. output' = [comp |-> c, recent |-> r]
  BY <1>1 DEF Merged
<1> HIDE DEF m
<1>8. nan = FALSE
  BY <1>4, <1>5, <1>6 DEF NegInf
<1> HIDE DEF nan
<1>9. /\ c \in Partial(PositionC) /\ Relative(c, PositionC, StoreTokens, scoreC, m)
      /\ UpTo(PositionC, StoreTokens, scoreC, m)
  BY <1>2, <1>3, <1>6, <1>8, Sizes, RelativeToFacts
<1>10. /\ r \in Partial(PositionR) /\ Relative(r, PositionR, RingTokens, scoreR, m)
       /\ UpTo(PositionR, RingTokens, scoreR, m)
  BY <1>2, <1>3, <1>6, <1>8, Sizes, RelativeToFacts
<1> HIDE DEF c, r
<1>11. StoreTokens' = StoreTokens /\ RingTokens' = RingTokens
  BY <1>1 DEF StoreTokens, RingTokens
<1>12. \E x \in 0 .. TopScore : CommonMax(x)'
  <2>0. PICK x \in 0 .. TopScore : x = m
    BY <1>6
  <2>1. output'.comp = c /\ output'.recent = r
    BY <1>7
  <2>2. \/ \E n \in StoreTokens : scoreC[n] = m
        \/ \E n \in RingTokens : scoreR[n] = m
    BY <1>4, <1>5, <1>6
  <2>3. CommonMax(x)'
    BY <1>1, <1>9, <1>10, <1>11, <2>0, <2>1, <2>2 DEF CommonMax
  <2>4. QED
    BY <2>3
<1>13. TypeOK'
  <2>1. output' \in [comp : Partial(PositionC), recent : Partial(PositionR)]
    BY <1>7, <1>9, <1>10
  <2>2. pass' \in Passes
    BY <1>1 DEF Passes
  <2>3. QED
    BY <1>1, <2>1, <2>2 DEF AttentionInv, TypeOK
<1>14. ScoresOK' /\ PathOK' /\ PartOK' /\ PartialSoftmax' /\ StoredOK'
  BY <1>1 DEF AttentionInv, ScoresOK, PathOK, PartOK, PartialSoftmax, StoredOK
<1>15. QED
  BY <1>12, <1>13, <1>14 DEF AttentionInv, ResultOK


LEMMA NormaliseStep ==
  ASSUME AttentionInv, Normalise
  PROVE  AttentionInv'
<1>1. /\ pass = "normalise" /\ path \in {"compressed", "ring"} /\ pass' = "done"
      /\ output' = IF path = "compressed"
                   THEN [comp |-> comp, recent |-> Zeros(PositionR)]
                   ELSE [comp |-> Zeros(PositionC), recent |-> recent]
      /\ UNCHANGED <<n_stored, count, scoreC, scoreR, graph, path, block, part, comp,
                     recent>>
  BY DEF Normalise, input, AttentionInv, PathOK
<1>2. /\ n_stored \in 0 .. MaxTokens /\ count \in 0 .. Capacity
      /\ comp \in Partial(PositionC) /\ recent \in Partial(PositionR)
      /\ scoreC \in [PositionC -> 0 .. TopScore]
      /\ scoreR \in [PositionR -> 0 .. TopScore]
  BY DEF AttentionInv, TypeOK, ScoresOK
<1>3. StoreTokens' = StoreTokens /\ RingTokens' = RingTokens
  BY <1>1 DEF StoreTokens, RingTokens
<1>4. n_stored \in Nat /\ count \in Nat
  BY <1>2, Sizes
<1>5. /\ \E x \in 0 .. TopScore : CommonMax(x)'
      /\ output' \in [comp : Partial(PositionC), recent : Partial(PositionR)]
  <2>1. CASE path = "compressed"
    <3> DEFINE z == Zeros(PositionR)
    <3>1. IsSoftmax(comp, StoreTokens, scoreC) /\ n_stored > 0 /\ count = 0
      BY <1>1, <1>4, <2>1 DEF AttentionInv, StoredOK, PathOK
    <3>2. StoreTokens \in SUBSET PositionC /\ StoreTokens # {} /\ RingTokens = {}
      BY <1>2, <1>4, <3>1, TokensFacts
    <3>3. /\ FullTier(comp, StoreTokens, scoreC)
          /\ UpTo(PositionC, StoreTokens, scoreC, comp.m)
          /\ Relative(comp, PositionC, StoreTokens, scoreC, comp.m)
      BY <1>2, <3>1, <3>2, Sizes, TierFacts
    <3>4. PICK x \in 0 .. TopScore : x = comp.m
      BY <3>3 DEF FullTier
    <3>5. /\ z \in Partial(PositionR) /\ UpTo(PositionR, {}, scoreR, x)
          /\ Relative(z, PositionR, {}, scoreR, x)
      BY <1>2, Sizes, ZerosFacts
    <3>6. output' = [comp |-> comp, recent |-> z]
      BY <1>1, <2>1
    <3> HIDE DEF z
    <3>7. output'.comp = comp /\ output'.recent = z
      BY <3>6
    <3>8. CommonMax(x)'
      BY <1>1, <1>3, <3>2, <3>3, <3>4, <3>5, <3>7 DEF CommonMax, FullTier
    <3>9. QED
      BY <1>2, <3>5, <3>6, <3>8
  <2>2. CASE path = "ring"
    <3> DEFINE z == Zeros(PositionC)
    <3>1. IsSoftmax(recent, RingTokens, scoreR) /\ n_stored = 0 /\ count > 0
      BY <1>1, <1>4, <2>2 DEF AttentionInv, StoredOK, PathOK
    <3>2. RingTokens \in SUBSET PositionR /\ RingTokens # {} /\ StoreTokens = {}
      BY <1>2, <1>4, <3>1, TokensFacts
    <3>3. /\ FullTier(recent, RingTokens, scoreR)
          /\ UpTo(PositionR, RingTokens, scoreR, recent.m)
          /\ Relative(recent, PositionR, RingTokens, scoreR, recent.m)
      BY <1>2, <3>1, <3>2, Sizes, TierFacts
    <3>4. PICK x \in 0 .. TopScore : x = recent.m
      BY <3>3 DEF FullTier
    <3>5. /\ z \in Partial(PositionC) /\ UpTo(PositionC, {}, scoreC, x)
          /\ Relative(z, PositionC, {}, scoreC, x)
      BY <1>2, Sizes, ZerosFacts
    <3>6. output' = [comp |-> z, recent |-> recent]
      BY <1>1, <2>2
    <3> HIDE DEF z
    <3>7. output'.comp = z /\ output'.recent = recent
      BY <3>6
    <3>8. CommonMax(x)'
      BY <1>1, <1>3, <3>2, <3>3, <3>4, <3>5, <3>7 DEF CommonMax, FullTier
    <3>9. QED
      BY <1>2, <3>5, <3>6, <3>8
  <2>3. QED
    BY <1>1, <2>1, <2>2
<1>6. TypeOK'
  <2>1. pass' \in Passes
    BY <1>1 DEF Passes
  <2>2. QED
    BY <1>1, <1>5, <2>1 DEF AttentionInv, TypeOK
<1>7. ScoresOK' /\ PathOK' /\ PartOK' /\ PartialSoftmax' /\ StoredOK'
  BY <1>1 DEF AttentionInv, ScoresOK, PathOK, PartOK, PartialSoftmax, StoredOK
<1>8. QED
  BY <1>5, <1>6, <1>7 DEF AttentionInv, ResultOK

LEMMA ZeroOutputStep ==
  ASSUME AttentionInv, ZeroOutput
  PROVE  AttentionInv'
<1>1. /\ pass = "zero" /\ path = "none" /\ pass' = "done"
      /\ output' = [comp |-> Zeros(PositionC), recent |-> Zeros(PositionR)]
      /\ UNCHANGED <<n_stored, count, scoreC, scoreR, graph, path, block, part, comp,
                     recent>>
  BY DEF ZeroOutput, input, AttentionInv, PathOK
<1>2. n_stored' = 0 /\ count' = 0
  <2>1. n_stored \in Nat /\ count \in Nat
    BY Sizes DEF AttentionInv, TypeOK
  <2>2. QED
    BY <1>1, <2>1 DEF AttentionInv, PathOK
<1>3. ResultOK'
  BY <1>1, <1>2 DEF ResultOK
<1>4. TypeOK'
  <2>1. Zeros(PositionC) \in Partial(PositionC) /\ Zeros(PositionR) \in Partial(PositionR)
    BY Sizes, StartFacts DEF AttentionInv, ScoresOK
  <2>2. output' \in [comp : Partial(PositionC), recent : Partial(PositionR)]
    BY <1>1, <2>1
  <2>3. pass' \in Passes
    BY <1>1 DEF Passes
  <2>4. QED
    BY <1>1, <2>2, <2>3 DEF AttentionInv, TypeOK
<1>5. ScoresOK' /\ PathOK' /\ PartOK' /\ PartialSoftmax' /\ StoredOK'
  BY <1>1 DEF AttentionInv, ScoresOK, PathOK, PartOK, PartialSoftmax, StoredOK
<1>6. QED
  BY <1>3, <1>4, <1>5 DEF AttentionInv

LEMMA RecaptureStep ==
  ASSUME AttentionInv, Recapture
  PROVE  AttentionInv'
<1>1. /\ pass' = "idle"
      /\ UNCHANGED <<scoreC, scoreR, graph, path, block, part, comp, recent, output>>
  BY DEF Recapture
<1>2. n_stored \in 0 .. MaxTokens /\ count \in 0 .. Capacity
  BY DEF AttentionInv, TypeOK
<1>3. n_stored' \in 0 .. MaxTokens /\ count' \in 0 .. Capacity
  <2>1. Min({n_stored + 1, MaxTokens}) \in 0 .. MaxTokens
    <3>1. n_stored + 1 \in Int /\ n_stored + 1 >= 0 /\ MaxTokens \in Nat
      BY <1>2, Sizes
    <3>2. QED
      BY <3>1, MinOfTwo
  <2> DEFINE least == Min({n_stored + 1, MaxTokens})
  <2>2. \/ count < Capacity /\ count' = count + 1 /\ n_stored' = n_stored
        \/ count' = count /\ n_stored' = least
        \/ count' = 0 /\ n_stored' = IF n_stored + count <= MaxTokens
                                     THEN n_stored + count ELSE n_stored
        \/ n_stored' = 0 /\ count' = 0
    BY DEF Recapture
  <2> HIDE DEF least
  <2>3. least \in 0 .. MaxTokens
    BY <2>1 DEF least
  <2>4. QED
    BY <1>2, <2>2, <2>3, Sizes
<1>4. TypeOK'
  <2>1. pass' \in Passes
    BY <1>1 DEF Passes
  <2>2. QED
    BY <1>1, <1>3, <2>1 DEF AttentionInv, TypeOK
<1>5. ScoresOK' /\ PathOK' /\ PartOK' /\ PartialSoftmax' /\ StoredOK' /\ ResultOK'
  BY <1>1 DEF AttentionInv, ScoresOK, PathOK, PartOK, PartialSoftmax, StoredOK, ResultOK
<1>6. QED
  BY <1>4, <1>5 DEF AttentionInv

LEMMA NextAttention ==
  ASSUME AttentionInv, [AttentionNext]_attentionVars
  PROVE  AttentionInv'
<1>1. CASE AttentionNext
  BY <1>1, DispatchStep, CompressedBlockStep, CompressedStoreStep, RingBlockStep,
     RingStoreStep, MergeStep, NormaliseStep, ZeroOutputStep, RecaptureStep
     DEF AttentionNext
<1>2. CASE UNCHANGED attentionVars
  <2>1. UNCHANGED <<n_stored, count, scoreC, scoreR, graph, path, pass, block, part,
                    comp, recent, output>>
    BY <1>2 DEF attentionVars, input
  <2>2. TypeOK' /\ ScoresOK' /\ PathOK' /\ PartOK'
    BY <2>1 DEF AttentionInv, TypeOK, ScoresOK, PathOK, PartOK
  <2>3. PartialSoftmax'
    BY <2>1 DEF AttentionInv, PartialSoftmax, BlockN
  <2>4. StoreTokens' = StoreTokens /\ RingTokens' = RingTokens
    BY <2>1 DEF StoreTokens, RingTokens
  <2>5. StoredOK' /\ ResultOK'
    BY <2>1, <2>4 DEF AttentionInv, StoredOK, ResultOK, CommonMax
  <2>6. QED
    BY <2>2, <2>3, <2>5 DEF AttentionInv
<1>3. QED
  BY <1>1, <1>2

\* What the invariant says of a result, in the terms of the two properties.
LEMMA ResultFacts ==
  ASSUME AttentionInv
  PROVE  OutputIsSoftmax /\ DenominatorAtLeastOne
<1> SUFFICES ASSUME pass = "done" PROVE OutputIsSoftmax /\ DenominatorAtLeastOne
  BY DEF OutputIsSoftmax, DenominatorAtLeastOne
<1> DEFINE SumC == SumFunction(Powers(StoreTokens, scoreC))
           SumR == SumFunction(Powers(RingTokens, scoreR))
           l == output.comp.l + output.recent.l
           S == SumC + SumR
           ShareC == \A n \in PositionC : output.comp.acc[n] * S
                       = IF n \in StoreTokens THEN 2 ^ scoreC[n] * l ELSE 0
           ShareR == \A n \in PositionR : output.recent.acc[n] * S
                       = IF n \in RingTokens THEN 2 ^ scoreR[n] * l ELSE 0
<1>1. /\ n_stored \in 0 .. MaxTokens /\ count \in 0 .. Capacity
      /\ output.comp \in Partial(PositionC) /\ output.recent \in Partial(PositionR)
      /\ scoreC \in [PositionC -> 0 .. TopScore]
      /\ scoreR \in [PositionR -> 0 .. TopScore]
  BY DEF AttentionInv, TypeOK, ScoresOK
<1>2. /\ \A n \in PositionC : output.comp.acc[n] \in Nat
      /\ \A n \in PositionR : output.recent.acc[n] \in Nat
      /\ output.comp.l \in Nat /\ output.recent.l \in Nat
  BY <1>1, UnitType DEF Partial
<1>3. /\ StoreTokens \in SUBSET PositionC /\ RingTokens \in SUBSET PositionR
      /\ StoreTokens = {} <=> n_stored = 0
      /\ RingTokens = {} <=> count = 0
  BY <1>1, TokensFacts
<1>4. OutputIsSoftmax <=> ShareC /\ ShareR
  <2>1. /\ {n \in PositionC : n < n_stored} = StoreTokens
        /\ {n \in PositionR : n < count} = RingTokens
    BY DEF StoreTokens, RingTokens
  <2>2. /\ [n \in StoreTokens |-> 2 ^ scoreC[n]] = Powers(StoreTokens, scoreC)
        /\ [n \in RingTokens |-> 2 ^ scoreR[n]] = Powers(RingTokens, scoreR)
    BY DEF Powers
  <2>3. QED
    BY <2>1, <2>2 DEF OutputIsSoftmax
<1>5. CASE /\ n_stored = 0 /\ count = 0
           /\ output = [comp |-> Zeros(PositionC), recent |-> Zeros(PositionR)]
  <2>1. StoreTokens = {} /\ RingTokens = {}
    BY <1>3, <1>5
  <2>2. S = 0
    <3>1. /\ DOMAIN Powers(StoreTokens, scoreC) = {}
          /\ DOMAIN Powers(RingTokens, scoreR) = {}
      BY <2>1 DEF Powers
    <3>2. SumC = 0 /\ SumR = 0
      BY <3>1, SumOfNone DEF SumFunction
    <3> HIDE DEF SumC, SumR
    <3>3. QED
      BY <3>2
  <2>3. ShareC /\ ShareR
    BY <1>2, <2>1, <2>2
  <2>4. DenominatorAtLeastOne
    BY <1>5 DEF DenominatorAtLeastOne
  <2>5. QED
    BY <1>4, <2>3, <2>4
<1>6. ASSUME NEW m \in 0 .. TopScore, CommonMax(m)
      PROVE  OutputIsSoftmax /\ DenominatorAtLeastOne
  <2>1. /\ UpTo(PositionC, StoreTokens, scoreC, m)
        /\ UpTo(PositionR, RingTokens, scoreR, m)
        /\ Relative(output.comp, PositionC, StoreTokens, scoreC, m)
        /\ Relative(output.recent, PositionR, RingTokens, scoreR, m)
        /\ \/ \E n \in StoreTokens : scoreC[n] = m
           \/ \E n \in RingTokens : scoreR[n] = m
    BY <1>6 DEF CommonMax
  <2> DEFINE M == 2 ^ m
  <2>2. m \in Nat /\ M \in Nat /\ M > 0
    BY Sizes, PowerType
  <2>3. /\ SumC \in Nat
        /\ output.comp.l * M = Unit * SumC
        /\ \A n \in PositionC :
             output.comp.acc[n] * M = Unit * (IF n \in StoreTokens THEN 2 ^ scoreC[n] ELSE 0)
    <3>1. InProportion(output.comp.acc, output.comp.l, PositionC, StoreTokens, scoreC, m)
      BY <1>1, <2>1, TierProportion
    <3>2. QED
      BY <3>1 DEF InProportion
  <2>4. /\ SumR \in Nat
        /\ output.recent.l * M = Unit * SumR
        /\ \A n \in PositionR :
             output.recent.acc[n] * M = Unit * (IF n \in RingTokens THEN 2 ^ scoreR[n] ELSE 0)
    <3>1. InProportion(output.recent.acc, output.recent.l, PositionR, RingTokens, scoreR, m)
      BY <1>1, <2>1, TierProportion
    <3>2. QED
      BY <3>1 DEF InProportion
  <2> HIDE DEF M, SumC, SumR
  <2>5. l \in Nat /\ S \in Nat
    BY <1>2, <2>3, <2>4
  <2>6. l * M = Unit * S
    <3> DEFINE l1 == output.comp.l
               l2 == output.recent.l
    <3>1. l1 \in Nat /\ l2 \in Nat /\ l1 * M = Unit * SumC /\ l2 * M = Unit * SumR
      BY <1>2, <2>3, <2>4
    <3> HIDE DEF l1, l2
    <3>2. (l1 + l2) * M = l1 * M + l2 * M
      BY ONLY <2>2, <3>1
    <3>3. Unit * (SumC + SumR) = Unit * SumC + Unit * SumR
      BY ONLY <2>3, <2>4, UnitType
    <3>4. QED
      BY <3>1, <3>2, <3>3 DEF l1, l2
  <2> HIDE DEF l, S
  <2>7. \A a \in Nat, t \in Nat : a * M = Unit * t => a * S = t * l
    BY <2>2, <2>5, <2>6, UnitType, Proportion
  <2>8. 0 * l = 0
    BY <2>5
  <2>9. ShareC
    <3>1. TAKE n \in PositionC
    <3>2. CASE n \in StoreTokens
      <4>1. 2 ^ scoreC[n] \in Nat
        <5>1. scoreC[n] \in Nat
          BY <1>1, Sizes
        <5>2. QED
          BY <5>1, PowerType
      <4>2. output.comp.acc[n] * M = Unit * 2 ^ scoreC[n]
        BY <2>3, <3>2
      <4>3. QED
        BY <1>2, <2>7, <3>2, <4>1, <4>2
    <3>3. CASE n \notin StoreTokens
      <4>1. output.comp.acc[n] * M = Unit * 0
        BY <2>3, <3>3
      <4>2. QED
        BY <1>2, <2>7, <2>8, <3>3, <4>1
    <3>4. QED
      BY <3>2, <3>3
  <2>10. ShareR
    <3>1. TAKE n \in PositionR
    <3>2. CASE n \in RingTokens
      <4>1. 2 ^ scoreR[n] \in Nat
        <5>1. scoreR[n] \in Nat
          BY <1>1, Sizes
        <5>2. QED
          BY <5>1, PowerType
      <4>2. output.recent.acc[n] * M = Unit * 2 ^ scoreR[n]
        BY <2>4, <3>2
      <4>3. QED
        BY <1>2, <2>7, <3>2, <4>1, <4>2
    <3>3. CASE n \notin RingTokens
      <4>1. output.recent.acc[n] * M = Unit * 0
        BY <2>4, <3>3
      <4>2. QED
        BY <1>2, <2>7, <2>8, <3>3, <4>1
    <3>4. QED
      BY <3>2, <3>3
  <2>11. l >= Unit
    <3> DEFINE WC == WeightsOf(PositionC, StoreTokens, scoreC, m)
               WR == WeightsOf(PositionR, RingTokens, scoreR, m)
    <3>1. Exp(m, m) = Unit
      <4>1. m \in m .. TopScore
        BY Sizes
      <4>2. QED
        BY <4>1, ExpFacts
    <3>2. /\ output.comp.l = SumFunction(WC) /\ output.recent.l = SumFunction(WR)
          /\ \A n \in PositionC : WC[n] <= SumFunction(WC)
          /\ \A n \in PositionR : WR[n] <= SumFunction(WR)
      <4>1. output.comp.l = SumFunction(WC) /\ output.recent.l = SumFunction(WR)
        BY <2>1 DEF Relative
      <4>2. \A n \in PositionC : WC[n] <= SumFunction(WC)
        BY <2>1, WeightsType
      <4>3. \A n \in PositionR : WR[n] <= SumFunction(WR)
        BY <2>1, WeightsType
      <4>4. QED
        BY <4>1, <4>2, <4>3
    <3>3. \/ \E n \in PositionC : WC[n] = Unit
          \/ \E n \in PositionR : WR[n] = Unit
      BY <1>3, <2>1, <3>1 DEF WeightsOf
    <3> HIDE DEF WC, WR
    <3>4. output.comp.l >= Unit \/ output.recent.l >= Unit
      BY <3>2, <3>3
    <3>5. QED
      BY <1>2, <3>4, UnitType DEF l
  <2>12. DenominatorAtLeastOne
    BY <2>1, <2>11 DEF DenominatorAtLeastOne, Relative, l
  <2>13. QED
    BY <1>4, <2>9, <2>10, <2>12
<1>7. QED
  BY <1>5, <1>6 DEF AttentionInv, ResultOK

LEMMA AttentionAlways == AttentionSpec => []AttentionInv
<1>1. AttentionInit => AttentionInv
  BY InitAttention
<1>2. AttentionInv /\ [AttentionNext]_attentionVars => AttentionInv'
  BY NextAttention
<1>3. QED
  BY <1>1, <1>2, PTL DEF AttentionSpec

\* The counters of both tiers, the block index and the registers of a kernel
\* keep their types, and no weight exceeds exp(0), for tiers of every size:
\* rescaling to the new maximum, in the kernels and in the merge, only shrinks.
THEOREM AttentionTypes == AttentionSpec => []TypeOK
<1>1. AttentionInv => TypeOK
  BY DEF AttentionInv
<1>2. QED
  BY <1>1, AttentionAlways, PTL

\* After every block of _tq_fused_decode_kernel and _tq_recent_buffer_kernel the
\* registers m_i, l_i and acc are the softmax of the tokens that the blocks so
\* far cover, however many tokens, blocks and scores there are.
THEOREM PartialSoftmaxHolds == AttentionSpec => []PartialSoftmax
<1>1. AttentionInv => PartialSoftmax
  BY DEF AttentionInv
<1>2. QED
  BY <1>1, AttentionAlways, PTL

\* compute_decode_attention() and its graph variant return one softmax over the
\* tokens of the store and of the ring buffer: whichever kernels the counters
\* called for, the split into tiers and blocks leaves no trace in the result.
THEOREM OneSoftmax == AttentionSpec => []OutputIsSoftmax
<1>1. AttentionInv => OutputIsSoftmax
  BY ResultFacts
<1>2. QED
  BY <1>1, AttentionAlways, PTL

\* With a token in either tier no path of the dispatch divides by zero or yields
\* a NaN: the token with the greatest score alone brings the denominator to one.
THEOREM NeverDividesByZero == AttentionSpec => []DenominatorAtLeastOne
<1>1. AttentionInv => DenominatorAtLeastOne
  BY ResultFacts
<1>2. QED
  BY <1>1, AttentionAlways, PTL

=============================================================================
