--------------------------- MODULE MemoryEstimate ---------------------------
(***************************************************************************)
(* utils/memory.py, estimate_memory(), next to what the constructors of    *)
(* runtime/ and core/ allocate and what memory_bytes() reports.  Sizes are *)
(* in bytes.  A configuration has the arguments in short: layers, D, H,    *)
(* QH, bits (of an index, key_bits - 1), group, capacity, N (tokens per    *)
(* request), seqs, available (the GPU's memory less that of the model),    *)
(* and element, the size of an element in the dtype of the layer.          *)
(***************************************************************************)
EXTENDS PackedGeometry

CONSTANT Configs, NoPlan

ASSUME ConfigsAssumption ==
    Configs \subseteq [layers : Nat \ {0}, D : Nat, H : Nat, QH : Nat,
                      bits : Nat \ {0}, group : Nat \ {0}, capacity : Nat \ {0},
                      N : Nat, seqs : Nat, available : Int, element : {2, 4}]

VARIABLES
    config,         \* the configuration
    plan            \* the estimate for it, NoPlan before

memoryVars == <<config, plan>>

Lesser(a, b)  == IF a < b THEN a ELSE b
Greater(a, b) == IF a > b THEN a ELSE b

\* CompressedKVStore.memory_bytes(), of the buffers that _preallocate() makes.
StoreBytes(c) ==
    LET tokens == c.H * c.N
    IN  tokens * PackedDMse(c.D, c.bits) + tokens * PackedDSigns(c.D)
          + 2 * tokens + 2 * tokens + tokens * c.D
          + 2 * (tokens * NGroups(c.D, c.group))
          + 2 * (tokens * NGroups(c.D, c.group)) + 4

\* RingBuffer.memory_bytes()
RingBytes(c) == 2 * c.capacity * c.H * c.D * c.element + 3 * 8

\* What __init__() of the ring buffer allocates: both counters have one
\* element, the arange has one per slot.
RingAllocated(c) == 2 * c.capacity * c.H * c.D * c.element + 8 + 8 + 8 * c.capacity

\* The buffers of a TurboQuantProd, which every store has of its own: rotation,
\* centroids, boundaries, of which the decision boundaries are a view,
\* projection and sign powers.
QuantizerAllocated(c) ==
    4 * c.D * c.D + 4 * 2^c.bits + 4 * (2^c.bits + 1) + 4 * c.D * c.D + 8

\* preallocate_layer_buffers(): three accumulators, four numbers per head.
EngineAllocated(c) == 3 * (4 * c.QH * c.D) + 4 * (4 * c.QH)

\* What the layers of n requests hold.
Allocated(c, n) ==
    c.layers * (n * (StoreBytes(c) + RingAllocated(c) + QuantizerAllocated(c))
                + EngineAllocated(c))

-----------------------------------------------------------------------------
(* Estimate of estimate_memory() *)
PerRequestPerLayer(c) ==
    LET mse    == IF c.bits = 1 THEN c.D \div 8
                  ELSE IF c.bits = 2 THEN c.D \div 4 ELSE c.D \div 2
        signs  == c.D \div 8
        groups == c.D \div c.group
    IN  c.H * c.N * mse + c.H * c.N * signs + c.H * c.N * 2 + c.H * c.N * 2
          + c.H * c.N * c.D + c.H * c.N * groups * 2 + c.H * c.N * groups * 2
          + 4 + (2 * c.capacity * c.H * c.D * 2 + 3 * 8)

Overhead(c) ==
    c.D * c.D * 4 + c.D * c.D * 4 + 2^c.bits * 4 + (2^c.bits + 1) * 4
      + c.QH * c.D * 4 * 7

(* Mutant of MaxConcurrent: rounded up. *)
MaxConcurrentRoundedUp(c) ==
    Lesser(c.seqs,
           Greater(1, ((c.available - (Overhead(c) * c.layers))
                         \div (PerRequestPerLayer(c) * c.layers)) + 1))

\* At least one request, whatever is available, and no more than max_num_seqs.
MaxConcurrent(c) ==
    Lesser(c.seqs,
           Greater(1, (c.available - (Overhead(c) * c.layers))
                        \div (PerRequestPerLayer(c) * c.layers)))

MemoryInit == config \in Configs /\ plan = NoPlan

\* estimate_memory()
EstimateMemory ==
    /\ plan = NoPlan
    /\ plan' = [per_request_per_layer |-> PerRequestPerLayer(config),
                max_concurrent |-> MaxConcurrent(config),
                total |-> PerRequestPerLayer(config) * config.layers
                            * MaxConcurrent(config)
                          + Overhead(config) * config.layers]
    /\ UNCHANGED config

MemorySpec == MemoryInit /\ [][EstimateMemory]_memoryVars

-----------------------------------------------------------------------------
(* Properties.                                                             *)

\* The estimate of a request is what its states report, wherever the two
\* copies of the geometry and of the sizes of the fields are, for the layers
\* that it is written for, those with elements of two bytes; a wider one has
\* a ring buffer of twice the size, and the estimate falls short by half of it.
EstimateIsReported ==
    plan # NoPlan =>
        plan.per_request_per_layer
          = StoreBytes(config) + RingBytes(config)
              - 2 * config.capacity * config.H * config.D * (config.element - 2)

\* memory.py:104, "quantizer buffers, shared across requests": if they were, the
\* requests that are said to run at a time would allocate no more than the total.
TotalIsEnough ==
    plan # NoPlan => Allocated(config, plan.max_concurrent) <= plan.total

\* As many requests as are said to fit do fit, by the estimate, unless not
\* even one does; and one more would not, or is more than max_num_seqs.
PlanFits ==
    plan # NoPlan =>
        LET one == plan.per_request_per_layer * config.layers
            fits == plan.total <= config.available
        IN  /\ fits \/ plan.max_concurrent <= 1
            /\ plan.max_concurrent = config.seqs
               \/ plan.total + one > config.available

=============================================================================
