# TurboQuant in TLA+

TurboQuant replaces vLLM's paged key/value cache by a cache of its own. The
newest tokens of a request are kept exactly, in a ring buffer; older ones are
quantized into a store; the attention kernels read both. The specifications
here model that cache from the bytes of one token up to the patched forward
pass, and what is around it: how the hooks are installed in vLLM's workers, how
threads share states and a codebook file, and the thread that monitors the GPUs.
TLC checks them on small instances, and TLAPS proves the safety of every
component modelled for every size: the capture pipeline, the adapter, the
attention kernels, the formats, the memory estimate, the slot table, the codebook
file, the monitor and the installation.

Paths below are relative to `src/turboquant/`.

## 1. Inventory

| Component | State | Operations | What makes it hard | What makes it correct |
|---|---|---|---|---|
| `runtime/ring_buffer.py` RingBuffer | slots, `_write_pos`, `_count`, device copy `_count_tensor` | `write`, `write_single_graph`, `read_all`, `drain`, `reset` | wrapping; two counters, one of which lags during `write` | the slots below the count are the newest tokens |
| `runtime/kv_store.py` CompressedKVStore | seven parallel buffers, `_num_stored`, `_n_tensor` | `append_chunk`, two views, `reset` | the chunk that does not fit; rows that are rounded down | every position below the counters is written, none is lost silently |
| `runtime/capture.py` KVCaptureEngine | the two above, `_is_prefill_phase` | `ingest_prefill`, `ingest_decode`, `ingest_decode_graph`, `flush`, `reset`, ... | tokens on their way between tiers; protocols nobody states | every token is held in exactly one tier |
| `runtime/context.py` RequestKVState, RequestSlotManager | table of states by request, lock | `allocate`, `get`, `release`, `reset_all` | who shares a state; states used after `release`; states built under the lock | one state per key; late writes harm nobody |
| `adapter/vllm_adapter.py` patched forward | none of its own; `_entered_decode` on the state | prefill, decode capture, single and multi-sequence decode | the batch does not say whose tokens it holds; prompts in chunks; one-token prompts | a query attends to its own request's tokens, all of them |
| `runtime/attention.py`, `core/triton_kernels.py` | preallocated buffers; registers of a kernel | dispatch, two fused decode kernels, recent buffer kernel, merge | masks, empty blocks, rescaling, two tiers relative to two maxima | the output is one softmax over both tiers |
| `adapter/vllm_adapter.py` `enable_no_alloc` | patched executor, hooks and sharing targets in each worker | `patched_get_kv_cache_specs`, `install_hooks`, `free_kv_cache` | workers that disagree, failure halfway, calling it twice | every layer has a cache, a shared one is never written |
| `core/quantizer.py`, `core/rotation.py`, `kv_store.quantize_values` | none | quantize, pack, dequantize | floating point, bit packing, padding | readers find what was packed |
| `core/codebook.py` | cache in memory, files on disk | `get_codebook` | several processes, crash or I/O error while writing | a reader meets half a file only while it is written |
| `monitor/gpu_monitor.py` GPUMonitor | `_running`, `_thread`, `_latest_stats` | `start`, `stop`, `sample_once`, `snapshot` | a join that times out, samples published late, exceptions in the thread | one thread, stopped means stopped, samples in order |
| `utils/memory.py` | none | `estimate_memory` | geometry and sizes written down a second time, for one size of elements; what is shared and what is not | agrees with what is reported; what is said to fit fits, by the estimate and in memory |
| `adapter/base.py`, `adapter/ascend_adapter.py`, MultiNodeMonitor | none | abstract, `NotImplementedError` or placeholder | - | - |

The components interact by calls. When the engine starts, vLLM's patched
executor has every worker install the hooks. From then on vLLM calls the patched
forward of each layer with a batch. It looks up a state in the slot manager, or
has one built, for which the quantizer needs the codebook. A prefill batch goes
to `ingest_prefill`, which puts the head of a long prompt into the store and the
tail into the ring buffer; a decode batch goes to `ingest_decode`, and what
`write` returns goes to the store. Then the attention engine looks at the host
counters of both tiers to choose its kernels, which look at the device counters
to mask. Nothing calls back, but for the monitor, whose thread asks a provider
for statistics.

The hazards of this code, each with its line and the properties that would
catch it, are in `PROJECT.json`.

## 2. Modules

    RingBuffer   CompressedKVStore            TieredCache (abstract)
        \          /        \                      ^
         \        /          \                     | ImplementsTieredCache
          KVCapture <-------- CaptureCalls         |
             |     CallsAddUp     |                |
        MCKVCapture --------------+----------------+
        KVCaptureProofs       VllmAdapter
        RingBufferTheorems    MCVllmAdapter
                              VllmAdapterProofs

    CodebookCache <--UsesCodebookCache-- SlotManager     NoAllocInstall
                                         MCSlotManager   MCNoAllocInstall
                                         SlotManagerProofs  NoAllocInstallProofs

    PackedGeometry                              GPUMonitor
       |        \                               GPUMonitorProofs
    QuantizedFormats  MemoryEstimate  DecodeAttention
              \             |          /         FiniteInduction
               +------------+---------+
               |                      |
           MCKernels            KernelProofs

**RingBuffer** and **CompressedKVStore** are data types: records with the
fields of the class and one operator per operation. A key/value pair is the
number of its token, in order of arrival; a zeroed slot is -1. `ReadAll`
translates the branch of `read_all` that would reorder a wrapped buffer,
although its condition is never met.

**KVCapture** is the engine with both tiers as variables. A call that reaches
`RingBuffer.write` is a step for the call, one per token and one for the
return, because in between the device counter lags behind the host counter and
evicted tokens are in neither tier. The other calls are one step: nothing in
them is visible to another party. Calls do not overlap, as a forward pass is
the only caller. `RepeatedPrefill` and `GraphMode` say what the caller does; the
ghost variables `next`, `base` and `rejected` number the tokens and remember
which chunks the store refused. Numbering tokens by arrival loses nothing, as no
branch of the code looks at a key or a value.

**TieredCache** is what that pipeline promises, without slots or counters: a
first-in first-out window, an archive, and chunks that are archived whole or
lost whole. The refinement mapping reads the ring buffer by age.

**CaptureCalls** states the calls of the engine as functions, for modules that
do not look inside them. `CallsAddUp` in **MCKVCapture** checks that the
steps of KVCapture add up to these functions, and `CallsAreWhole` proves it.

**VllmAdapter** is one layer's patched forward pass with its table of states.
The scheduler of vLLM is the environment. A `Workloads` record says how many
requests it runs at a time (`batch`), how many tokens of a prompt go into one
batch (`chunk`), whether the engine aborts the requests that run when somebody
calls `reset_all` (`aborts`; the code only clears the tables, and nothing in the
repository calls it), and of each request the length of its prompt and the number
of its decode steps; any subset of the running requests may be the next batch. The
code never learns whose tokens a batch holds; the ghost variable `owner` does,
and `out` records what the newest query of each request of the last batch
attended to, so that the properties can compare the two.

**DecodeAttention** is the dispatch and the kernels for one query, one block per
step. Scores are small integers and the exponential has base 2. As a running
maximum only grows, every weight relative to it is a power of two between
2^-TopScore and 1, and multiplied by 2^TopScore an integer; so the arithmetic
of the model is exact and `PartialSoftmax` can demand equality. The accumulator
is kept as the weight of each value rather than the sum, which covers all
values at once. Minus infinity and not-a-number are modelled, since the masks
produce them. The eager and the graph variant differ in block size, in where
the token count comes from and in the reuse of buffers.

**CodebookCache** is `get_codebook` for one key, as the threads of several
worker processes call it: the cache of each process, the file that all share,
I/O errors in any step that touches the disk, which nobody catches, and workers
that crash; `faults` counts both. Opening the file truncates it, and the writers write
their parts at their own offsets, so that two writers can leave a hole until the
slower one has closed. `Enter` and `Leave` are a caller that does nothing else.

**SlotManager** extends it to the table of states of one layer in each worker:
`get`, `allocate`, `release` and `reset_all` under the lock, and forward passes
that go on using a state after the lock is free. A state is built under the
lock, and its construction calls `get_codebook`; `UsesCodebookCache` says that
the composition implements the specification of the callers in CodebookCache. A
state is a number, and one that nothing refers to may be given out again; what a
state holds is abstracted to the *generations* of its key (how often the key had
been released) under which passes wrote to it.

**NoAllocInstall** is `enable_no_alloc` and what follows when the engine starts:
the remote call to all workers, the installation layer by layer, which may fail
at any layer of any worker, the sharing targets, the specs cut down by the first
worker's reply, and `free_kv_cache`. `Deployments` says which layers each worker
has, layers that are skipped (MLA) and modules without a cache included. That
vLLM lets a layer without specs use the cache of its target is external.

**QuantizedFormats** takes one token through packing, the copy into a row of the
store, which raises when lengths differ, and the loops of a kernel over the
bytes, a byte per step. Values are integers in units of the smallest positive
float16, 2^-24. The arithmetic of the value's own dtype is exact in the model; what
rounds is the quantization to levels and, in the store, the narrowing of scales
and zeros (`Narrow`): to `Significand` digits of a unit between 1 and
2^`Exponents`, which includes the subnormal numbers, and to infinity beyond the
largest float16. A scale is kept as `levels` times its value, so that it is an
integer. **PackedGeometry** holds the sizes that the store reserves;
**MemoryEstimate** is `estimate_memory` next to what the constructors allocate
and `memory_bytes` reports, for layers with elements of two bytes and of four.

**MCKernels** is the instance of QuantizedFormats, DecodeAttention and
MemoryEstimate. The three share nothing: in a behaviour one of them, the
`subject`, goes on, and the others stay as they were.

**GPUMonitor** is the sampling thread, the caller that starts and stops it, and
callers that sample by hand. A sample is the time at which it was taken. Each
statement that touches a shared field is a step; `slow` says whether a join may
time out in this behaviour.

The modules named *Proofs* and *Theorems* and **FiniteInduction** hold the
proofs.

## 3. Runs

| Run | Expected | What it shows |
|---|---|---|
| CaptureEager | pass | one prefill per request, eager decoding: nothing lost, nothing twice, TieredCache implemented, calls whole |
| CaptureGraph | pass | graph mode and prompts in chunks: the kernels see the newest tokens all the same |
| CaptureGraphLoss | violation of EveryTokenKept | a full ring buffer overwrites tokens in graph mode, `check_overflow_and_compress` does nothing |
| CaptureChunkedPrefill | violation of EveryTokenKept | `ingest_prefill` drops what `write` returns |
| Adapter | pass | one request after the other, prompts whole, a decode step at least: each query attends to its own tokens; requests that share a state still attend to their own newest token, tokens are captured once, decoding never falls back to the empty paged cache |
| AdapterPrefillOnly | violation of NoForeignTokens | a request without a decode step pollutes the next one |
| AdapterRelease | violation of ReleaseFrees | `release_request` finds no state |
| Monitor | pass | one sampling thread unless a join timed out; samples go back in time only when samplers overlap; `stop` returns, a stopped monitor comes to rest, a running one goes on whatever samples raise |
| SlotsAndCodebook | pass | one state per key, late writes reach no later request, the codebook file is torn only while it is written or after a writer has died or failed, and becomes whole, the lock is let go of |
| NoAlloc | pass | whatever fails where, every layer has a cache, only patched layers share one, layers are patched once, `free_kv_cache` takes no cache that is written to, the engine starts |
| Kernels | pass | rows fit, each coordinate is read back once with its index and its sign, values within the error of quantization and narrowing; the output of attention is one softmax over both tiers, for every split and all scores, and is always a number; the estimate is what is reported by layers of two-byte elements, and what is said to fit does, by the estimate |
| EstimateTotal | violation of TotalIsEnough | the requests that are said to fit allocate more than the estimated total: each has quantizers of its own |

Each violation is a finding in `PROJECT.json`, with the line of the code that is
contradicted. That all requests share one state is a choice that a comment of
the adapter admits (`adapter/vllm_adapter.py:500-502`: "Data mixing is accepted
for concurrent requests"), although `context.py:34` still promises complete
isolation; the run Adapter asks what is left under that choice.

### Conditions on what passes

Some of these properties hold under conditions, which they state or which the
instance meets. They are worth knowing:

- `AttendsOwnTokens` and `CounterMatches` are about whole prompts, one request
  after the other. The second chunk of a prompt attends to its batch only
  (`_prefill_attention_sdpa`), never to the chunks before it.
- The adapter tells a prefill from a decode by the longest query of the batch, so
  a request whose prompt is one token long is taken for one that decodes.
  `FirstBatchIsPrefill` excludes a first batch in which all queries are that
  short: without it `AttendsOwnTokens`, `TQWheneverData` and `AttendsItself`
  have counterexamples, and so has `SlotsWithinLimit` if `max_num_seqs` is one.
- `reset_all` clears the tables of states whatever runs. For requests that run on
  the history is gone and their decode steps go to `decode_default`, or to the
  state of the next prefill. `AttendsOwnTokens`, `AttendsItself`,
  `TQWheneverData` and `SlotsWithinLimit` therefore suppose that the engine aborts
  the requests that run (`workload.aborts`); without this each of them has a
  counterexample. `CounterMatches` shares the condition with `AttendsOwnTokens`,
  in `OneAfterTheOther`. `CapturedOnce` does without, and half of the workloads
  `Concurrent` do not abort.
- `RingHoldsABatch`: a batch of decode queries is not longer than the ring
  buffer. Three queries, a window of two and a store of one violate
  `AttendsItself`: the first query's own token has left the window and the store
  refuses it.
- `SequentialRequestsFit`: a request and its decode steps fit into the two tiers.
  A longer one loses tokens to a full store (section 1), and with it
  `AttendsOwnTokens` and `CounterMatches`.
- `ReplicasOrStages`: the layers of two workers are the same, as replicas of
  tensor parallelism have them, or disjoint, as pipeline stages do. The engine
  takes the sharing targets from the first worker that replied; with workers of
  layers a, b and b, c `EveryLayerHasCache` is violated.
  `FirstBatchIsPrefill`, `RingHoldsABatch`, `SequentialRequestsFit` and
  `ReplicasOrStages` are named in VllmAdapter and NoAllocInstall; the theorems that need
  them assume them, and `ConditionsAreMet` in MCVllmAdapter and `PlacedAsAssumed`
  in MCNoAllocInstall have TLC evaluate that the instances meet them.
- `TQWheneverData` is about prompts of more than one token. When all prompts
  were one token long their tokens are in the state `decode_default`, and
  `_multi_seq_decode`, which looks for `prefill_current`, falls back to the
  paged cache, unwritten with `no_alloc`.
- `OneMonitorThread` excepts threads on which a join has given up: after a
  time-out and a new `start` the old thread finds `_running` set again and goes
  on next to the new one. `StoppedComesToRest` says that a final `stop` ends
  both.
- `TornOnlyWhileWriting` does not exclude that another worker reads while the
  file is written: its `get_codebook` raises. Both except a writer that
  dies or fails, on a full disk for example: the file it leaves makes every later
  `get_codebook` raise. What they say is that nothing *else* tears the file: two
  writers that truncate each other's, or a crash or an error at any other moment.
- `FreesOnlyHooked` takes it that a layer's index in the context is that of its
  cache (`IndicesAgree`), as `free_kv_cache` does.
- `FillsItsBuffers` allows an error for head dimensions that are not a multiple
  of eight or of the group, and for indices of more than four bits, for which
  the store reserves half a byte and the packer uses a whole one.
- `ValueComesBackClose` bounds the error of a value by half a step before the
  store. In the store half a digit of the zero is added, and half a digit of the
  scale for *each* step taken: a group of small span around a large zero loses
  more by narrowing than by quantization. Float16 numbers end at 65504, beyond
  which a group is read as infinity or not a number; the property allows that
  only if its zero or its scale is larger.
- `EstimateIsReported`: the estimate takes elements to have two bytes
  (`utils/memory.py:98`); `memory_bytes` uses four for other dtypes than float16
  and bfloat16 (`ring_buffer.py:170`). For those the property says how much is
  missing: half of the ring buffer's keys and values.
- `PlanFits` is about the estimate. What the same requests allocate is more, as
  EstimateTotal shows: every store has a quantizer of its own (`kv_store.py:139`),
  which the total counts once per layer. In the configuration of that run the
  numbers per slot of the ring buffers, which the estimate leaves out, are less
  than what it reserves in excess for the attention engine, so that the quantizers
  alone are to blame.
- A wrapped ring buffer is flushed in the order of its slots, not of age: the
  test in `read_all` (`ring_buffer.py:136`) is always true. TieredCache promises
  the set of a chunk's tokens and not their order, which no kernel looks at.

### Bounds

- Capture: a window of 3 and a store of 5 with 10 tokens wrap the window three
  times and fill the store, so that chunks fit exactly, overflow by one and
  are refused; a decode call of 4 tokens is longer than the window. `MaxIngest`
  and `MaxChunk` occur in guards only.
- Kernels, attention: a store of 3 in blocks of 2 has a full and a partial block (the eager
  variant narrows the block for one token), a window of 3 in blocks of 2 ends in
  a block that may be masked altogether. Three scores give maxima that rise by
  one or two in any block. Every assignment of scores and every pair of counts
  is an initial state, and later calls, after another token, a flush or a
  reset, find the buffers of earlier ones.
- Adapter: a window of 2 with prompts of up to 6 and up to 4 decode steps fill
  both tiers. Two requests follow each other in the workloads `Sequential`; in
  `Concurrent` three, of which up to two are in a batch and whose prompts are cut
  in two, let a request join a state that two others have used.
- Monitor: three threads let two be abandoned with a third running, or all end
  and start in turn; the clock stops at 3, enough for a sample to be overtaken
  by two. `MaxTime` and `Threads` bound a run, not a guard of the code.
- SlotsAndCodebook: two threads in one worker race for the lock, a third in
  another races for the file; a file of two parts can be half written; one
  release makes an old and a new generation, one fault (`MaxFaults`) a writer that
  dies or fails; five
  states are as many as tables and passes can refer to.
- NoAlloc: two workers with equal layers (tensor parallel) or different ones
  (pipeline parallel, with stages that share a cache each and with stages that
  share none), up to four modules with skipped layers first, between and
  last; two modules lack the sharing attribute. Two calls of `enable_no_alloc`.
- Kernels, formats: every width of an index from one to five bits, with two
  coordinates that take any index, at the ends of a row or on both sides of the
  edge of a byte; dimensions that fill their bytes and others; groups of three,
  four and eight. The formats treat every byte alike, so two bytes are enough.
  Floats have three digits (`Significand`) and three exponents (`Exponents`), so
  that numbers up to 8 are exact, those up to 28 are rounded and 30 is infinite;
  zeros and scales fall on each of these, and without either of the two terms for
  narrowing, or without the exception for infinity, `ValueComesBackClose` has a
  counterexample. Configurations on both sides of zero requests, one request and
  `max_num_seqs`, with both sizes of elements.
- EstimateTotal: one configuration of usual size, two layers of head dimension
  128 and eight requests.

Deadlock is checked except in NoAlloc: once the engine has started and the caches
are freed nothing follows. In KVCapture, VllmAdapter, GPUMonitor and SlotManager
some call can always be made; in DecodeAttention the next call follows. In
MCKernels a token that has been read, or has been refused, and an estimate that
has been made stay as they are (`Finished`).

### Fairness

The capture pipeline, the adapter and the kernels run to completion within a call
and wait for nobody: no fairness is stated for them and nothing is claimed to
happen eventually. The other three wait:

- GPUMonitor: weak fairness of the loop of each thread and of each
  `sample_once` in progress. The operating system schedules threads that can
  run, `time.sleep` returns, and so do the functions that ask the GPU. Weak
  fairness of the join: `Thread.join` returns when the thread has ended. It is
  *not* assumed that a join ever times out (`slow` may be FALSE), nor that
  anyone calls `start`, `stop` or `sample_once`.
- SlotManager: weak fairness of each forward pass that has begun, one of whose
  steps is to take a lock that is free. It is enough although the lock is not
  fair, since the properties ask for a lock to be let go of, not to be taken.
  Nothing is assumed of the calls that begin a pass, of `release`, of
  `reset_all` and of crashes, nor whether a step that touches the disk succeeds.
- NoAllocInstall: the engine asks for the specs, each worker goes on with what it
  was sent until it answers or fails, and `collective_rpc` returns when all have.
  Which of the two happens is left open.

## 4. Proofs

Eight modules hold theorems; they are checked from nothing, with no assumption
but those named in the modules that declare the constants, which TLC evaluates,
and the conditions of section 3 where a theorem states them. Each safety theorem
follows the same course: an inductive invariant, implied by the initial states
and preserved by each action in a lemma of its own, that implies the property.

**FiniteInduction** has what the other modules need about numbers and finite
sets. The induction theorems of the library take an operator, which the provers
cannot instantiate; `UpToInduction` and `RemovalInduction` take instead
the *set* of the numbers, or of the sets, that have the property, which is first
order. From them follow that functions defined by recursion exist and have the
values that they define, so that loops and folds can be reasoned about, that
sums over finite sets can be split, bounded and scaled, and that finite sets have
extremes. The provers know nothing of exponentials either: `PowerDoubles` and
`PowerAdds` come from counting, as 2^n is the number of subsets of a set of n.

**RingBufferTheorems and KVCaptureProofs**, for all values of `Capacity`,
`MaxTokens`, `MaxIngest` and `MaxChunk` (a positive capacity, naturals otherwise)
and in both modes:

- `TypeCorrect`, `HeldOnce`, `BlanksHidden` and `WindowSeen`: `TypeOK`,
  `CountedOnce`, `NoBlankAttended` and `KernelSeesRecentTokens` are invariants
  of `Spec`;
- `NothingLost`: assuming one prefill per request and eager decoding,
  `EveryTokenKept` is one too. Both assumptions are needed, as the runs
  CaptureGraphLoss and CaptureChunkedPrefill show.

None of the five is inductive. The key of the strengthening `IInv` is *recency*:
for j from 1 to `count`, the slot `(write_pos - j) % Capacity` holds the token
`next - j`. It says where each of the newest tokens is, so that the one a write
overwrites is known to be the oldest, and from it `WindowIsRecent` derives that
the slots below the count hold exactly the newest `count` tokens: the residues
of `count` consecutive numbers are that many slots, and as long as the buffer has
not wrapped they are the lowest. `IInv` adds that a call in progress knows how
many tokens it has still to write, that stored and moving tokens are older than
the window and that the device counters equal the host counters between
calls. `NothingLost` adds `Accounted`: every token since the last reset is in
the window, on its way, in the store or rejected; a prefill finds the ring
buffer empty or short enough that nothing is evicted.

The same module proves `EngineIsTieredCache`: under these two assumptions the
engine implements TieredCache. `ByAge` reads the ring as the
abstract window; `ByAgeGrows` and `ByAgeSlides` say that a write appends to it,
and drops its head if the ring is full. What the abstract archive says of the
*number* of tokens needs that the store holds no token twice (`CountedOnce`), so
that a set is as large as the counter.

And it proves `CallsAreWhole`, which ties the adapter to the engine: CaptureCalls
writes a call as a recursive function of its tokens, KVCapture as steps. The
invariant `InCall` says that after each step the engine is what the loop's body,
applied once for each token that has arrived, makes of the engine at the call
(`Written`); `WriteIsWritten` shows by induction on the turns that the recursive
function has the same value.

**GPUMonitorProofs**: `TypeCorrect`, `OneThread` and, as an action property,
`SamplesInOrder`. The strengthening says that a monitor that does not run has
forgotten its thread or is joining it, which makes the thread that `start`
replaces none, and that what a sampler is about to publish is not older than the
published sample, if both are threads of the monitor on which no join has given
up, or one sampler.

**SlotManagerProofs**: `CacheTorn` proves
`TornOnlyWhileWriting` of the callers of CodebookCache. Its invariant says that
a file that is not whole has a writer all of whose parts are in it, namely the
one that truncated it last, unless a writer has died or failed. `Refinement` proves that
SlotManager implements `CacheSpec`, and `NoTornFile` takes the property over from
there. `OneState` and `NoForeignWrite` rest on an invariant of six parts: a state
is in one place of one table; whoever uses a state that is in a table got it
there, after the last release of the key; a state got in the current generation
is still the one in the table; and nobody adds the state that the holder of the
lock is building.

**VllmAdapterProofs**, for any slots, capacities, limits, workloads and numbers
of requests. `SlotsAreOK` says of each state that its engine holds tokens that
have arrived, each in one place and in no other state, and that its device
counters equal its host counters; `CapturedOnce` follows, for every order of
batches. It rests on what the calls of CaptureCalls, loop included, do to an
engine. `TQWheneverData`, `AttendsItself` and `SlotsWithinLimit` are proved with
the conditions of section 3 that each needs, which are named in the theorem or,
like `workload.aborts`, part of the property, and no others. For `AttendsOwnTokens`
and `CounterMatches` a second invariant, `OneAfterTheOtherInv`, says of requests
that come one after the other that the state of the prefill holds exactly the
tokens of the running request, or that its next batch is a prefill that begins
with a reset, and that `num_tokens` is the number of tokens its engine holds.

**NoAllocInstallProofs**: `PatchedOnce`, however often `enable_no_alloc` is called:
before the engine asks for the specs nothing is installed, and the executor is
wrapped at most once. `SharedOnlyIfPatched` and `FreesPatchedOnly`, whatever fails
on whichever worker, and `CachesForAll` under `ReplicasOrStages`. Their invariant
`SharingInv` says that a worker patches only its own layers and sets its sharing
targets, and tells the engine of them, only once all of them are patched; that the
engine drops the specs that its first worker named, and only when all have
replied; and that an entry of `kv_caches` is the cache that its layer uses, unless
the layer is patched.

**KernelProofs** has three parts.

- Formats: `StoreFits`, `KeyComesBack` and `ValueComesBack`, for rows of every
  length. The packer adds up the shifted fields of a byte, `FieldOfByte` shows that
  each is recovered by the shift and the mask of its place, and the loops of the
  kernels over bytes and fields visit each coordinate exactly once. A value is
  quantized to within half a step because rounding to nearest errs by half a unit
  at most (`RoundHalf`). `NarrowFacts` says the same of the narrowing to float16,
  where the unit is a digit of the number or the smallest one, as the exponent is
  the least that leaves it enough digits (`UnitFacts`); and that what is rounded
  beyond the largest float was beyond it. `ErrorsAdd` puts the three errors
  together. This is for every `Significand` and `Exponents`, 11 and 29 in a
  float16.
- Estimate: `EstimateIsRight` and `PlanIsRight`. The two copies of the geometry
  agree as polynomials in the sizes, and the size of an element accounts for the
  rest; what fits is a matter of integer division.
- Attention: `AttentionTypes`, `PartialSoftmaxHolds`, `OneSoftmax` and
  `NeverDividesByZero`, for tiers, blocks and scores of every size. The invariant
  `AttentionInv` says that the registers of the running kernel are the softmax
  of the tokens below the current block, that what a finished kernel has stored
  is the softmax of its whole tier, and that both parts of an output are relative
  to one maximum, which a token attains. `UpdateFacts` is the step of the online
  softmax: `Rescaled` shows that the weights relative to the old maximum, and
  their sum, are exact multiples of those relative to the new one, so that no
  division loses anything, and `LanesFacts` that the lanes of a block follow on
  those of the blocks before, with the mask at the end. `OneSoftmax` then follows
  by `Proportion`: multiplied by the exponential of the common maximum, each
  weight is the exponential of its score, and the denominator the sum of them.

Only model-checked: the liveness properties `StopReturns`, `StoppedComesToRest`,
`RunningGoesOn`, `FileSettles`, `LockIsReleased` and `EngineStarts`, which need
ENABLED under fairness.

## 5. Not modelled

- What quantization does to numbers: rotations, norms, the nearest centroid, the
  numerical integration behind a codebook, the narrowing of norms to float16.
  Floating-point linear algebra on random matrices is out of TLC's reach.
- A decode step captured in a CUDA graph. `write_single_graph` and the graph
  variant of the kernels are written for capture, and both would freeze
  decisions that Python makes (the slot, the choice of kernels); but nothing in
  the repository captures them, so there are no steps to follow.
- `get_stats`, `active_count` and the like, which only read;
  `estimate_compression_ratio`; the abstract adapter, the Ascend adapter and
  the multi-node monitor, which have no behaviour of their own; the launcher,
  packaging and images.

## 6. Plan

Done, in this order: the capture pipeline with TieredCache, the attention kernels
and the adapter; the monitor; the slot table with the codebook cache; the
installation of the hooks; the formats and the memory estimate; and the proofs of
section 4. What is left:

1. A captured decode step, once the repository has code that captures one.
2. The safety halves of the liveness properties: measures that each step of a
   holder of the lock, of a writer of the codebook file and of a thread that has
   been told to stop decreases and no other step increases.
