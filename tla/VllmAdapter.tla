---------------------------- MODULE VllmAdapter ----------------------------
(***************************************************************************)
(* adapter/vllm_adapter.py with runtime/context.py: the patched attention  *)
(* forward of one layer, the slot manager behind it, and vLLM's scheduler  *)
(* as the environment that decides which requests are in a batch, how a    *)
(* prompt is cut into chunks and when a request ends.                      *)
(*                                                                         *)
(* Tokens are numbered as they arrive in batches and owner says whose each *)
(* one is, which the code does not know: it keys its states with the two   *)
(* constant strings below.  Every forward pass is one step, in which each  *)
(* request's newest query attends to a set of tokens (out).                *)
(***************************************************************************)
EXTENDS CaptureCalls, FiniteSets, TLC

CONSTANTS
    Requests,       \* the ids that vLLM gives to requests
    MaxNumSeqs,     \* max_num_seqs of enable_no_alloc(): slots per layer
    Workloads,      \* what the scheduler is given and how it is set up: records
                    \* [batch, chunk, aborts, prompt, decodes], the requests
                    \* it runs at a time, the prompt tokens of a request it
                    \* schedules in one batch, whether the requests that run
                    \* are aborted when reset_all() is called, and of each
                    \* request the length of the prompt and the number of
                    \* decode steps (bounds)
    NoAlloc         \* no_alloc: the paged cache is not written

Prefill == "prefill_current"
Default == "decode_default"

\* The constant keys are the id of no request.
ASSUME AdapterAssumption ==
    /\ NoAlloc \in BOOLEAN
    /\ MaxNumSeqs \in Nat
    /\ IsFiniteSet(Requests)
    /\ {Prefill, Default} \cap Requests = {}
    /\ Workloads \subseteq [batch : Nat, chunk : Nat \ {0},
                            aborts : BOOLEAN,
                            prompt : [Requests -> Nat],
                            decodes : [Requests -> Nat]]

VARIABLES
    workload,       \* the workload and the set-up of the scheduler
    slots,          \* _slots: the states by key
    status,         \* of each request: waiting, running, done or released
    prompt,         \* prompt tokens that the request has still to compute
    decodes,        \* decode steps that the request has still to make
    owner,          \* ghost: whose token each token is
    out             \* what each request of the last batch attended to

vars == <<workload, slots, status, prompt, decodes, owner, out>>

NewState == [engine |-> EmptyEngine, num_tokens |-> 0,
             is_prefill_complete |-> FALSE, entered_decode |-> FALSE]

Owned(o, r) == {t \in 0 .. Len(o) - 1 : o[t + 1] = r}

\* A batch is a sequence of entries, the requests with their new tokens.
Flat(b) == FlattenSeq([i \in DOMAIN b |-> [j \in 1 .. b[i].n |-> b[i].req]])
NewTokens(b) == [i \in 1 .. Len(Flat(b)) |-> Len(owner) + i - 1]

\* max_query_len > 1
IsPrefill(b) == \E i \in DOMAIN b : b[i].n > 1

-----------------------------------------------------------------------------
\* RequestSlotManager.get(), followed by allocate() when there is none; the
\* number of slots is compared with max_num_seqs nowhere.
GetOrCreate(sl, id) == IF id \in DOMAIN sl THEN sl[id] ELSE NewState

Put(sl, id, state) ==
    [k \in DOMAIN sl \cup {id} |-> IF k = id THEN state ELSE sl[k]]

\* RequestKVState.reset(), which leaves _entered_decode alone.
ResetState(s) == [NewState EXCEPT !.entered_decode = s.entered_decode]

\* RequestSlotManager.release()
Release(sl, id) == [k \in DOMAIN sl \ {id} |-> sl[k]]

\* Mutant of FreshForPrefill: a new prefill finds the old tokens.
FreshForPrefillNever(s) == s

\* The reset at the start of _handle_prefill(): only after a decode step.
FreshForPrefill(s) ==
    IF s.entered_decode
    THEN [ResetState(s) EXCEPT !.entered_decode = FALSE] ELSE s

\* _handle_prefill()
HandlePrefill(sl, tokens) ==
    LET s == FreshForPrefill(GetOrCreate(sl, Prefill))
    IN  Put(sl, Prefill, [s EXCEPT !.engine = IngestPrefill(@, tokens),
                                   !.num_tokens = Len(tokens),
                                   !.is_prefill_complete = TRUE])

(* Mutants of HandleDecodeCapture: the counter is forgotten; the prefill   *)
(* state is not found; only the first token of the batch is captured.      *)
HandleDecodeCaptureUncounted(sl, tokens) ==
    LET id == IF Prefill \in DOMAIN sl THEN Prefill ELSE Default
        s  == GetOrCreate(sl, id)
    IN  Put(sl, id, [s EXCEPT !.engine = IngestDecode(@, tokens),
                              !.entered_decode = @ \/ id = Prefill])

HandleDecodeCaptureApart(sl, tokens) ==
    LET s == GetOrCreate(sl, Default)
    IN  Put(sl, Default, [s EXCEPT !.engine = IngestDecode(@, tokens),
                                   !.num_tokens = @ + Len(tokens)])

HandleDecodeCaptureFirst(sl, tokens) ==
    LET id == IF Prefill \in DOMAIN sl THEN Prefill ELSE Default
        s  == GetOrCreate(sl, id)
    IN  Put(sl, id, [s EXCEPT !.engine = IngestDecode(@, <<tokens[1]>>),
                              !.num_tokens = @ + Len(tokens),
                              !.entered_decode = @ \/ id = Prefill])

\* _handle_decode_capture()
HandleDecodeCapture(sl, tokens) ==
    LET id == IF Prefill \in DOMAIN sl THEN Prefill ELSE Default
        s  == GetOrCreate(sl, id)
    IN  Put(sl, id, [s EXCEPT !.engine = IngestDecode(@, tokens),
                              !.num_tokens = @ + Len(tokens),
                              !.entered_decode = @ \/ id = Prefill])

\* Mutant of ServingKeys: the states are looked up by the ids of the requests.
ServingKeysByRequest(sl, b) == DOMAIN sl \cap {b[i].req : i \in DOMAIN b}

\* The keys that _single_seq_decode() and _multi_seq_decode() look up.
ServingKeys(sl, b) ==
    IF Len(b) > 1 THEN DOMAIN sl \cap {Prefill}
    ELSE IF Prefill \in DOMAIN sl THEN {Prefill}
    ELSE DOMAIN sl \cap {Default}

UsesTQ(sl, b) == \E k \in ServingKeys(sl, b) : HasData(sl[k].engine)

\* What orig_fn reads from the paged cache, which vLLM keys by request and
\* which _make_patched_kv_update() leaves unwritten with no_alloc.
Paged(o, r) == IF NoAlloc THEN {} ELSE Owned(o, r)

\* _prefill_attention_sdpa(): causal over the batch as one sequence, so that
\* the last query of an entry sees all that precedes it in the batch.
Causal(b, i) == LET upto == Len(Flat(SubSeq(b, 1, i)))
                IN  Len(owner) .. Len(owner) + upto - 1

\* What entry i of the batch attends to in the patched forward, where sl and o
\* are the slots and the owners after the capture.
Output(sl, o, b, i) ==
    IF IsPrefill(b)
    THEN IF NoAlloc THEN Causal(b, i) ELSE Owned(o, b[i].req)
    ELSE IF UsesTQ(sl, b)
    THEN UNION {Attended(sl[k].engine) : k \in ServingKeys(sl, b)}
    ELSE Paged(o, b[i].req)

-----------------------------------------------------------------------------
Init ==
    /\ workload \in Workloads
    /\ slots = <<>>
    /\ status = [r \in Requests |-> "waiting"]
    /\ prompt = workload.prompt
    /\ decodes = workload.decodes
    /\ owner = <<>>
    /\ out = <<>>

Running == {r \in Requests : status[r] = "running"}

\* A request without a prompt is never sent.
HasWork(r) == prompt[r] > 0 \/ decodes[r] > 0

\* The scheduler admits a request.
Admit(r) ==
    /\ status[r] = "waiting"
    /\ HasWork(r)
    /\ Cardinality(Running) < workload.batch
    /\ status' = [status EXCEPT ![r] = "running"]
    /\ UNCHANGED <<workload, slots, prompt, decodes, owner, out>>

\* The requests of a batch, each with a chunk of its prompt or one token.
Entry(r) == [req |-> r,
             n |-> IF prompt[r] = 0 THEN 1
                   ELSE IF prompt[r] < workload.chunk THEN prompt[r]
                   ELSE workload.chunk]

\* One forward pass of the layer for the requests in batch.
Forward(batch) ==
    /\ batch # {}
    /\ \A r \in batch : HasWork(r)
    /\ LET b  == SetToSeq({Entry(r) : r \in batch})
           o  == owner \o Flat(b)
           sl == IF IsPrefill(b) THEN HandlePrefill(slots, NewTokens(b))
                 ELSE HandleDecodeCapture(slots, NewTokens(b))
       IN  /\ slots' = sl
           /\ owner' = o
           /\ out' = [r \in batch |->
                        Output(sl, o, b, CHOOSE i \in DOMAIN b : b[i].req = r)]
    /\ prompt' = [r \in Requests |-> IF r \in batch /\ prompt[r] > 0
                                     THEN prompt[r] - Entry(r).n ELSE prompt[r]]
    /\ decodes' = [r \in Requests |-> IF r \in batch /\ prompt[r] = 0
                                      THEN decodes[r] - 1 ELSE decodes[r]]
    /\ UNCHANGED <<workload, status>>

\* A request has its output; vLLM tells the adapter nothing.
Finish(r) ==
    /\ status[r] = "running"
    /\ ~ HasWork(r)
    /\ status' = [status EXCEPT ![r] = "done"]
    /\ out' = <<>>
    /\ UNCHANGED <<workload, slots, prompt, decodes, owner>>

\* release_request(), for a request that has completed.
ReleaseRequest(r) ==
    /\ status[r] = "done"
    /\ slots' = Release(slots, r)
    /\ status' = [status EXCEPT ![r] = "released"]
    /\ UNCHANGED <<workload, prompt, decodes, owner, out>>

\* reset_all(), which has no caller in the repository: the tables are cleared,
\* whatever is running.  Only the caller can abort the requests that run.
ResetAll ==
    /\ slots' = <<>>
    /\ status' = [r \in Requests |->
                    IF workload.aborts /\ r \in Running THEN "done"
                    ELSE status[r]]
    /\ out' = <<>>
    /\ UNCHANGED <<workload, prompt, decodes, owner>>

Next ==
    \/ \E r \in Requests : Admit(r) \/ Finish(r) \/ ReleaseRequest(r)
    \/ \E batch \in SUBSET Running : Forward(batch)
    \/ ResetAll

Spec == Init /\ [][Next]_vars

-----------------------------------------------------------------------------
(* Conditions on what the scheduler is given, which the code relies on and *)
(* does not check.                                                         *)

\* The first batch of a request has more than one of its tokens, by which
\* forward() tells a prefill.
FirstBatchIsPrefill ==
    \A w \in Workloads :
        /\ w.chunk >= 2
        /\ \A r \in Requests :
             w.prompt[r] >= 2 \/ (w.prompt[r] = 0 /\ w.decodes[r] = 0)

\* The ring buffer holds a token of each request of a batch.
RingHoldsABatch == \A w \in Workloads : w.batch <= Capacity

\* Where requests come one after the other each makes a decode step, and its
\* tokens fit into the ring buffer and the store together.
SequentialRequestsFit ==
    \A w \in Workloads :
        w.batch = 1 /\ (\A r \in Requests : w.prompt[r] <= w.chunk)
        => \A r \in Requests :
             w.prompt[r] > 0 =>
               /\ w.decodes[r] > 0
               /\ w.prompt[r] + w.decodes[r] <= MaxTokens + Capacity

-----------------------------------------------------------------------------
(* Properties.                                                             *)

\* Requests come one after the other, prompts are not cut and no reset comes
\* between the batches of a request.
OneAfterTheOther ==
    workload.batch = 1 /\ workload.aborts
      /\ \A r \in Requests : workload.prompt[r] <= workload.chunk

\* The newest query of a request attends to exactly the request's own tokens,
\* all of them, in prefill and in decode, from the ring buffer, the store or
\* the paged cache: no history is lost and none is another request's.  So it is
\* for requests one after the other, each with a decode step at least.
AttendsOwnTokens ==
    OneAfterTheOther => \A r \in DOMAIN out : out[r] = Owned(owner, r)

\* No query attends to a token of another request.
NoForeignTokens == \A r \in DOMAIN out : out[r] \subseteq Owned(owner, r)

\* Even with requests sharing one state, the newest query of a request attends
\* to the request's own newest token, which was captured before, unless
\* reset_all() took the state of the prefill from a request that runs on.
AttendsItself ==
    workload.aborts => \A r \in DOMAIN out :
        \E t \in out[r] \cap Owned(owner, r) : \A u \in Owned(owner, r) : u <= t

\* The independent token counter of a state is what the state holds, as long
\* as no prefill adds to an earlier one.
CounterMatches ==
    OneAfterTheOther =>
        \A k \in DOMAIN slots :
            slots[k].num_tokens
              = slots[k].engine.store.num_stored + slots[k].engine.ring.count

\* A token is captured into one state, once.
CapturedOnce ==
    /\ \A k \in DOMAIN slots :
         Cardinality(Attended(slots[k].engine))
           = slots[k].engine.store.num_stored + slots[k].engine.ring.count
    /\ \A k, l \in DOMAIN slots : k # l =>
         Attended(slots[k].engine) \cap Attended(slots[l].engine) = {}

\* With no_alloc a decode step, of one request or of several, never reads the
\* empty paged cache while a state has data, if each request has had a prompt of
\* more than one token, however it was cut, and none runs on after reset_all().
TQWheneverData ==
    workload.aborts /\ NoAlloc /\ (\E k \in DOMAIN slots : HasData(slots[k].engine))
      => \A r \in DOMAIN out : out[r] # {}

\* There are no more states per layer than max_num_seqs, which nothing checks,
\* if no request runs on after reset_all().
SlotsWithinLimit == workload.aborts => Cardinality(DOMAIN slots) <= MaxNumSeqs

\* When a completed request has been released no state keeps its tokens.
ReleaseFrees ==
    \A r \in Requests : status[r] = "released" =>
        \A k \in DOMAIN slots :
            Attended(slots[k].engine) \cap Owned(owner, r) = {}

=============================================================================
