---------------------------- MODULE SlotManager ----------------------------
(***************************************************************************)
(* runtime/context.py: RequestSlotManager, the table of the states of one  *)
(* layer in each worker, as the inference threads of the worker and the    *)
(* callers of release() and reset_all() use it.  The lock covers the table *)
(* and not the states: a thread uses a state after it has let go of the    *)
(* lock.  allocate() builds a state while it holds the lock, and a state   *)
(* needs a codebook, so that get_codebook() and its failures happen there. *)
(*                                                                         *)
(* A state is an object; 0 is None.  An object that neither a table nor a  *)
(* pass refers to is garbage, and may be the next state that is created.   *)
(* A forward pass captures its token under the generation of the key, the  *)
(* number of times the key had been released when the pass got its state.  *)
(***************************************************************************)
EXTENDS CodebookCache

CONSTANTS
    Keys,           \* request ids that the callers use
    Unlocked,       \* no thread holds the lock
    MaxStates,      \* bound: states in tables and in use
    MaxReleases     \* bound: releases of a key

ASSUME SlotsAssumption ==
    /\ Unlocked \notin Threads
    /\ MaxStates \in Nat
    /\ MaxReleases \in Nat

VARIABLES
    slots,          \* _slots of each worker
    lock,           \* _lock of each worker
    phase,          \* where each thread is in its forward pass
    key,            \* the key of the pass
    held,           \* the state that the pass has got
    got,            \* ghost: the generation of the key at that moment
    generation,     \* ghost: of each key in each worker
    tokens          \* what each state holds, by generation

slotVars == <<slots, lock, phase, key, held, got, generation, tokens>>
vars == <<cacheVars, slotVars>>

None == 0
States == 1 .. MaxStates

Init ==
    /\ CacheInit
    /\ slots = [w \in Workers |-> [k \in Keys |-> None]]
    /\ lock = [w \in Workers |-> Unlocked]
    /\ phase = [t \in Threads |-> "idle"]
    /\ key \in {[t \in Threads |-> k] : k \in Keys}
    /\ held = [t \in Threads |-> None]
    /\ got = [t \in Threads |-> 0]
    /\ generation = [w \in Workers |-> [k \in Keys |-> 0]]
    /\ tokens = [s \in States |-> {}]

Goto(t, place) == phase' = [phase EXCEPT ![t] = place]

\* The first object that nothing refers to.
Referred == {held[t] : t \in Threads}
              \cup UNION {{slots[w][k] : k \in Keys} : w \in Workers}
Garbage == {s \in States \ Referred : \A u \in States \ Referred : s <= u}

\* The state s of the key of the pass is returned to thread t.
Hold(t, s) ==
    /\ held' = [held EXCEPT ![t] = s]
    /\ got' = [got EXCEPT ![t] = generation[Home[t]][key'[t]]]
    /\ Goto(t, "use")

-----------------------------------------------------------------------------
\* get(): whatever there is, under the lock; a pass that finds nothing goes
\* on to allocate().
Get(t, k) ==
    /\ phase[t] = "idle"
    /\ lock[Home[t]] = Unlocked
    /\ key' = [key EXCEPT ![t] = k]
    /\ IF slots[Home[t]][k] # None
       THEN Hold(t, slots[Home[t]][k])
       ELSE Goto(t, "allocate") /\ UNCHANGED <<held, got>>
    /\ UNCHANGED <<cacheVars, slots, lock, generation, tokens>>

\* Mutant of Allocate: the table is not looked at again.
AllocateUnchecked(t) ==
    /\ phase[t] = "allocate"
    /\ lock[Home[t]] = Unlocked
    /\ UNCHANGED key
    /\ lock' = [lock EXCEPT ![Home[t]] = t]
    /\ Goto(t, "construct")
    /\ At(t, "lookup")
    /\ UNCHANGED <<held, got, exists, parts, cached, written, faults, orphaned>>
    /\ UNCHANGED <<slots, generation, tokens>>

\* allocate() takes the lock; a state that another thread has created in the
\* meantime is reused, otherwise one is built.
Allocate(t) ==
    /\ phase[t] = "allocate"
    /\ lock[Home[t]] = Unlocked
    /\ UNCHANGED key
    /\ IF slots[Home[t]][key[t]] # None
       THEN /\ Hold(t, slots[Home[t]][key[t]])
            /\ UNCHANGED <<lock, at>>
       ELSE /\ lock' = [lock EXCEPT ![Home[t]] = t]
            /\ Goto(t, "construct")
            /\ At(t, "lookup")
            /\ UNCHANGED <<held, got>>
    /\ UNCHANGED <<exists, parts, cached, written, faults, orphaned>>
    /\ UNCHANGED <<slots, generation, tokens>>

\* The constructor of the state asks for the codebook.
Construct(t) == GetCodebook(t) /\ UNCHANGED slotVars

\* The state is built, entered into the table and returned.
Constructed(t) ==
    /\ phase[t] = "construct"
    /\ at[t] = "returned"
    /\ At(t, "out")
    /\ UNCHANGED key
    /\ \E s \in Garbage :
         /\ slots' = [slots EXCEPT ![Home[t]][key[t]] = s]
         /\ tokens' = [tokens EXCEPT ![s] = {}]
         /\ Hold(t, s)
    /\ lock' = [lock EXCEPT ![Home[t]] = Unlocked]
    /\ UNCHANGED <<exists, parts, cached, written, faults, orphaned, generation>>

\* Mutant of ConstructFails: acquire() without the with statement.
ConstructFailsLocked(t) ==
    /\ phase[t] = "construct"
    /\ at[t] = "raised"
    /\ At(t, "out")
    /\ Goto(t, "idle")
    /\ UNCHANGED <<exists, parts, cached, written, faults, orphaned>>
    /\ UNCHANGED <<slots, lock, key, held, got, generation, tokens>>

\* The exception leaves the with statement, which lets go of the lock, and
\* the forward pass.
ConstructFails(t) ==
    /\ phase[t] = "construct"
    /\ at[t] = "raised"
    /\ At(t, "out")
    /\ lock' = [lock EXCEPT ![Home[t]] = Unlocked]
    /\ Goto(t, "idle")
    /\ UNCHANGED <<exists, parts, cached, written, faults, orphaned>>
    /\ UNCHANGED <<slots, key, held, got, generation, tokens>>

\* The pass writes its token to the state that it got, released or not.
Capture(t) ==
    /\ phase[t] = "use"
    /\ tokens' = [tokens EXCEPT ![held[t]] = @ \cup {got[t]}]
    /\ held' = [held EXCEPT ![t] = None]
    /\ got' = [got EXCEPT ![t] = 0]
    /\ Goto(t, "idle")
    /\ UNCHANGED <<cacheVars, slots, lock, key, generation>>

\* Mutant of Release: the state is reset but stays in the table.
ReleaseInPlace(w, k) ==
    /\ lock[w] = Unlocked
    /\ slots[w][k] # None
    /\ generation[w][k] < MaxReleases
    /\ tokens' = [tokens EXCEPT ![slots[w][k]] = {}]
    /\ generation' = [generation EXCEPT ![w][k] = @ + 1]
    /\ UNCHANGED <<cacheVars, slots, lock, phase, key, held, got>>

\* release(): the state leaves the table and is reset, whoever uses it.
Release(w, k) ==
    /\ lock[w] = Unlocked
    /\ slots[w][k] # None
    /\ generation[w][k] < MaxReleases
    /\ tokens' = [tokens EXCEPT ![slots[w][k]] = {}]
    /\ slots' = [slots EXCEPT ![w][k] = None]
    /\ generation' = [generation EXCEPT ![w][k] = @ + 1]
    /\ UNCHANGED <<cacheVars, lock, phase, key, held, got>>

\* reset_all(): the same for all keys.
ResetAll(w) ==
    /\ lock[w] = Unlocked
    /\ \A k \in Keys : generation[w][k] < MaxReleases
    /\ tokens' = [s \in States |->
                    IF \E k \in Keys : slots[w][k] = s THEN {} ELSE tokens[s]]
    /\ slots' = [slots EXCEPT ![w] = [k \in Keys |-> None]]
    /\ generation' = [generation EXCEPT ![w] = [k \in Keys |-> @[k] + 1]]
    /\ UNCHANGED <<cacheVars, lock, phase, key, held, got>>

\* A worker dies and starts again, with an empty table and no lock held.
Crash(w) ==
    /\ CrashCache(w)
    /\ slots' = [slots EXCEPT ![w] = [k \in Keys |-> None]]
    /\ lock' = [lock EXCEPT ![w] = Unlocked]
    /\ phase' = [t \in Threads |-> IF Home[t] = w THEN "idle" ELSE phase[t]]
    /\ held' = [t \in Threads |-> IF Home[t] = w THEN None ELSE held[t]]
    /\ got' = [t \in Threads |-> IF Home[t] = w THEN 0 ELSE got[t]]
    /\ UNCHANGED <<key, generation, tokens>>

ForwardPass(t) ==
    Allocate(t) \/ Construct(t) \/ Constructed(t) \/ ConstructFails(t)
                \/ Capture(t)

Next ==
    \/ \E t \in Threads : (\E k \in Keys : Get(t, k)) \/ ForwardPass(t)
    \/ \E w \in Workers : ResetAll(w) \/ Crash(w)
    \/ \E w \in Workers, k \in Keys : Release(w, k)

Spec == Init /\ [][Next]_vars

\* A pass that has begun goes on when it can.
FairSpec == Spec /\ \A t \in Threads : WF_vars(ForwardPass(t))

-----------------------------------------------------------------------------
(* Properties.                                                             *)

\* Every variable has its type, a thread is in get_codebook() only while it
\* builds a state, and it does so with the lock.
TypeOK ==
    /\ CacheTypeOK
    /\ slots \in [Workers -> [Keys -> States \cup {None}]]
    /\ lock \in [Workers -> Threads \cup {Unlocked}]
    /\ phase \in [Threads -> {"idle", "allocate", "construct", "use"}]
    /\ key \in [Threads -> Keys]
    /\ held \in [Threads -> States \cup {None}]
    /\ got \in [Threads -> 0 .. MaxReleases]
    /\ generation \in [Workers -> [Keys -> 0 .. MaxReleases]]
    /\ tokens \in [States -> SUBSET (0 .. MaxReleases)]
    /\ \A t \in Threads :
         /\ at[t] # "out" <=> phase[t] = "construct"
         /\ phase[t] = "construct" <=> lock[Home[t]] = t
         /\ held[t] # None <=> phase[t] = "use"

\* Threads that get a state for the same key, with no release in between, get
\* the same one, although get() and allocate() are two visits to the table.
OneStatePerKey ==
    \A t, u \in Threads :
        /\ phase[t] = "use" /\ phase[u] = "use"
        /\ Home[t] = Home[u] /\ key[t] = key[u] /\ got[t] = got[u]
        => held[t] = held[u]

\* A pass that was using a state when it was released writes to it too late,
\* but what it writes never shows up in the state of a later request.
NoLateTokens ==
    \A w \in Workers, k \in Keys :
        slots[w][k] # None => tokens[slots[w][k]] \subseteq {generation[w][k]}

\* The lock is let go of, also when the codebook cannot be loaded.
LockIsReleased ==
    \A w \in Workers : \A t \in Threads : lock[w] = t ~> lock[w] # t

\* The table, the lock and the passes only use get_codebook(): they implement
\* the specification of its callers.
UsesCodebookCache == CacheSpec

=============================================================================
