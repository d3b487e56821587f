------------------------- MODULE SlotManagerProofs -------------------------
(***************************************************************************)
(* The safety of the codebook file, that the slot table uses the codebook  *)
(* cache as its specification says, and the safety of the table, for any   *)
(* number of workers, threads, keys, states, releases and faults.          *)
(***************************************************************************)
EXTENDS SlotManager, TLAPS

-----------------------------------------------------------------------------
(* The codebook cache on its own, under the specification CacheSpec.       *)

\* Of the threads that write, the one that truncated the file last has lost
\* nothing that it wrote.
Covers(t) == at[t] = "write" /\ 1 .. written[t] \subseteq parts

\* The file is whole, or has such a writer, or the writer has died.
Mending == exists => parts = Parts \/ orphaned \/ \E t \in Threads : Covers(t)

CacheIInv == CacheTypeOK /\ Mending

-----------------------------------------------------------------------------
LEMMA CacheInitInvariant == CacheInit => CacheIInv
<1> SUFFICES ASSUME CacheInit PROVE CacheIInv
  OBVIOUS
<1>1. cached \in [Workers -> BOOLEAN] /\ written \in [Threads -> 0 .. NumParts]
  BY WorkersAssumption DEF CacheInit
<1>2. QED
  BY <1>1 DEF CacheInit, CacheIInv, CacheTypeOK, Mending, Parts

\* Steps that touch neither the file nor a writer.
LEMMA ReadersStep ==
  ASSUME CacheIInv, NEW t \in Threads,
         Enter(t) \/ Lookup(t) \/ Probe(t) \/ Load(t) \/ Leave(t)
  PROVE  CacheIInv'
<1>1. CacheTypeOK'
  BY WorkersAssumption
     DEF CacheIInv, CacheTypeOK, Enter, Lookup, Probe, Load, Leave, At
<1>2. \A u \in Threads : at[u] = "write" => at'[u] = "write"
  BY DEF CacheIInv, CacheTypeOK, Enter, Lookup, Probe, Load, Leave, At
<1>3. UNCHANGED <<exists, parts, written, orphaned>>
  BY DEF Enter, Lookup, Probe, Load, Leave
<1>4. Mending'
  BY <1>2, <1>3 DEF CacheIInv, Mending, Covers
<1>5. QED
  BY <1>1, <1>4 DEF CacheIInv

\* The thread that truncates the file is the one to mend it.
LEMMA OpenStep ==
  ASSUME CacheIInv, NEW t \in Threads, OpenForWriting(t)
  PROVE  CacheIInv'
<1>1. CacheTypeOK'
  BY WorkersAssumption DEF CacheIInv, CacheTypeOK, OpenForWriting, At
<1>2. at'[t] = "write" /\ written'[t] = 0
  BY DEF CacheIInv, CacheTypeOK, OpenForWriting, At
<1>3. Covers(t)'
  BY <1>2 DEF Covers
<1>4. QED
  BY <1>1, <1>3 DEF CacheIInv, Mending

\* A part is added, by whichever thread.
LEMMA WriteStep ==
  ASSUME CacheIInv, NEW t \in Threads, WritePart(t)
  PROVE  CacheIInv'
<1>1. written[t] \in Nat /\ written[t] + 1 \in Parts
  BY WorkersAssumption DEF CacheIInv, CacheTypeOK, WritePart, Parts
<1>2. CacheTypeOK'
  <2>1. written[t] + 1 \in 0 .. NumParts
    BY <1>1, WorkersAssumption DEF Parts
  <2>2. written' \in [Threads -> 0 .. NumParts]
    BY <2>1 DEF CacheIInv, CacheTypeOK, WritePart
  <2>3. parts' \subseteq Parts
    BY <1>1 DEF CacheIInv, CacheTypeOK, WritePart
  <2>4. QED
    BY <2>2, <2>3, Zenon DEF CacheIInv, CacheTypeOK, WritePart
<1>3. ASSUME NEW u \in Threads, Covers(u) PROVE Covers(u)'
  <2>1. CASE u = t
    <3>1. written'[t] = written[t] + 1 /\ at'[t] = "write"
      BY DEF CacheIInv, CacheTypeOK, WritePart
    <3>2. 1 .. written[t] + 1 = (1 .. written[t]) \cup {written[t] + 1}
      BY <1>1
    <3>3. QED
      BY <1>3, <2>1, <3>1, <3>2 DEF Covers, WritePart
  <2>2. CASE u # t
    BY <1>3, <2>2 DEF CacheIInv, CacheTypeOK, Covers, WritePart
  <2>3. QED
    BY <2>1, <2>2
<1>4. parts = Parts => parts' = Parts
  BY <1>1 DEF WritePart
<1>5. Mending'
  BY <1>3, <1>4 DEF CacheIInv, Mending, WritePart
<1>6. QED
  BY <1>2, <1>5 DEF CacheIInv

\* A thread that has lost nothing leaves a whole file.
LEMMA CloseStep ==
  ASSUME CacheIInv, NEW t \in Threads, Close(t)
  PROVE  CacheIInv'
<1>1. CacheTypeOK'
  BY WorkersAssumption DEF CacheIInv, CacheTypeOK, Close, At
<1>2. Covers(t) => parts = Parts
  BY DEF CacheIInv, CacheTypeOK, Close, Covers, Parts
<1>3. \A u \in Threads \ {t} : Covers(u) => Covers(u)'
  BY DEF CacheIInv, CacheTypeOK, Close, Covers, At
<1>4. Mending'
  BY <1>2, <1>3 DEF CacheIInv, Mending, Close
<1>5. QED
  BY <1>1, <1>4 DEF CacheIInv

\* Either the writer survives, or the file is orphaned.
LEMMA CrashStep ==
  ASSUME CacheIInv, NEW w \in Workers, CrashCache(w)
  PROVE  CacheIInv'
<1>1. CacheTypeOK'
  <2>1. written' \in [Threads -> 0 .. NumParts]
    BY WorkersAssumption DEF CacheIInv, CacheTypeOK, CrashCache
  <2>2. orphaned' \in BOOLEAN
    BY Zenon DEF CacheIInv, CacheTypeOK, CrashCache
  <2>3. faults' \in Nat
    BY DEF CacheIInv, CacheTypeOK, CrashCache
  <2>4. at' \in [Threads -> {"out", "lookup", "probe", "load", "compute",
                             "write", "returned", "raised"}]
    BY DEF CacheIInv, CacheTypeOK, CrashCache
  <2>5. cached' \in [Workers -> BOOLEAN] /\ UNCHANGED <<exists, parts>>
    BY DEF CacheIInv, CacheTypeOK, CrashCache
  <2>6. QED
    BY <2>1, <2>2, <2>3, <2>4, <2>5, Zenon DEF CacheIInv, CacheTypeOK
<1>2. ASSUME NEW u \in Threads, Covers(u) PROVE orphaned' \/ Covers(u)'
  <2>1. CASE Home[u] = w
    BY <1>2, <2>1 DEF CrashCache, Covers
  <2>2. CASE Home[u] # w
    BY <1>2, <2>2 DEF CrashCache, Covers
  <2>3. QED
    BY <2>1, <2>2
<1>3. orphaned => orphaned'
  BY DEF CrashCache
<1>4. Mending'
  BY <1>2, <1>3 DEF CacheIInv, Mending, CrashCache
<1>5. QED
  BY <1>1, <1>4 DEF CacheIInv

\* A thread that fails while it writes leaves an orphaned file, any other none.
LEMMA IOFailsStep ==
  ASSUME CacheIInv, NEW t \in Threads, IOFails(t)
  PROVE  CacheIInv'
<1>1. CacheTypeOK'
  <2>1. orphaned' \in BOOLEAN
    BY Zenon DEF IOFails
  <2>2. at' \in [Threads -> {"out", "lookup", "probe", "load", "compute",
                             "write", "returned", "raised"}]
    BY DEF CacheIInv, CacheTypeOK, IOFails, At
  <2>3. UNCHANGED <<exists, parts, cached, written>> /\ faults' \in Nat
    BY DEF CacheIInv, CacheTypeOK, IOFails
  <2>4. QED
    BY <2>1, <2>2, <2>3, Zenon DEF CacheIInv, CacheTypeOK
<1>2. ASSUME NEW u \in Threads, Covers(u) PROVE orphaned' \/ Covers(u)'
  <2>1. CASE u = t
    BY <1>2, <2>1 DEF IOFails, Covers
  <2>2. CASE u # t
    BY <1>2, <2>2 DEF CacheIInv, CacheTypeOK, IOFails, Covers, At
  <2>3. QED
    BY <2>1, <2>2
<1>3. orphaned => orphaned'
  BY DEF IOFails
<1>4. Mending'
  BY <1>2, <1>3 DEF CacheIInv, Mending, IOFails
<1>5. QED
  BY <1>1, <1>4 DEF CacheIInv

LEMMA CacheNextInvariant == CacheIInv /\ [CacheNext]_cacheVars => CacheIInv'
<1> SUFFICES ASSUME CacheIInv, [CacheNext]_cacheVars PROVE CacheIInv'
  OBVIOUS
<1>1. ASSUME NEW t \in Threads, Enter(t) \/ GetCodebook(t) \/ Leave(t)
      PROVE  CacheIInv'
  BY <1>1, ReadersStep, OpenStep, WriteStep, CloseStep, IOFailsStep DEF GetCodebook
<1>2. ASSUME NEW w \in Workers, CrashCache(w) PROVE CacheIInv'
  BY <1>2, CrashStep
<1>3. CASE UNCHANGED cacheVars
  BY <1>3 DEF cacheVars, CacheIInv, CacheTypeOK, Mending, Covers
<1>4. QED
  BY <1>1, <1>2, <1>3 DEF CacheNext

LEMMA CacheInvariance == CacheSpec => []CacheIInv
  BY CacheInitInvariant, CacheNextInvariant, PTL DEF CacheSpec

\* codebook.py:154-157: without a lock, and with the file written in place, a
\* reader meets part of a file only while a thread writes, or after it died.
THEOREM CacheTorn == CacheSpec => []TornOnlyWhileWriting
<1>1. CacheIInv => TornOnlyWhileWriting
  BY DEF CacheIInv, Mending, Covers, TornOnlyWhileWriting, Torn
<1>2. QED
  BY <1>1, CacheInvariance, PTL

-----------------------------------------------------------------------------
(* The slot table, whose threads go through the codebook cache.            *)

\* The entry of the table that the pass of a thread is about.
Slot(t) == slots[Home[t]][key[t]]
Generation(t) == generation[Home[t]][key[t]]

\* A pass has its state from now or from before.
GotBefore == \A t \in Threads : phase[t] = "use" => got[t] <= Generation(t)

\* A state whose key has not been released is still the one in the table.
HeldIsCurrent ==
    \A t \in Threads :
        phase[t] = "use" /\ got[t] = Generation(t) => Slot(t) = held[t]

\* Nobody adds the state that a thread is building.
BuildsMissing == \A t \in Threads : phase[t] = "construct" => Slot(t) = None

\* A state is in one place of one table.
SlotsDistinct ==
    \A v, w \in Workers, k, l \in Keys :
        slots[v][k] # None /\ slots[v][k] = slots[w][l] => v = w /\ k = l

\* Who uses a state that is in a table got it from there, after the last
\* release of the key.
TableKnowsUsers ==
    \A t \in Threads, w \in Workers, k \in Keys :
        held[t] # None /\ slots[w][k] = held[t]
        => Home[t] = w /\ key[t] = k /\ got[t] = generation[w][k]

SlotTypeOK ==
    /\ slots \in [Workers -> [Keys -> States \cup {None}]]
    /\ lock \in [Workers -> Threads \cup {Unlocked}]
    /\ phase \in [Threads -> {"idle", "allocate", "construct", "use"}]
    /\ key \in [Threads -> Keys]
    /\ held \in [Threads -> States \cup {None}]
    /\ got \in [Threads -> 0 .. MaxReleases]
    /\ generation \in [Workers -> [Keys -> 0 .. MaxReleases]]
    /\ tokens \in [States -> SUBSET (0 .. MaxReleases)]

\* What TypeOK says of the place of a thread, in its three parts.
BuildsInCodebook == \A t \in Threads : at[t] # "out" <=> phase[t] = "construct"
BuildsLocked == \A t \in Threads : phase[t] = "construct" <=> lock[Home[t]] = t
UsesHeld == \A t \in Threads : held[t] # None <=> phase[t] = "use"

\* What the safety of a table takes, when the passes and the lock are right.
TablesRight == GotBefore /\ HeldIsCurrent /\ BuildsMissing /\ OneStatePerKey
                 /\ SlotsDistinct /\ TableKnowsUsers /\ NoLateTokens

PlacesRight == BuildsInCodebook /\ BuildsLocked /\ UsesHeld

SlotIInv == SlotTypeOK /\ PlacesRight /\ TablesRight

IInv == CacheIInv /\ SlotIInv

USE SlotsAssumption, WorkersAssumption

LEMMA TypeOKParts == CacheTypeOK /\ SlotTypeOK /\ PlacesRight <=> TypeOK
  BY Zenon DEF TypeOK, SlotTypeOK, PlacesRight, BuildsInCodebook,
               BuildsLocked, UsesHeld

-----------------------------------------------------------------------------
(* What each action does with the cache is a step of its callers.          *)
LEMMA CacheStep ==
  ASSUME IInv, [Next]_vars
  PROVE  [CacheNext]_cacheVars
<1>1. ASSUME NEW t \in Threads, NEW k \in Keys, Get(t, k)
      PROVE  UNCHANGED cacheVars
  BY <1>1 DEF Get
<1>2. ASSUME NEW t \in Threads, Allocate(t)
      PROVE  Enter(t) \/ UNCHANGED cacheVars
  <2>1. at[t] = "out"
    BY <1>2 DEF Allocate, IInv, SlotIInv, PlacesRight, BuildsInCodebook
  <2>2. QED
    BY <1>2, <2>1 DEF Allocate, Enter, cacheVars
<1>3. ASSUME NEW t \in Threads, Construct(t)
      PROVE  GetCodebook(t)
  BY <1>3 DEF Construct
<1>4. ASSUME NEW t \in Threads, Constructed(t) \/ ConstructFails(t)
      PROVE  Leave(t)
  BY <1>4 DEF Constructed, ConstructFails, Leave
<1>5. ASSUME NEW t \in Threads, Capture(t)
      PROVE  UNCHANGED cacheVars
  BY <1>5 DEF Capture
<1>6. ASSUME NEW w \in Workers,
             ResetAll(w) \/ \E k \in Keys : Release(w, k)
      PROVE  UNCHANGED cacheVars
  BY <1>6 DEF ResetAll, Release
<1>7. ASSUME NEW w \in Workers, Crash(w)
      PROVE  CrashCache(w)
  BY <1>7 DEF Crash
<1>8. UNCHANGED vars => UNCHANGED cacheVars
  BY DEF vars
<1>9. QED
  BY <1>1, <1>2, <1>3, <1>4, <1>5, <1>6, <1>7, <1>8
     DEF Next, ForwardPass, CacheNext

-----------------------------------------------------------------------------
(* Each action preserves what is said of the table, the passes and the     *)
(* lock.                                                                   *)

\* A thread that has got the state of its key from the table, by get() or by
\* allocate(), holds the one that the others hold.
LEMMA HoldStep ==
  ASSUME SlotIInv, NEW t \in Threads, NEW k \in Keys,
         phase[t] \in {"idle", "allocate"},
         key' = [key EXCEPT ![t] = k],
         slots[Home[t]][k] # None, Hold(t, slots[Home[t]][k]),
         UNCHANGED <<at, slots, lock, generation, tokens>>
  PROVE  SlotIInv'
<1>0. /\ SlotTypeOK
      /\ key'[t] = k /\ Home[t] \in Workers
      /\ held' = [held EXCEPT ![t] = slots[Home[t]][k]]
      /\ got' = [got EXCEPT ![t] = generation[Home[t]][k]]
      /\ phase' = [phase EXCEPT ![t] = "use"]
  BY DEF SlotIInv, SlotTypeOK, Hold, Goto
<1>1. /\ held'[t] = slots[Home[t]][k]
      /\ got'[t] = generation[Home[t]][k]
      /\ phase'[t] = "use"
      /\ slots[Home[t]][k] \in States
      /\ generation[Home[t]][k] \in 0 .. MaxReleases
  BY <1>0 DEF SlotTypeOK
<1>2. \A u \in Threads \ {t} :
        held'[u] = held[u] /\ got'[u] = got[u] /\ phase'[u] = phase[u]
          /\ key'[u] = key[u]
  BY <1>0
<1>3. SlotTypeOK'
  BY <1>0, <1>1 DEF SlotTypeOK
<1>4. PlacesRight'
  BY <1>1, <1>2 DEF SlotIInv, PlacesRight, BuildsInCodebook, BuildsLocked,
     UsesHeld
<1>5. GotBefore' /\ HeldIsCurrent' /\ BuildsMissing'
  BY <1>0, <1>1, <1>2 DEF SlotIInv, SlotTypeOK, TablesRight, GotBefore, HeldIsCurrent,
     BuildsMissing, Slot, Generation
<1>6. OneStatePerKey'
  BY <1>0, <1>1, <1>2 DEF SlotIInv, TablesRight, HeldIsCurrent, OneStatePerKey,
     Slot, Generation
<1>7. TableKnowsUsers'
  BY <1>0, <1>1, <1>2 DEF SlotIInv, TablesRight, TableKnowsUsers, SlotsDistinct
<1>8. SlotsDistinct' /\ NoLateTokens'
  BY SMTT(30) DEF SlotIInv, TablesRight, SlotsDistinct, NoLateTokens
<1>9. QED
  BY <1>3, <1>4, <1>5, <1>6, <1>7, <1>8 DEF SlotIInv, TablesRight

LEMMA GetStep ==
  ASSUME SlotIInv, NEW t \in Threads, NEW k \in Keys, Get(t, k)
  PROVE  SlotIInv'
<1>1. CASE slots[Home[t]][k] # None
  BY <1>1, HoldStep DEF Get, cacheVars
<1>2. CASE slots[Home[t]][k] = None
  <2>0. /\ key' = [key EXCEPT ![t] = k] /\ phase' = [phase EXCEPT ![t] = "allocate"]
        /\ phase[t] = "idle"
        /\ UNCHANGED <<at, held, got, slots, lock, generation, tokens>>
    BY <1>2 DEF Get, Goto, cacheVars
  <2>1. /\ \A u \in Threads \ {t} : phase'[u] = phase[u] /\ key'[u] = key[u]
        /\ phase'[t] = "allocate" /\ held[t] = None
    BY <2>0 DEF SlotIInv, SlotTypeOK, PlacesRight, UsesHeld
  <2>2. SlotTypeOK'
    BY <2>0 DEF SlotIInv, SlotTypeOK
  <2>3. PlacesRight'
    BY <2>0, <2>1 DEF SlotIInv, PlacesRight, BuildsInCodebook, BuildsLocked,
       UsesHeld
  <2>4. TablesRight'
    BY <2>0, <2>1 DEF SlotIInv, TablesRight, GotBefore, HeldIsCurrent,
       BuildsMissing, OneStatePerKey, SlotsDistinct, TableKnowsUsers,
       NoLateTokens, Slot, Generation
  <2>5. QED
    BY <2>2, <2>3, <2>4 DEF SlotIInv
<1>3. QED
  BY <1>1, <1>2

\* The thread that finds nothing takes the lock, so that nobody else builds.
LEMMA AllocateStep ==
  ASSUME CacheTypeOK, SlotIInv, NEW t \in Threads, Allocate(t)
  PROVE  SlotIInv'
<1>1. CASE slots[Home[t]][key[t]] # None
  <2>1. key' = [key EXCEPT ![t] = key[t]] /\ key[t] \in Keys
    BY DEF Allocate, SlotIInv, SlotTypeOK
  <2>2. QED
    BY <1>1, <2>1, HoldStep DEF Allocate
<1>2. CASE slots[Home[t]][key[t]] = None
  <2>0. /\ lock' = [lock EXCEPT ![Home[t]] = t]
        /\ phase' = [phase EXCEPT ![t] = "construct"]
        /\ at' = [at EXCEPT ![t] = "lookup"]
        /\ phase[t] = "allocate" /\ lock[Home[t]] = Unlocked
        /\ UNCHANGED <<key, held, got, slots, generation, tokens>>
    BY <1>2 DEF Allocate, Goto, At
  <2>1. /\ \A u \in Threads \ {t} : phase'[u] = phase[u] /\ at'[u] = at[u]
        /\ phase'[t] = "construct" /\ at'[t] = "lookup" /\ held[t] = None
        /\ lock'[Home[t]] = t
        /\ \A w \in Workers \ {Home[t]} : lock'[w] = lock[w]
    BY <2>0 DEF CacheTypeOK, SlotIInv, SlotTypeOK, PlacesRight, UsesHeld
  <2>2. SlotTypeOK'
    BY <2>0 DEF SlotIInv, SlotTypeOK
  <2>3. BuildsInCodebook' /\ UsesHeld'
    BY <2>0, <2>1 DEF SlotIInv, PlacesRight, BuildsInCodebook, UsesHeld
  <2>4. BuildsLocked'
    <3>1. \A u \in Threads : u # Unlocked
      OBVIOUS
    <3>2. QED
      BY <2>0, <2>1, <3>1 DEF SlotIInv, PlacesRight, BuildsLocked
  <2>5. TablesRight'
    BY <1>2, <2>0, <2>1 DEF SlotIInv, TablesRight, GotBefore, HeldIsCurrent,
       BuildsMissing, OneStatePerKey, SlotsDistinct, TableKnowsUsers,
       NoLateTokens, Slot, Generation
  <2>6. QED
    BY <2>2, <2>3, <2>4, <2>5 DEF SlotIInv, PlacesRight
<1>3. QED
  BY <1>1, <1>2

\* In get_codebook() a thread goes from place to place, and never out of it.
LEMMA ConstructStep ==
  ASSUME CacheTypeOK, SlotIInv, NEW t \in Threads, Construct(t)
  PROVE  SlotIInv'
<1>1. at[t] # "out" /\ at'[t] # "out"
  BY DEF CacheTypeOK, Construct, GetCodebook, Lookup, Probe, Load,
         OpenForWriting, WritePart, Close, IOFails, At
<1>2. \A u \in Threads \ {t} : at'[u] = at[u]
  BY DEF CacheTypeOK, Construct, GetCodebook, Lookup, Probe, Load,
         OpenForWriting, WritePart, Close, IOFails, At
<1>3. UNCHANGED slotVars
  BY DEF Construct
<1>4. BuildsInCodebook'
  BY <1>1, <1>2, <1>3 DEF SlotIInv, PlacesRight, BuildsInCodebook, slotVars
<1>5. QED
  BY <1>3, <1>4 DEF slotVars, SlotIInv, SlotTypeOK, PlacesRight, BuildsLocked,
     UsesHeld, TablesRight, GotBefore, HeldIsCurrent, BuildsMissing,
     OneStatePerKey, SlotsDistinct, TableKnowsUsers, NoLateTokens, Slot,
     Generation

\* What is new in the table nobody refers to, and nobody else has built.
LEMMA ConstructedStep ==
  ASSUME CacheTypeOK, SlotIInv, NEW t \in Threads, Constructed(t)
  PROVE  SlotIInv'
<1>1. PICK s \in Garbage :
        /\ slots' = [slots EXCEPT ![Home[t]][key[t]] = s]
        /\ tokens' = [tokens EXCEPT ![s] = {}]
        /\ Hold(t, s)
  BY DEF Constructed
<1>2. /\ s \in States /\ s # None
      /\ \A u \in Threads : held[u] # s
      /\ \A w \in Workers, k \in Keys : slots[w][k] # s
  BY <1>1 DEF Garbage, Referred, None, States
<1>3. /\ at' = [at EXCEPT ![t] = "out"]
      /\ lock' = [lock EXCEPT ![Home[t]] = Unlocked]
      /\ held' = [held EXCEPT ![t] = s]
      /\ got' = [got EXCEPT ![t] = Generation(t)]
      /\ phase' = [phase EXCEPT ![t] = "use"]
      /\ phase[t] = "construct" /\ UNCHANGED <<key, generation>>
  BY <1>1 DEF Constructed, Hold, Goto, At, Generation
<1>4. /\ held'[t] = s /\ got'[t] = Generation(t) /\ phase'[t] = "use"
      /\ at'[t] = "out" /\ lock'[Home[t]] = Unlocked
      /\ Slot(t) = None /\ Slot(t)' = s
      /\ Home[t] \in Workers /\ key[t] \in Keys
  BY <1>1, <1>3 DEF CacheTypeOK, SlotIInv, SlotTypeOK, TablesRight,
     BuildsMissing, Slot
<1>5. \A u \in Threads \ {t} :
        /\ held'[u] = held[u] /\ got'[u] = got[u] /\ phase'[u] = phase[u]
        /\ at'[u] = at[u]
  BY <1>3 DEF CacheTypeOK, SlotIInv, SlotTypeOK
<1>6. \A w \in Workers, k \in Keys :
        \/ w = Home[t] /\ k = key[t] /\ slots'[w][k] = s
        \/ ~ (w = Home[t] /\ k = key[t]) /\ slots'[w][k] = slots[w][k]
  BY <1>1, <1>4 DEF SlotIInv, SlotTypeOK
<1>7. SlotTypeOK'
  <2>1. slots' \in [Workers -> [Keys -> States \cup {None}]]
    BY <1>1, <1>2, <1>4 DEF SlotIInv, SlotTypeOK
  <2>2. got' \in [Threads -> 0 .. MaxReleases]
    BY <1>3, <1>4 DEF SlotIInv, SlotTypeOK, Generation
  <2>3. tokens' \in [States -> SUBSET (0 .. MaxReleases)]
    BY <1>1 DEF SlotIInv, SlotTypeOK
  <2>4. QED
    BY <1>2, <1>3, <2>1, <2>2, <2>3 DEF SlotIInv, SlotTypeOK
<1>8. BuildsInCodebook' /\ UsesHeld'
  BY <1>2, <1>4, <1>5 DEF SlotIInv, PlacesRight, BuildsInCodebook, UsesHeld
<1>9. BuildsLocked'
  <2>1. \A w \in Workers \ {Home[t]} : lock'[w] = lock[w]
    BY <1>3 DEF SlotIInv, SlotTypeOK
  <2>2. lock[Home[t]] = t
    BY <1>3 DEF SlotIInv, PlacesRight, BuildsLocked
  <2>3. QED
    BY <1>4, <1>5, <2>1, <2>2 DEF SlotIInv, PlacesRight, BuildsLocked
\* Of the same key nobody else has a state, and nobody else builds.
<1>10. \A u \in Threads \ {t} :
         Home[u] = Home[t] /\ key[u] = key[t]
         => /\ phase[u] # "construct"
            /\ ~ (phase[u] = "use" /\ got[u] = Generation(t))
  BY <1>3, <1>4 DEF SlotIInv, PlacesRight, BuildsLocked, TablesRight,
     HeldIsCurrent, UsesHeld, Slot, Generation
<1>11. \A u \in Threads \ {t} :
         ~ (Home[u] = Home[t] /\ key[u] = key[t]) => Slot(u)' = Slot(u)
  BY <1>3, <1>6 DEF Slot, SlotIInv, SlotTypeOK
<1>12. GotBefore'
  BY <1>3, <1>4, <1>5 DEF SlotIInv, SlotTypeOK, TablesRight, GotBefore,
     Generation
<1>13. HeldIsCurrent' /\ BuildsMissing' /\ OneStatePerKey'
  BY <1>3, <1>4, <1>5, <1>10, <1>11 DEF SlotIInv, TablesRight, HeldIsCurrent,
     BuildsMissing, OneStatePerKey, Generation
<1>14. SlotsDistinct'
  BY <1>2, <1>6 DEF SlotIInv, TablesRight, SlotsDistinct
<1>15. TableKnowsUsers'
  BY <1>2, <1>3, <1>4, <1>5, <1>6 DEF SlotIInv, TablesRight, TableKnowsUsers,
     Generation
<1>16. NoLateTokens'
  <2>1. tokens'[s] = {} /\ \A r \in States \ {s} : tokens'[r] = tokens[r]
    BY <1>1, <1>2 DEF SlotIInv, SlotTypeOK
  <2>2. QED
    BY <1>2, <1>3, <1>6, <2>1 DEF SlotIInv, SlotTypeOK, TablesRight, NoLateTokens
<1>17. QED
  BY <1>7, <1>8, <1>9, <1>12, <1>13, <1>14, <1>15, <1>16
     DEF SlotIInv, PlacesRight, TablesRight

LEMMA ConstructFailsStep ==
  ASSUME CacheTypeOK, SlotIInv, NEW t \in Threads, ConstructFails(t)
  PROVE  SlotIInv'
<1>1. /\ at' = [at EXCEPT ![t] = "out"]
      /\ lock' = [lock EXCEPT ![Home[t]] = Unlocked]
      /\ phase' = [phase EXCEPT ![t] = "idle"]
      /\ phase[t] = "construct"
      /\ UNCHANGED <<slots, key, held, got, generation, tokens>>
  BY DEF ConstructFails, Goto, At
<1>2. /\ phase'[t] = "idle" /\ at'[t] = "out" /\ lock'[Home[t]] = Unlocked
      /\ lock[Home[t]] = t /\ held[t] = None
      /\ \A w \in Workers \ {Home[t]} : lock'[w] = lock[w]
      /\ \A u \in Threads \ {t} : phase'[u] = phase[u] /\ at'[u] = at[u]
  BY <1>1 DEF CacheTypeOK, SlotIInv, SlotTypeOK, PlacesRight, BuildsLocked,
     UsesHeld
<1>3. SlotTypeOK'
  BY <1>1 DEF SlotIInv, SlotTypeOK
<1>4. PlacesRight'
  BY <1>1, <1>2 DEF SlotIInv, PlacesRight, BuildsInCodebook, BuildsLocked,
     UsesHeld
<1>5. TablesRight'
  BY <1>1, <1>2 DEF SlotIInv, TablesRight, GotBefore, HeldIsCurrent,
     BuildsMissing, OneStatePerKey, SlotsDistinct, TableKnowsUsers,
     NoLateTokens, Slot, Generation
<1>6. QED
  BY <1>3, <1>4, <1>5 DEF SlotIInv

\* A state that is still in the table has the generation of the pass.
LEMMA CaptureStep ==
  ASSUME SlotIInv, NEW t \in Threads, Capture(t)
  PROVE  SlotIInv'
<1>1. /\ tokens' = [tokens EXCEPT ![held[t]] = @ \cup {got[t]}]
      /\ held' = [held EXCEPT ![t] = None]
      /\ got' = [got EXCEPT ![t] = 0]
      /\ phase' = [phase EXCEPT ![t] = "idle"]
      /\ phase[t] = "use"
      /\ UNCHANGED <<at, key, slots, lock, generation>>
  BY DEF Capture, Goto, cacheVars
<1>2. /\ phase'[t] = "idle" /\ held'[t] = None
      /\ held[t] # None /\ held[t] \in States
      /\ \A u \in Threads \ {t} :
           phase'[u] = phase[u] /\ held'[u] = held[u] /\ got'[u] = got[u]
  BY <1>1 DEF SlotIInv, SlotTypeOK, PlacesRight, UsesHeld
<1>3. SlotTypeOK'
  BY <1>1, <1>2 DEF SlotIInv, SlotTypeOK, None
<1>4. PlacesRight'
  BY <1>1, <1>2 DEF SlotIInv, PlacesRight, BuildsInCodebook, BuildsLocked,
     UsesHeld
<1>5. GotBefore' /\ HeldIsCurrent' /\ BuildsMissing' /\ OneStatePerKey'
        /\ SlotsDistinct' /\ TableKnowsUsers'
  BY <1>1, <1>2 DEF SlotIInv, TablesRight, GotBefore, HeldIsCurrent,
     BuildsMissing, OneStatePerKey, SlotsDistinct, TableKnowsUsers, Slot,
     Generation
<1>6. NoLateTokens'
  <2>1. tokens'[held[t]] = tokens[held[t]] \cup {got[t]}
    BY <1>1, <1>2 DEF SlotIInv, SlotTypeOK
  <2>2. \A r \in States \ {held[t]} : tokens'[r] = tokens[r]
    BY <1>1, <1>2 DEF SlotIInv, SlotTypeOK
  <2>3. QED
    BY <1>1, <1>2, <2>1, <2>2 DEF SlotIInv, SlotTypeOK, TablesRight,
       TableKnowsUsers, NoLateTokens
<1>7. QED
  BY <1>3, <1>4, <1>5, <1>6 DEF SlotIInv, TablesRight

-----------------------------------------------------------------------------
(* release(), reset_all() and a crash empty entries of a table; in a       *)
(* generation that has passed, no pass holds the state of the table.       *)

LEMMA ReleaseStep ==
  ASSUME SlotIInv, NEW w \in Workers, NEW k \in Keys, Release(w, k)
  PROVE  SlotIInv'
<1>1. /\ slots[w][k] # None /\ slots[w][k] \in States
      /\ generation[w][k] < MaxReleases
      /\ tokens' = [tokens EXCEPT ![slots[w][k]] = {}]
      /\ slots' = [slots EXCEPT ![w][k] = None]
      /\ generation' = [generation EXCEPT ![w][k] = @ + 1]
      /\ UNCHANGED <<at, lock, phase, key, held, got>>
  BY DEF Release, cacheVars, SlotIInv, SlotTypeOK
<1>2. \A v \in Workers, l \in Keys :
        \/ v = w /\ l = k /\ slots'[v][l] = None
                 /\ generation'[v][l] = generation[v][l] + 1
        \/ ~ (v = w /\ l = k) /\ slots'[v][l] = slots[v][l]
                              /\ generation'[v][l] = generation[v][l]
  BY <1>1 DEF SlotIInv, SlotTypeOK
<1>3. SlotTypeOK'
  <2>1. generation' \in [Workers -> [Keys -> 0 .. MaxReleases]]
    BY <1>1 DEF SlotIInv, SlotTypeOK
  <2>2. slots' \in [Workers -> [Keys -> States \cup {None}]]
    BY <1>1 DEF SlotIInv, SlotTypeOK
  <2>3. tokens' \in [States -> SUBSET (0 .. MaxReleases)]
    BY <1>1 DEF SlotIInv, SlotTypeOK
  <2>4. QED
    BY <1>1, <2>1, <2>2, <2>3 DEF SlotIInv, SlotTypeOK
<1>4. PlacesRight'
  BY <1>1 DEF SlotIInv, PlacesRight, BuildsInCodebook, BuildsLocked, UsesHeld
<1>5. \A t \in Threads :
        /\ Home[t] \in Workers /\ key[t] \in Keys
        /\ Generation(t) \in Nat /\ got[t] \in Nat
        /\ \/ Slot(t)' = None /\ Generation(t)' = Generation(t) + 1
           \/ Slot(t)' = Slot(t) /\ Generation(t)' = Generation(t)
  BY <1>1, <1>2 DEF SlotIInv, SlotTypeOK, Slot, Generation
<1>6. GotBefore' /\ HeldIsCurrent' /\ BuildsMissing'
  BY <1>1, <1>5 DEF SlotIInv, TablesRight, GotBefore, HeldIsCurrent,
     BuildsMissing
<1>7. OneStatePerKey' /\ SlotsDistinct' /\ TableKnowsUsers'
  BY <1>1, <1>2 DEF SlotIInv, TablesRight, OneStatePerKey, SlotsDistinct,
     TableKnowsUsers
<1>8. NoLateTokens'
  <2>1. \A r \in States : tokens'[r] = {} \/ tokens'[r] = tokens[r]
    BY <1>1 DEF SlotIInv, SlotTypeOK
  <2>2. ASSUME NEW v \in Workers, NEW l \in Keys, slots'[v][l] # None
        PROVE  tokens'[slots'[v][l]] \subseteq {generation'[v][l]}
    <3>1. /\ slots'[v][l] = slots[v][l] /\ slots[v][l] \in States
          /\ generation'[v][l] = generation[v][l]
      BY <1>2, <2>2 DEF SlotIInv, SlotTypeOK
    <3>2. tokens[slots[v][l]] \subseteq {generation[v][l]}
      BY <2>2, <3>1 DEF SlotIInv, TablesRight, NoLateTokens
    <3>3. QED
      BY <2>1, <3>1, <3>2
  <2>3. QED
    BY <2>2 DEF NoLateTokens
<1>9. QED
  BY <1>3, <1>4, <1>6, <1>7, <1>8 DEF SlotIInv, TablesRight

LEMMA ResetAllStep ==
  ASSUME SlotIInv, NEW w \in Workers, ResetAll(w)
  PROVE  SlotIInv'
<1>1. /\ \A k \in Keys : generation[w][k] < MaxReleases
      /\ tokens' = [s \in States |->
                      IF \E k \in Keys : slots[w][k] = s THEN {} ELSE tokens[s]]
      /\ slots' = [slots EXCEPT ![w] = [k \in Keys |-> None]]
      /\ generation' = [generation EXCEPT ![w] = [k \in Keys |-> @[k] + 1]]
      /\ UNCHANGED <<at, lock, phase, key, held, got>>
  BY DEF ResetAll, cacheVars
<1>2. \A v \in Workers, l \in Keys :
        \/ v = w /\ slots'[v][l] = None
                 /\ generation'[v][l] = generation[v][l] + 1
        \/ v # w /\ slots'[v][l] = slots[v][l]
                 /\ generation'[v][l] = generation[v][l]
  BY <1>1 DEF SlotIInv, SlotTypeOK
<1>3. SlotTypeOK'
  <2>1. [k \in Keys |-> generation[w][k] + 1] \in [Keys -> 0 .. MaxReleases]
    BY <1>1 DEF SlotIInv, SlotTypeOK
  <2>2. generation' \in [Workers -> [Keys -> 0 .. MaxReleases]]
    BY <1>1, <2>1 DEF SlotIInv, SlotTypeOK
  <2>3. slots' \in [Workers -> [Keys -> States \cup {None}]]
    BY <1>1 DEF SlotIInv, SlotTypeOK
  <2>4. tokens' \in [States -> SUBSET (0 .. MaxReleases)]
    BY <1>1 DEF SlotIInv, SlotTypeOK
  <2>5. QED
    BY <1>1, <2>2, <2>3, <2>4 DEF SlotIInv, SlotTypeOK
<1>4. PlacesRight'
  BY <1>1 DEF SlotIInv, PlacesRight, BuildsInCodebook, BuildsLocked, UsesHeld
<1>5. \A t \in Threads :
        /\ Generation(t) \in Nat /\ got[t] \in Nat
        /\ \/ Slot(t)' = None /\ Generation(t)' = Generation(t) + 1
           \/ Slot(t)' = Slot(t) /\ Generation(t)' = Generation(t)
  BY <1>1, <1>2 DEF SlotIInv, SlotTypeOK, Slot, Generation
<1>6. GotBefore' /\ HeldIsCurrent' /\ BuildsMissing'
  BY <1>1, <1>5 DEF SlotIInv, TablesRight, GotBefore, HeldIsCurrent,
     BuildsMissing
<1>7. OneStatePerKey' /\ SlotsDistinct' /\ TableKnowsUsers'
  BY <1>1, <1>2 DEF SlotIInv, TablesRight, OneStatePerKey, SlotsDistinct,
     TableKnowsUsers
<1>8. NoLateTokens'
  <2>1. \A r \in States : tokens'[r] = {} \/ tokens'[r] = tokens[r]
    BY <1>1
  <2>2. ASSUME NEW v \in Workers, NEW l \in Keys, slots'[v][l] # None
        PROVE  tokens'[slots'[v][l]] \subseteq {generation'[v][l]}
    <3>1. /\ slots'[v][l] = slots[v][l] /\ slots[v][l] \in States
          /\ generation'[v][l] = generation[v][l]
      BY <1>2, <2>2 DEF SlotIInv, SlotTypeOK
    <3>2. tokens[slots[v][l]] \subseteq {generation[v][l]}
      BY <2>2, <3>1 DEF SlotIInv, TablesRight, NoLateTokens
    <3>3. QED
      BY <2>1, <3>1, <3>2
  <2>3. QED
    BY <2>2 DEF NoLateTokens
<1>9. QED
  BY <1>3, <1>4, <1>6, <1>7, <1>8 DEF SlotIInv, TablesRight

LEMMA CrashWorkerStep ==
  ASSUME CacheTypeOK, SlotIInv, NEW w \in Workers, Crash(w)
  PROVE  SlotIInv'
<1>1. /\ at' = [t \in Threads |-> IF Home[t] = w THEN "out" ELSE at[t]]
      /\ slots' = [slots EXCEPT ![w] = [k \in Keys |-> None]]
      /\ lock' = [lock EXCEPT ![w] = Unlocked]
      /\ phase' = [t \in Threads |-> IF Home[t] = w THEN "idle" ELSE phase[t]]
      /\ held' = [t \in Threads |-> IF Home[t] = w THEN None ELSE held[t]]
      /\ got' = [t \in Threads |-> IF Home[t] = w THEN 0 ELSE got[t]]
      /\ UNCHANGED <<key, generation, tokens>>
  BY DEF Crash, CrashCache
<1>2. \A v \in Workers, l \in Keys :
        IF v = w THEN slots'[v][l] = None ELSE slots'[v][l] = slots[v][l]
  BY <1>1 DEF SlotIInv, SlotTypeOK
<1>3. \A v \in Workers :
        IF v = w THEN lock'[v] = Unlocked ELSE lock'[v] = lock[v]
  BY <1>1 DEF SlotIInv, SlotTypeOK
<1>4. SlotTypeOK'
  BY <1>1 DEF SlotIInv, SlotTypeOK
<1>5. BuildsInCodebook' /\ UsesHeld'
  BY <1>1 DEF SlotIInv, PlacesRight, BuildsInCodebook, UsesHeld
<1>6. BuildsLocked'
  BY <1>1, <1>3 DEF SlotIInv, PlacesRight, BuildsLocked
<1>7. \A t \in Threads :
        IF Home[t] = w
        THEN phase'[t] = "idle" /\ held'[t] = None
        ELSE phase'[t] = phase[t] /\ held'[t] = held[t] /\ got'[t] = got[t]
               /\ Slot(t)' = Slot(t)
  BY <1>1, <1>2 DEF SlotIInv, SlotTypeOK, Slot
<1>8. TablesRight'
  BY <1>1, <1>2, <1>7 DEF SlotIInv, TablesRight, GotBefore, HeldIsCurrent,
     BuildsMissing, OneStatePerKey, SlotsDistinct, TableKnowsUsers,
     NoLateTokens, Generation
<1>9. QED
  BY <1>4, <1>5, <1>6, <1>8 DEF SlotIInv, PlacesRight

-----------------------------------------------------------------------------
(* The invariant. *)

LEMMA InitInvariant == Init => IInv
<1> SUFFICES ASSUME Init PROVE IInv
  OBVIOUS
<1>1. CacheIInv
  BY CacheInitInvariant DEF Init
<1>2. SlotTypeOK
  BY DEF Init, SlotTypeOK
<1>3. \A t \in Threads : phase[t] = "idle" /\ at[t] = "out" /\ held[t] = None
                           /\ lock[Home[t]] # t
  BY DEF Init, CacheInit
<1>4. \A w \in Workers, k \in Keys : slots[w][k] = None
  BY DEF Init
<1>5. PlacesRight
  BY <1>3 DEF PlacesRight, BuildsInCodebook, BuildsLocked, UsesHeld
<1>6. TablesRight
  BY <1>3, <1>4 DEF TablesRight, GotBefore, HeldIsCurrent, BuildsMissing,
     OneStatePerKey, SlotsDistinct, TableKnowsUsers, NoLateTokens
<1>7. QED
  BY <1>1, <1>2, <1>5, <1>6 DEF IInv, SlotIInv

LEMMA NextInvariant == IInv /\ [Next]_vars => IInv'
<1> SUFFICES ASSUME IInv, [Next]_vars PROVE IInv'
  OBVIOUS
<1>0. CacheTypeOK /\ SlotIInv
  BY DEF IInv, CacheIInv
<1>1. CacheIInv'
  BY CacheStep, CacheNextInvariant DEF IInv
<1>2. ASSUME NEW t \in Threads, NEW k \in Keys, Get(t, k) PROVE SlotIInv'
  BY <1>0, <1>2, GetStep
<1>3. ASSUME NEW t \in Threads, ForwardPass(t) PROVE SlotIInv'
  BY <1>0, <1>3, AllocateStep, ConstructStep, ConstructedStep,
     ConstructFailsStep, CaptureStep DEF ForwardPass
<1>4. ASSUME NEW w \in Workers, ResetAll(w) \/ Crash(w) PROVE SlotIInv'
  BY <1>0, <1>4, ResetAllStep, CrashWorkerStep
<1>5. ASSUME NEW w \in Workers, NEW k \in Keys, Release(w, k) PROVE SlotIInv'
  BY <1>0, <1>5, ReleaseStep
<1>6. ASSUME UNCHANGED vars PROVE SlotIInv'
  <2>1. UNCHANGED <<at, slots, lock, phase, key, held, got, generation, tokens>>
    BY <1>6 DEF vars, slotVars, cacheVars
  <2>2. SlotTypeOK' /\ PlacesRight'
    BY <1>0, <2>1 DEF SlotIInv, SlotTypeOK, PlacesRight, BuildsInCodebook,
       BuildsLocked, UsesHeld
  <2>3. GotBefore' /\ HeldIsCurrent' /\ BuildsMissing' /\ OneStatePerKey'
    BY <1>0, <2>1 DEF SlotIInv, TablesRight, GotBefore, HeldIsCurrent,
       BuildsMissing, OneStatePerKey, Slot, Generation
  <2>4. SlotsDistinct' /\ TableKnowsUsers' /\ NoLateTokens'
    BY <1>0, <2>1 DEF SlotIInv, TablesRight, SlotsDistinct, TableKnowsUsers,
       NoLateTokens
  <2>5. QED
    BY <2>2, <2>3, <2>4 DEF SlotIInv, TablesRight
<1>7. SlotIInv'
  <2>1. ASSUME Next PROVE SlotIInv'
    BY <1>2, <1>3, <1>4, <1>5, <2>1 DEF Next
  <2>2. QED
    BY <1>6, <2>1
<1>8. QED
  BY <1>1, <1>7 DEF IInv

LEMMA Invariance == Spec => []IInv
  BY InitInvariant, NextInvariant, PTL DEF Spec

-----------------------------------------------------------------------------
(* The theorems. *)

\* context.py:124-207: every variable keeps its type, only a thread with the
\* lock builds a state, and only a pass that is under way holds one.
THEOREM TypeCorrect == Spec => []TypeOK
<1>1. IInv => TypeOK
  BY TypeOKParts DEF IInv, CacheIInv, SlotIInv
<1>2. QED
  BY <1>1, Invariance, PTL

\* context.py:157-171: what the table, the lock and the passes do with the
\* codebook is what its callers may do, crashes included.
THEOREM Refinement == Spec => UsesCodebookCache
<1>1. Init => CacheInit
  BY DEF Init
<1>2. IInv /\ [Next]_vars => [CacheNext]_cacheVars
  BY CacheStep
<1>3. QED
  BY <1>1, <1>2, Invariance, PTL DEF Spec, UsesCodebookCache, CacheSpec

\* codebook.py:154-157: so that a state is never built from part of a file,
\* unless a thread writes it or died writing it.
THEOREM NoTornFile == Spec => []TornOnlyWhileWriting
  BY Refinement, CacheTorn, PTL DEF UsesCodebookCache

\* context.py:147-176: passes of one request that no release separates share
\* one state, whoever came first.
THEOREM OneState == Spec => []OneStatePerKey
<1>1. IInv => OneStatePerKey
  BY DEF IInv, SlotIInv, TablesRight
<1>2. QED
  BY <1>1, Invariance, PTL

\* context.py:178-207: a pass that outlives the release of its request never
\* writes to the state of a later one.
THEOREM NoForeignWrite == Spec => []NoLateTokens
<1>1. IInv => NoLateTokens
  BY DEF IInv, SlotIInv, TablesRight
<1>2. QED
  BY <1>1, Invariance, PTL

=============================================================================
