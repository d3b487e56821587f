--------------------------- MODULE CodebookCache ---------------------------
(***************************************************************************)
(* core/codebook.py: get_codebook() for one key (d, bits), as the threads  *)
(* of several worker processes call it.  A process caches the codebook in  *)
(* memory; all share a file, which the first ones to miss it write in      *)
(* place.  The computation is deterministic, so every writer writes the    *)
(* same NumParts parts, one after the other, each at its own offset: what  *)
(* one truncates another may go on writing, which leaves a hole.           *)
(* json.load() takes a file with all parts and raises for any other.       *)
(***************************************************************************)
EXTENDS Integers, FiniteSets

CONSTANTS
    Workers,        \* worker processes
    Threads,        \* their threads
    Home,           \* the worker of each thread
    NumParts,       \* bound: the writes that make a file
    MaxFaults       \* bound: crashes of workers and errors of files

ASSUME WorkersAssumption ==
    /\ Home \in [Threads -> Workers]
    /\ NumParts \in Nat \ {0}
    /\ MaxFaults \in Nat

Parts == 1 .. NumParts

VARIABLES
    exists,         \* whether there is a file
    parts,          \* the parts that are in the file
    cached,         \* of each worker: the key is in _CODEBOOK_CACHE
    at,             \* where each thread is in get_codebook()
    written,        \* how much of the file each thread has written
    faults,         \* crashes and errors so far
    orphaned        \* ghost: a thread has died, or failed, while it wrote the
                    \* file

cacheVars == <<exists, parts, cached, at, written, faults, orphaned>>

CacheInit ==
    /\ exists = FALSE
    /\ parts = {}
    /\ cached = [w \in Workers |-> FALSE]
    /\ at = [t \in Threads |-> "out"]
    /\ written = [t \in Threads |-> 0]
    /\ faults = 0
    /\ orphaned = FALSE

At(t, place) == at' = [at EXCEPT ![t] = place]

\* The first test: the cache of the process.
Lookup(t) ==
    /\ at[t] = "lookup"
    /\ At(t, IF cached[Home[t]] THEN "returned" ELSE "probe")
    /\ UNCHANGED <<exists, parts, cached, written, faults, orphaned>>

\* os.path.exists()
Probe(t) ==
    /\ at[t] = "probe"
    /\ At(t, IF exists THEN "load" ELSE "compute")
    /\ UNCHANGED <<exists, parts, cached, written, faults, orphaned>>

\* json.load(), whose exception nobody catches.
Load(t) ==
    /\ at[t] = "load"
    /\ IF parts = Parts
       THEN /\ At(t, "returned")
            /\ cached' = [cached EXCEPT ![Home[t]] = TRUE]
       ELSE At(t, "raised") /\ UNCHANGED cached
    /\ UNCHANGED <<exists, parts, written, faults, orphaned>>

\* The codebook has been computed, and open(path, "w") truncates the file.
OpenForWriting(t) ==
    /\ at[t] = "compute"
    /\ exists' = TRUE
    /\ parts' = {}
    /\ written' = [written EXCEPT ![t] = 0]
    /\ At(t, "write")
    /\ UNCHANGED <<cached, faults, orphaned>>

\* json.dump() writes the next part, at the offset of this file handle.
WritePart(t) ==
    /\ at[t] = "write"
    /\ written[t] < NumParts
    /\ written' = [written EXCEPT ![t] = @ + 1]
    /\ parts' = parts \cup {written[t] + 1}
    /\ UNCHANGED <<exists, cached, at, faults, orphaned>>

\* Mutant of Close: the last part is still in the buffer.
CloseUnflushed(t) ==
    /\ at[t] = "write"
    /\ written[t] >= NumParts - 1
    /\ At(t, "returned")
    /\ cached' = [cached EXCEPT ![Home[t]] = TRUE]
    /\ UNCHANGED <<exists, parts, written, faults, orphaned>>

\* The file is closed, and the codebook cached.
Close(t) ==
    /\ at[t] = "write"
    /\ written[t] = NumParts
    /\ At(t, "returned")
    /\ cached' = [cached EXCEPT ![Home[t]] = TRUE]
    /\ UNCHANGED <<exists, parts, written, faults, orphaned>>

\* The directory cannot be made, the file not be opened, read or, on a disk that
\* is full, written: nothing catches the exception, and nothing removes what has
\* been written.
IOFails(t) ==
    /\ at[t] \in {"probe", "load", "compute", "write"}
    /\ faults < MaxFaults
    /\ faults' = faults + 1
    /\ orphaned' = (orphaned \/ at[t] = "write")
    /\ At(t, "raised")
    /\ UNCHANGED <<exists, parts, cached, written>>

GetCodebook(t) ==
    Lookup(t) \/ Probe(t) \/ Load(t) \/ OpenForWriting(t) \/ WritePart(t)
              \/ Close(t) \/ IOFails(t)

\* A worker dies with its threads and its cache, and starts again; the file
\* stays as it is.
CrashCache(w) ==
    /\ faults < MaxFaults
    /\ faults' = faults + 1
    /\ orphaned' = (orphaned \/ \E t \in Threads : Home[t] = w /\ at[t] = "write")
    /\ cached' = [cached EXCEPT ![w] = FALSE]
    /\ at' = [t \in Threads |-> IF Home[t] = w THEN "out" ELSE at[t]]
    /\ written' = [t \in Threads |-> IF Home[t] = w THEN 0 ELSE written[t]]
    /\ UNCHANGED <<exists, parts>>

\* A caller of its own, for this module alone: call, and leave.
Enter(t) == at[t] = "out" /\ At(t, "lookup")
                /\ UNCHANGED <<exists, parts, cached, written, faults, orphaned>>
Leave(t) == at[t] \in {"returned", "raised"} /\ At(t, "out")
                /\ UNCHANGED <<exists, parts, cached, written, faults, orphaned>>

CacheNext ==
    \/ \E t \in Threads : Enter(t) \/ GetCodebook(t) \/ Leave(t)
    \/ \E w \in Workers : CrashCache(w)

CacheSpec == CacheInit /\ [][CacheNext]_cacheVars

-----------------------------------------------------------------------------
(* Properties.                                                             *)

\* Every variable has its type.
CacheTypeOK ==
    /\ exists \in BOOLEAN
    /\ parts \subseteq Parts
    /\ cached \in [Workers -> BOOLEAN]
    /\ at \in [Threads -> {"out", "lookup", "probe", "load", "compute",
                           "write", "returned", "raised"}]
    /\ written \in [Threads -> 0 .. NumParts]
    /\ faults \in Nat
    /\ orphaned \in BOOLEAN

Torn == exists /\ parts # Parts

\* A file that json.load() refuses is one that a live thread is writing, or
\* one that a thread left when it died or failed writing: two writers that
\* truncate each other's file still leave a whole one when both have closed it,
\* and crashes and errors at other moments do no harm.
TornOnlyWhileWriting ==
    Torn => orphaned \/ \E t \in Threads : at[t] = "write"

\* Unless a thread dies or fails while it writes, the file becomes whole and stays
\* so, so that no get_codebook() fails for good.
FileSettles == [] ~ orphaned => <>[] ~ Torn

=============================================================================
