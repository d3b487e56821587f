---------------------------- MODULE TieredCache ----------------------------
(***************************************************************************)
(* What the pipeline of runtime/capture.py promises, without slots,        *)
(* counters or calls: a first-in first-out window of the most recent       *)
(* tokens, an archive of older ones, and tokens on their way from one to   *)
(* the other.  A batch of tokens is archived whole or, when the archive    *)
(* has no room for all of it, lost whole.                                  *)
(***************************************************************************)
EXTENDS Integers, Sequences, FiniteSets

CONSTANTS
    Window,     \* tokens that the window holds
    Room        \* tokens that the archive holds

VARIABLES
    recent,     \* the window, oldest token first
    moving,     \* tokens pushed out of the window and not yet archived
    archive,    \* the set of archived tokens
    lost,       \* the set of tokens for which there was no room
    next        \* number of the next token

vars == <<recent, moving, archive, lost, next>>

Members(s) == {s[i] : i \in DOMAIN s}

Init ==
    /\ recent = <<>>
    /\ moving = <<>>
    /\ archive = {}
    /\ lost = {}
    /\ next = 0

\* All or nothing.
Keep(tokens) ==
    IF Cardinality(archive) + Cardinality(tokens) <= Room
    THEN archive' = archive \cup tokens /\ lost' = lost
    ELSE lost' = lost \cup tokens /\ archive' = archive

\* A token enters the window and pushes out the oldest one of a full window.
Arrive ==
    /\ next' = next + 1
    /\ IF Len(recent) < Window
       THEN recent' = Append(recent, next) /\ moving' = moving
       ELSE /\ recent' = Append(Tail(recent), next)
            /\ moving' = Append(moving, Head(recent))
    /\ UNCHANGED <<archive, lost>>

\* The tokens that left the window are archived.
Settle ==
    /\ moving # <<>>
    /\ Keep(Members(moving))
    /\ moving' = <<>>
    /\ UNCHANGED <<recent, next>>

\* The head of a long prompt goes past the window, which must be empty: the
\* window would not be in order of age otherwise.
Bypass ==
    /\ recent = <<>>
    /\ moving = <<>>
    /\ next' \in Nat
    /\ next' > next
    /\ Keep(next .. next' - 1)
    /\ UNCHANGED <<recent, moving>>

Drain ==
    /\ moving = <<>>
    /\ Keep(Members(recent))
    /\ recent' = <<>>
    /\ UNCHANGED <<moving, next>>

Clear ==
    /\ recent' = <<>>
    /\ moving' = <<>>
    /\ archive' = {}
    /\ lost' = {}
    /\ UNCHANGED next

Next == Arrive \/ Settle \/ Bypass \/ Drain \/ Clear

Spec == Init /\ [][Next]_vars

=============================================================================
