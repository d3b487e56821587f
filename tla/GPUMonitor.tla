----------------------------- MODULE GPUMonitor -----------------------------
(***************************************************************************)
(* monitor/gpu_monitor.py: GPUMonitor, a thread that samples the GPUs      *)
(* periodically, the caller that starts and stops it, and callers that     *)
(* sample by hand.  The lock of the class covers the publication of a      *)
(* sample and the copy that snapshot() makes, nothing else: _running and   *)
(* _thread are read and written without it, and a sample is taken before   *)
(* the lock is.                                                            *)
(*                                                                         *)
(* A sample is the time at which it was taken.  snapshot() is a read of    *)
(* latest.  Only main calls start() and stop(), whose steps are atomic but *)
(* for the join; everything else interleaves.                              *)
(***************************************************************************)
EXTENDS Integers, FiniteSets

CONSTANTS
    Threads,        \* bound: the threads that start() may ever create
    Pollers,        \* callers of sample_once(), beside main
    NoThread,       \* None
    MaxTime         \* bound: the clock stops there

ASSUME ThreadsAssumption ==
    /\ NoThread \notin Threads
    /\ Threads \cap (Pollers \cup {"main"}) = {}
    /\ MaxTime \in Nat

Callers == Pollers \cup {"main"}
Samplers == Callers \cup Threads

VARIABLES
    slow,           \* whether a sample and a sleep may outlast the join
    running,        \* _running
    thread,         \* _thread
    latest,         \* _latest_stats: the time of the sample, 0 before the first
    pc,             \* where each thread and each caller is
    taken,          \* stats of the call of sample_once() in progress, or 0
    now,            \* the clock
    author,         \* ghost: who published latest
    abandoned       \* ghost: the threads that a join has given up on

vars == <<slow, running, thread, latest, pc, taken, now, author, abandoned>>

Init ==
    /\ slow \in BOOLEAN
    /\ running = FALSE
    /\ thread = NoThread
    /\ latest = 0
    /\ pc = [p \in Samplers |-> IF p \in Threads THEN "unborn" ELSE "idle"]
    /\ taken = [p \in Samplers |-> 0]
    /\ now = 0
    /\ author = NoThread
    /\ abandoned = {}

Goto(p, place) == pc' = [pc EXCEPT ![p] = place]

-----------------------------------------------------------------------------
(* Mutants of Start: _running is not looked at; of Stop: it does not wait; *)
(* it forgets the thread before it joins it.                               *)
StartUnchecked(t) ==
    /\ pc["main"] = "idle"
    /\ pc[t] = "unborn"
    /\ running' = TRUE
    /\ thread' = t
    /\ Goto(t, "check")
    /\ UNCHANGED <<slow, latest, taken, now, author, abandoned>>

StopWithoutJoin ==
    /\ pc["main"] = "idle"
    /\ running' = FALSE
    /\ thread' = NoThread
    /\ UNCHANGED <<slow, latest, pc, taken, now, author, abandoned>>

StopForgetsFirst ==
    /\ pc["main"] = "idle"
    /\ running' = FALSE
    /\ thread' = NoThread
    /\ IF thread = NoThread THEN UNCHANGED pc ELSE Goto("main", "join")
    /\ UNCHANGED <<slow, latest, taken, now, author, abandoned>>

\* start(): nothing while running, which an old thread may be as well.
Start(t) ==
    /\ pc["main"] = "idle"
    /\ ~ running
    /\ pc[t] = "unborn"
    /\ running' = TRUE
    /\ thread' = t
    /\ Goto(t, "check")
    /\ UNCHANGED <<slow, latest, taken, now, author, abandoned>>

\* stop(), up to the join.
Stop ==
    /\ pc["main"] = "idle"
    /\ running' = FALSE
    /\ IF thread = NoThread THEN UNCHANGED pc ELSE Goto("main", "join")
    /\ UNCHANGED <<slow, thread, latest, taken, now, author, abandoned>>

\* join(timeout=5.0) returns, whether or not the thread has ended, and stop()
\* forgets the thread.
Join ==
    /\ pc["main"] = "join"
    /\ \/ pc[thread] = "dead" /\ UNCHANGED abandoned
       \/ /\ slow /\ pc[thread] # "dead"
          /\ abandoned' = abandoned \cup {thread}
    /\ thread' = NoThread
    /\ Goto("main", "idle")
    /\ UNCHANGED <<slow, running, latest, taken, now, author>>

-----------------------------------------------------------------------------
\* A caller calls sample_once().
SampleOnce(c) ==
    /\ pc[c] = "idle"
    /\ Goto(c, "sample")
    /\ UNCHANGED <<slow, running, thread, latest, taken, now, author,
                   abandoned>>

\* After sample_once(): a caller goes on, the loop sleeps.
AfterSample(p) == Goto(p, IF p \in Threads THEN "sleep" ELSE "idle")

\* _sample_gpu() for the GPUs, outside the lock.
Sample(p) ==
    /\ pc[p] = "sample"
    /\ now' = IF now < MaxTime THEN now + 1 ELSE now
    /\ taken' = [taken EXCEPT ![p] = now']
    /\ Goto(p, "publish")
    /\ UNCHANGED <<slow, running, thread, latest, author, abandoned>>

\* Mutant of SampleFails: the exception ends the thread.
SampleFailsForGood(p) ==
    /\ pc[p] = "sample"
    /\ Goto(p, IF p \in Threads THEN "dead" ELSE "idle")
    /\ UNCHANGED <<slow, running, thread, latest, taken, now, author,
                   abandoned>>

\* An exception, such as that of a provider which returns no dict: the loop
\* logs it, other callers get it.
SampleFails(p) ==
    /\ pc[p] = "sample"
    /\ AfterSample(p)
    /\ UNCHANGED <<slow, running, thread, latest, taken, now, author,
                   abandoned>>

\* The statement under the lock.
Publish(p) ==
    /\ pc[p] = "publish"
    /\ latest' = taken[p]
    /\ author' = p
    /\ taken' = [taken EXCEPT ![p] = 0]
    /\ AfterSample(p)
    /\ UNCHANGED <<slow, running, thread, now, abandoned>>

\* Mutant of CheckRunning: the flag is not read again.
CheckRunningNever(t) ==
    /\ pc[t] = "check"
    /\ Goto(t, "sample")
    /\ UNCHANGED <<slow, running, thread, latest, taken, now, author,
                   abandoned>>

\* The test of the loop.
CheckRunning(t) ==
    /\ pc[t] = "check"
    /\ Goto(t, IF running THEN "sample" ELSE "dead")
    /\ UNCHANGED <<slow, running, thread, latest, taken, now, author,
                   abandoned>>

\* time.sleep() returns.
Wake(t) ==
    /\ pc[t] = "sleep"
    /\ Goto(t, "check")
    /\ UNCHANGED <<slow, running, thread, latest, taken, now, author,
                   abandoned>>

InSampleOnce(p) == Sample(p) \/ SampleFails(p) \/ Publish(p)
MonitorLoop(t) == CheckRunning(t) \/ InSampleOnce(t) \/ Wake(t)

Next ==
    \/ \E t \in Threads : Start(t) \/ MonitorLoop(t)
    \/ Stop
    \/ Join
    \/ \E c \in Callers : SampleOnce(c) \/ InSampleOnce(c)

Spec == Init /\ [][Next]_vars

\* A thread that has work is scheduled, sleeps and samples end, and a join
\* returns when it can.  Nobody has to call anything.
Fairness ==
    /\ \A t \in Threads : WF_vars(MonitorLoop(t))
    /\ \A c \in Callers : WF_vars(InSampleOnce(c))
    /\ WF_vars(Join)

FairSpec == Spec /\ Fairness

-----------------------------------------------------------------------------
(* Properties.                                                             *)

Places == {"unborn", "check", "sample", "publish", "sleep", "dead",
           "idle", "join"}

\* Every variable has its type, and a caller that joins has a thread to join.
TypeOK ==
    /\ slow \in BOOLEAN
    /\ running \in BOOLEAN
    /\ thread \in Threads \cup {NoThread}
    /\ latest \in 0 .. MaxTime
    /\ pc \in [Samplers -> Places]
    /\ taken \in [Samplers -> 0 .. MaxTime]
    /\ now \in 0 .. MaxTime
    /\ author \in Samplers \cup {NoThread}
    /\ abandoned \subseteq Threads
    /\ pc["main"] = "join" => thread # NoThread

Alive == {t \in Threads : pc[t] \notin {"unborn", "dead"}}

\* A thread that is alive is the one that the monitor knows, or one on which a
\* join has given up: without time-outs at most one thread samples, however
\* often the monitor is started and stopped, and after stop() none does.
OneMonitorThread == Alive \subseteq {thread} \cup abandoned

\* The published sample goes back in time only when two samplers overlapped of
\* which one was a caller or an abandoned thread: the threads that a monitor
\* starts one after another, though they share _latest_stats, do not.
OwnSamplesInOrder ==
    [][ latest' < latest =>
          /\ author' # author
          /\ {author, author'} \cap (Callers \cup abandoned) # {} ]_vars

\* stop() returns, even if no join ever timed out.
StopReturns == pc["main"] = "join" ~> pc["main"] # "join"

\* Once the monitor is stopped for good every thread ends, those that a join
\* has given up on as well.
StoppedComesToRest == (<>[] ~ running) => <>[](Alive = {})

\* As long as the monitor is not stopped its thread goes on, whatever the
\* samples raise.
RunningGoesOn ==
    \A t \in Threads :
        (<>[](running /\ thread = t)) => []<>(pc[t] = "check")

=============================================================================
