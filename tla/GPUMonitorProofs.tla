-------------------------- MODULE GPUMonitorProofs --------------------------
(***************************************************************************)
(* The safety properties of GPUMonitor, for any number of threads and of   *)
(* callers and however long it runs.                                       *)
(***************************************************************************)
EXTENDS GPUMonitor, TLAPS

\* A monitor that does not run has no thread, or is about to forget it.
StoppedForgets == running \/ thread = NoThread \/ pc["main"] = "join"

\* Samples are from the past.
PastSamples == latest <= now /\ \A p \in Samplers : taken[p] <= now

\* What a sampler is about to publish is not older than the published sample,
\* if that is its own or neither of the two is a caller or an abandoned thread.
FreshSamples ==
    \A p \in Samplers :
        pc[p] = "publish"
          /\ (author = p \/ {author, p} \cap (Callers \cup abandoned) = {})
        => latest <= taken[p]

IInv == TypeOK /\ OneMonitorThread /\ StoppedForgets /\ PastSamples
          /\ FreshSamples

-----------------------------------------------------------------------------
LEMMA InitInvariant == Init => IInv
<1> SUFFICES ASSUME Init PROVE IInv
  OBVIOUS
<1>1. \A p \in Samplers :
         /\ pc[p] = (IF p \in Threads THEN "unborn" ELSE "idle")
         /\ taken[p] = 0
  BY DEF Init
<1>2. pc \in [Samplers -> Places] /\ taken \in [Samplers -> 0 .. MaxTime]
  BY ThreadsAssumption DEF Init, Places
<1>3. pc["main"] = "idle"
  BY <1>1, ThreadsAssumption DEF Samplers, Callers
<1>4. TypeOK
  <2>1. latest \in 0 .. MaxTime /\ now \in 0 .. MaxTime
    BY ThreadsAssumption DEF Init
  <2>2. QED
    BY <1>2, <1>3, <2>1, Zenon DEF Init, TypeOK
<1>5. Alive = {}
  BY <1>1 DEF Alive, Samplers
<1>6. QED
  BY <1>1, <1>4, <1>5
     DEF Init, IInv, OneMonitorThread, StoppedForgets, PastSamples, FreshSamples

\* start(): it is called by main, which is not in a join, so that a monitor
\* that does not run has forgotten its thread.
LEMMA StartInvariant ==
  ASSUME IInv, NEW t \in Threads, Start(t)
  PROVE  IInv'
<1>1. TypeOK'
  BY ThreadsAssumption DEF IInv, TypeOK, Start, Goto, Samplers, Callers, Places
<1>2. thread = NoThread
  BY DEF IInv, StoppedForgets, Start
<1>3. Alive' \subseteq Alive \cup {t}
  BY DEF IInv, TypeOK, Start, Goto, Alive, Samplers
<1>4. OneMonitorThread'
  BY <1>2, <1>3, ThreadsAssumption
     DEF IInv, OneMonitorThread, Start, Alive
<1>5. StoppedForgets'
  BY DEF StoppedForgets, Start
<1>6. PastSamples' /\ FreshSamples'
  BY DEF IInv, TypeOK, PastSamples, FreshSamples, Start, Goto, Samplers
<1>7. QED
  BY <1>1, <1>4, <1>5, <1>6 DEF IInv

LEMMA StopInvariant ==
  ASSUME IInv, Stop
  PROVE  IInv'
<1>1. TypeOK'
  BY ThreadsAssumption DEF IInv, TypeOK, Stop, Goto, Samplers, Callers, Places
<1>2. Alive' = Alive
  BY ThreadsAssumption DEF IInv, TypeOK, Stop, Goto, Alive, Samplers, Callers
<1>3. OneMonitorThread' /\ StoppedForgets'
  BY <1>2 DEF IInv, TypeOK, OneMonitorThread, StoppedForgets, Stop, Goto,
              Samplers, Callers
<1>4. PastSamples' /\ FreshSamples'
  BY DEF IInv, TypeOK, PastSamples, FreshSamples, Stop, Goto, Samplers
<1>5. QED
  BY <1>1, <1>3, <1>4 DEF IInv

\* The join: the thread that the monitor forgets has ended or is abandoned.
LEMMA JoinInvariant ==
  ASSUME IInv, Join
  PROVE  IInv'
<1>1. TypeOK'
  BY ThreadsAssumption DEF IInv, TypeOK, Join, Goto, Samplers, Callers, Places
<1>2. Alive' = Alive /\ abandoned \subseteq abandoned'
  BY ThreadsAssumption DEF IInv, TypeOK, Join, Goto, Alive, Samplers, Callers
<1>3. OneMonitorThread'
  BY <1>2 DEF IInv, TypeOK, OneMonitorThread, Join, Alive
<1>4. StoppedForgets' /\ PastSamples'
  BY DEF IInv, StoppedForgets, PastSamples, Join
<1>5. FreshSamples'
  BY <1>2 DEF IInv, TypeOK, FreshSamples, Join, Goto, Samplers
<1>6. QED
  BY <1>1, <1>3, <1>4, <1>5 DEF IInv

\* Steps that neither start nor stop anything leave the threads as they are,
\* or end one.
LEMMA SamplerInvariant ==
  ASSUME IInv, NEW p \in Samplers,
         \/ Sample(p) \/ SampleFails(p)
         \/ p \in Callers /\ SampleOnce(p)
         \/ p \in Threads /\ (CheckRunning(p) \/ Wake(p))
  PROVE  IInv'
<1>1. TypeOK'
  BY ThreadsAssumption
     DEF IInv, TypeOK, Sample, SampleFails, AfterSample, SampleOnce,
         CheckRunning, Wake, Goto, Samplers, Callers, Places
<1>2. Alive' \subseteq Alive
  BY ThreadsAssumption
     DEF IInv, TypeOK, Sample, SampleFails, AfterSample, SampleOnce,
         CheckRunning, Wake, Goto, Samplers, Callers, Alive
<1>3. OneMonitorThread'
  BY <1>2 DEF IInv, OneMonitorThread, Sample, SampleFails, SampleOnce,
              CheckRunning, Wake
<1>4. pc["main"] = "join" => pc'["main"] = "join"
  BY ThreadsAssumption
     DEF IInv, TypeOK, Sample, SampleFails, AfterSample, SampleOnce,
         CheckRunning, Wake, Goto, Samplers, Callers
<1>5. StoppedForgets'
  BY <1>4 DEF IInv, StoppedForgets, Sample, SampleFails, SampleOnce,
              CheckRunning, Wake
<1>6. PastSamples'
  BY ThreadsAssumption
     DEF IInv, TypeOK, PastSamples, Sample, SampleFails, SampleOnce,
         CheckRunning, Wake, Samplers
<1>7. FreshSamples'
  BY ThreadsAssumption
     DEF IInv, TypeOK, PastSamples, FreshSamples, Sample, SampleFails,
         AfterSample, SampleOnce, CheckRunning, Wake, Goto, Samplers, Callers
<1>8. QED
  BY <1>1, <1>3, <1>5, <1>6, <1>7 DEF IInv

\* After a publication no other thread that is neither a caller nor abandoned
\* can be about to publish, as there is only one such thread.
LEMMA PublishInvariant ==
  ASSUME IInv, NEW p \in Samplers, Publish(p)
  PROVE  IInv'
<1>1. TypeOK'
  BY ThreadsAssumption
     DEF IInv, TypeOK, Publish, AfterSample, Goto, Samplers, Callers, Places
<1>2. Alive' \subseteq Alive
  BY ThreadsAssumption
     DEF IInv, TypeOK, Publish, AfterSample, Goto, Samplers, Callers, Alive
<1>3. OneMonitorThread'
  BY <1>2 DEF IInv, OneMonitorThread, Publish
<1>4. pc["main"] = "join" => pc'["main"] = "join"
  BY DEF IInv, TypeOK, Publish, AfterSample, Goto, Samplers, Callers
<1>5. StoppedForgets'
  BY <1>4 DEF IInv, StoppedForgets, Publish
<1>6. PastSamples'
  BY ThreadsAssumption DEF IInv, TypeOK, PastSamples, Publish, Samplers
<1>7. FreshSamples'
  <2> SUFFICES ASSUME NEW q \in Samplers, pc'[q] = "publish",
                      \/ author' = q
                      \/ {author', q} \cap (Callers \cup abandoned') = {}
               PROVE  FALSE
    BY DEF FreshSamples
  <2>1. q # p /\ pc[q] = "publish" /\ pc[p] = "publish" /\ author' = p
    BY DEF IInv, TypeOK, Publish, AfterSample, Goto, Samplers
  <2>2. p \notin Callers \cup abandoned /\ q \notin Callers \cup abandoned
    BY <2>1 DEF Publish
  <2>3. p \in Alive /\ q \in Alive
    BY <2>1, <2>2 DEF Alive, Samplers
  <2>4. QED
    BY <2>1, <2>2, <2>3 DEF IInv, OneMonitorThread
<1>8. QED
  BY <1>1, <1>3, <1>5, <1>6, <1>7 DEF IInv

LEMMA NextInvariant == IInv /\ [Next]_vars => IInv'
<1> SUFFICES ASSUME IInv, [Next]_vars PROVE IInv'
  OBVIOUS
<1>1. ASSUME NEW t \in Threads, Start(t) PROVE IInv'
  BY <1>1, StartInvariant
<1>2. CASE Stop
  BY <1>2, StopInvariant
<1>3. CASE Join
  BY <1>3, JoinInvariant
<1>4. ASSUME NEW p \in Samplers, InSampleOnce(p) PROVE IInv'
  BY <1>4, SamplerInvariant, PublishInvariant DEF InSampleOnce
<1>5. ASSUME NEW t \in Threads, CheckRunning(t) \/ Wake(t) PROVE IInv'
  <2>1. t \in Samplers
    BY DEF Samplers
  <2>2. QED
    BY <1>5, <2>1, SamplerInvariant
<1>6. ASSUME NEW c \in Callers, SampleOnce(c) PROVE IInv'
  <2>1. c \in Samplers
    BY DEF Samplers
  <2>2. QED
    BY <1>6, <2>1, SamplerInvariant
<1>7. CASE UNCHANGED vars
  BY <1>7 DEF vars, IInv, TypeOK, OneMonitorThread, StoppedForgets,
              PastSamples, FreshSamples, Alive
<1>8. QED
  BY <1>1, <1>2, <1>3, <1>4, <1>5, <1>6, <1>7 DEF Next, MonitorLoop, Samplers

LEMMA Invariance == Spec => []IInv
  BY InitInvariant, NextInvariant, PTL DEF Spec

-----------------------------------------------------------------------------
(* The theorems. *)

\* The variables of the monitor have their types, and stop() joins a thread.
THEOREM TypeCorrect == Spec => []TypeOK
<1>1. IInv => TypeOK
  BY DEF IInv
<1>2. QED
  BY <1>1, Invariance, PTL

\* gpu_monitor.py:116-136: but for threads whose join has timed out the monitor
\* never has two threads, and none when it is stopped.
THEOREM OneThread == Spec => []OneMonitorThread
<1>1. IInv => OneMonitorThread
  BY DEF IInv
<1>2. QED
  BY <1>1, Invariance, PTL

\* gpu_monitor.py:143-159: only a caller of sample_once() or an abandoned
\* thread can make the published sample older.
THEOREM SamplesInOrder == Spec => OwnSamplesInOrder
<1> DEFINE InOrder == latest' < latest =>
                        /\ author' # author
                        /\ {author, author'} \cap (Callers \cup abandoned) # {}
<1>1. IInv /\ [Next]_vars => [InOrder]_vars
  <2> SUFFICES ASSUME IInv, Next, latest' < latest PROVE InOrder
    BY DEF vars
  <2>1. ASSUME NEW p \in Samplers, Publish(p) PROVE InOrder
    <3>1. pc[p] = "publish" /\ latest' = taken[p] /\ author' = p
      BY <2>1 DEF Publish
    <3>2. taken[p] \in Int /\ latest \in Int /\ ~ (latest <= taken[p])
      BY <3>1, ThreadsAssumption DEF IInv, TypeOK
    <3>3. QED
      BY <3>1, <3>2 DEF IInv, FreshSamples
  <2>2. ASSUME latest' = latest PROVE FALSE
    BY <2>2, ThreadsAssumption DEF IInv, TypeOK
  <2>3. QED
    BY <2>1, <2>2 DEF Next, MonitorLoop, InSampleOnce, Start, Stop, Join,
         SampleOnce, Sample, SampleFails, CheckRunning, Wake, Samplers
<1>2. QED
  BY <1>1, Invariance, PTL DEF Spec, OwnSamplesInOrder

=============================================================================
