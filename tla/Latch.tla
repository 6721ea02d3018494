------------------------------- MODULE Latch -------------------------------
(***************************************************************************)
(* What the threads of an experiment promise each other (TbThread.py).     *)
(* Latch threads are the work of the experiment: LatchNum counts those     *)
(* that are in their function.  Normal threads change the network while    *)
(* LatchNum is positive.  In manual mode the main thread counts itself in  *)
(* like a latch thread (Instance.run).                                     *)
(***************************************************************************)
EXTENDS Integers, FiniteSets

CONSTANTS
  LatchThreads,     \* threadFunc(True), or the main thread in manual mode
  NormalThreads     \* threadFunc(False)

\* What the theorems assume of them
ThreadsAssumption ==
  /\ IsFiniteSet(LatchThreads)
  /\ LatchThreads \cap NormalThreads = {}

VARIABLES
  phase,            \* what each thread does
  LatchNum

latchVars == <<phase, LatchNum>>

Threads == LatchThreads \cup NormalThreads

\* "left": a normal thread that ended because no latch thread was running.
LatchPhases == {"new", "working", "over", "dead"}
NormalPhases == {"new", "working", "over", "dead", "left"}

TypeOK ==
  /\ phase \in [Threads -> LatchPhases \cup NormalPhases]
  /\ \A t \in LatchThreads : phase[t] \in LatchPhases
  /\ LatchNum \in Int

latchRunning == LatchNum > 0

\* clear() before the threads are started.  A thread that this run does not
\* start counts as over.
Init ==
  /\ phase \in [Threads -> {"new", "over"}]
  /\ LatchNum = 0

\* LatchFunc: latchNumInc, then the function
Begin(t) ==
  /\ phase[t] = "new"
  /\ phase' = [phase EXCEPT ![t] = "working"]
  /\ LatchNum' = LatchNum + 1

\* LatchFunc: the function returned, latchNumDec
Finish(t) ==
  /\ phase[t] = "working"
  /\ phase' = [phase EXCEPT ![t] = "over"]
  /\ LatchNum' = LatchNum - 1

\* An exception that nobody catches ends the thread: latchNumDec is not reached.
Die(t) ==
  /\ phase[t] = "working"
  /\ phase' = [phase EXCEPT ![t] = "dead"]
  /\ UNCHANGED LatchNum

\* NormalFunc sleeps half a second first.  The main thread starts all threads,
\* and a latch thread counts itself in, in far less.
Wake(t) ==
  /\ phase[t] = "new"
  /\ \A l \in LatchThreads : phase[l] # "new"
  /\ phase' = [phase EXCEPT ![t] = "working"]
  /\ UNCHANGED LatchNum

\* The function returned for a reason of its own.
Return(t) ==
  /\ phase[t] = "working"
  /\ phase' = [phase EXCEPT ![t] = "over"]
  /\ UNCHANGED LatchNum

\* while latchRunning() ends, or sleepWithCaution raises SleepException
Leave(t) ==
  /\ phase[t] = "working"
  /\ ~latchRunning
  /\ phase' = [phase EXCEPT ![t] = "left"]
  /\ UNCHANGED LatchNum

Next ==
  \/ \E t \in LatchThreads : Begin(t) \/ Finish(t) \/ Die(t)
  \/ \E t \in NormalThreads : Wake(t) \/ Return(t) \/ Leave(t) \/ Die(t)

Spec == Init /\ [][Next]_latchVars

----------------------------------------------------------------------------
(* Properties *)

Counted == {t \in LatchThreads : phase[t] \in {"working", "dead"}}

\* LatchNum is the number of latch threads in their function, or lost in it
\* (latchNumInc, latchNumDec around func).
LatchCountsWorkers == LatchNum = Cardinality(Counted)

\* A normal thread stops changing the network only when no latch thread is in
\* its function and none will be any more (while latchRunning()).
OutlastsLatch ==
  (\E n \in NormalThreads : phase[n] = "left")
     => \A l \in LatchThreads : phase[l] = "over"

=============================================================================
