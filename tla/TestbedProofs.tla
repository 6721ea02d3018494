--------------------------- MODULE TestbedProofs ---------------------------
(***************************************************************************)
(* The threads of an experiment implement the promise of Latch, for every  *)
(* set of experiments and of tests: whatever they do to the network, each  *)
(* step begins or ends one function as Latch says, or leaves the counter   *)
(* and the phases alone.  So the counter counts exactly the tests that are *)
(* in their function or died in it, and a thread that leaves because of it *)
(* outlasts them all.  In every experiment servers run before clients, and *)
(* when all commands are wrapped in atomic() no thread dies in one.        *)
(***************************************************************************)
EXTENDS Testbed, FoldProofs, FiniteSetTheorems, TLAPS

(***************************************************************************)
(* Before the threads are started nobody is counted: clear().              *)
(***************************************************************************)
LEMMA InitMaps == Init => L!Init
<1>1. Threads \cup {Main} = L!Threads
  BY DEF Threads, L!Threads
<1>2. QED
  BY <1>1 DEF Init, L!Init

(***************************************************************************)
(* In manual mode the main thread counts itself in and out like a test.    *)
(***************************************************************************)
LEMMA MainMaps ==
  ASSUME MainStep
  PROVE  L!Next \/ UNCHANGED <<phase, LatchNum>>
<1>1. CASE HoldLatch
  <2>1. L!Begin(Main)
    BY <1>1 DEF HoldLatch, L!Begin
  <2>2. QED
    BY <2>1 DEF L!Next
<1>2. CASE LeaveCli
  <2>1. L!Finish(Main)
    BY <1>2 DEF LeaveCli, L!Finish
  <2>2. QED
    BY <2>1 DEF L!Next
<1>3. CASE CreateNet \/ StartThread \/ Join
  BY <1>3 DEF CreateNet, StartThread, Join, threadVars
<1>4. QED
  BY <1>1, <1>2, <1>3 DEF MainStep

(***************************************************************************)
(* A thread that dies in a command is lost for Latch at that moment,       *)
(* whether it is a test or changes the network.                            *)
(***************************************************************************)
LEMMA DeathMaps ==
  ASSUME NEW t \in Threads, Die(t)
  PROVE  L!Next
<1>1. L!Die(t)
  BY DEF Die, MayCall, Busy, L!Die
<1>2. QED
  BY <1>1 DEF Threads, L!Next

(***************************************************************************)
(* LatchFunc and NormalFunc around the functions of the threads.           *)
(***************************************************************************)
LEMMA ThreadMaps ==
  ASSUME NEW t \in Threads, Proceed(t) \/ Acquire(t)
  PROVE  L!Next \/ UNCHANGED <<phase, LatchNum>>
<1>1. CASE Begin(t) \/ Finish(t)
  <2>1. t \in Tests /\ (L!Begin(t) \/ L!Finish(t))
    BY <1>1 DEF Begin, Finish, L!Begin, L!Finish
  <2>2. QED
    BY <2>1 DEF L!Next
<1>2. CASE Wake(t) \/ Return(t) \/ Leave(t)
  <2>1. t \in Normals
    BY <1>2 DEF Wake, Return, Leave
  <2>2. L!Wake(t) \/ L!Return(t) \/ L!Leave(t)
    BY <1>2 DEF Wake, Return, Leave, Busy, L!Wake, L!Return, L!Leave, L!latchRunning
  <2>3. QED
    BY <2>1, <2>2 DEF L!Next
<1>3. CASE Die(t)
  BY <1>3, DeathMaps
<1>4. CASE Again(t) \/ Pause(t) \/ GoOn(t)
  BY <1>4 DEF Again, Pause, GoOn
<1>5. CASE Call(t) \/ CallReturns(t) \/ Acquire(t)
  BY <1>5 DEF Call, CallReturns, Acquire
<1>6. QED
  BY <1>1, <1>2, <1>3, <1>4, <1>5 DEF Proceed

(***************************************************************************)
(* Every behaviour of the testbed is one of Latch: the counter and the     *)
(* phases change only as latchNumInc, latchNumDec and the ends of the      *)
(* threads' functions say.                                                 *)
(***************************************************************************)
THEOREM LatchImplemented == Spec => ImplementsLatch
<1>1. [Next]_vars => [L!Next]_(L!latchVars)
  <2>1. CASE UNCHANGED vars
    BY <2>1 DEF vars, threadVars, L!latchVars
  <2>2. CASE MainStep
    BY <2>2, MainMaps DEF L!latchVars
  <2>3. ASSUME NEW t \in Threads, Proceed(t) \/ Acquire(t)
        PROVE  [L!Next]_(L!latchVars)
    BY <2>3, ThreadMaps DEF L!latchVars
  <2>4. QED
    BY <2>1, <2>2, <2>3 DEF Next
<1>2. QED
  BY <1>1, InitMaps, PTL DEF Spec, ImplementsLatch, L!Spec

----------------------------------------------------------------------------
(* What Latch promises, in every behaviour of Latch. *)

\* No normal thread works before every latch thread has begun.
AwakeAfterBegin ==
  (\E n \in Normals : phase[n] \in {"working", "left"})
     => \A l \in (Tests \cup {Main}) : phase[l] # "new"

LatchInv ==
  /\ L!TypeOK
  /\ L!LatchCountsWorkers
  /\ AwakeAfterBegin
  /\ L!OutlastsLatch

\* Latch has its own copy of the module FiniteSets.
LEMMA SameSizes ==
  ASSUME NEW S
  PROVE  L!Cardinality(S) = Cardinality(S) /\ (L!IsFiniteSet(S) <=> IsFiniteSet(S))
  BY DEF L!Cardinality, Cardinality, L!IsFiniteSet, IsFiniteSet

(***************************************************************************)
(* The counted threads are finitely many.                                  *)
(***************************************************************************)
LEMMA CountedFinite ==
  ASSUME L!ThreadsAssumption
  PROVE  IsFiniteSet(L!Counted) /\ Cardinality(L!Counted) \in Nat
<1>1. L!Counted \subseteq (Tests \cup {Main})
  BY DEF L!Counted
<1>2. QED
  BY <1>1, FS_Subset, FS_CardinalityType, SameSizes DEF L!ThreadsAssumption

(***************************************************************************)
(* When the counter is not positive, no latch thread is counted.           *)
(***************************************************************************)
LEMMA NotRunningEmpty ==
  ASSUME L!ThreadsAssumption, L!LatchCountsWorkers, ~L!latchRunning
  PROVE  L!Counted = {}
<1>1. Cardinality(L!Counted) = 0
  BY CountedFinite, SameSizes DEF L!LatchCountsWorkers, L!latchRunning
<1>2. QED
  BY <1>1, CountedFinite, FS_EmptySet

(***************************************************************************)
(* Initially nobody is counted.                                            *)
(***************************************************************************)
LEMMA InitLatch == L!Init => LatchInv
<1> SUFFICES ASSUME L!Init PROVE LatchInv
  OBVIOUS
<1>1. L!TypeOK
  BY DEF L!Init, L!TypeOK, L!Threads, L!LatchPhases, L!NormalPhases
<1>2. L!Counted = {}
  BY DEF L!Init, L!Counted, L!Threads
<1>3. L!LatchCountsWorkers
  BY <1>2, FS_EmptySet, SameSizes DEF L!Init, L!LatchCountsWorkers
<1>4. AwakeAfterBegin /\ L!OutlastsLatch
  BY DEF L!Init, AwakeAfterBegin, L!OutlastsLatch, L!Threads
<1>5. QED
  BY <1>1, <1>3, <1>4 DEF LatchInv

(***************************************************************************)
(* latchNumInc counts one more thread.                                     *)
(***************************************************************************)
LEMMA BeginKeeps ==
  ASSUME L!ThreadsAssumption, LatchInv, NEW t \in (Tests \cup {Main}), L!Begin(t)
  PROVE  LatchInv'
<1>1. L!TypeOK'
  BY DEF LatchInv, L!TypeOK, L!Begin, L!Threads, L!LatchPhases, L!NormalPhases
<1>2. t \notin L!Counted /\ L!Counted' = L!Counted \cup {t}
  BY DEF LatchInv, L!TypeOK, L!Begin, L!Counted, L!Threads
<1>3. Cardinality(L!Counted') = Cardinality(L!Counted) + 1
  BY <1>2, CountedFinite, FS_AddElement
<1>4. L!LatchCountsWorkers'
  BY <1>3, SameSizes DEF LatchInv, L!LatchCountsWorkers, L!Begin
<1>5. \A n \in Normals : /\ phase[n] \notin {"working", "left"}
                                /\ phase'[n] \notin {"working", "left"}
  BY DEF L!ThreadsAssumption, LatchInv, L!TypeOK, AwakeAfterBegin, L!Begin, L!Threads
<1>6. AwakeAfterBegin' /\ L!OutlastsLatch'
  BY <1>5 DEF AwakeAfterBegin, L!OutlastsLatch
<1>7. QED
  BY <1>1, <1>4, <1>6 DEF LatchInv

(***************************************************************************)
(* latchNumDec counts one thread less.                                     *)
(***************************************************************************)
LEMMA FinishKeeps ==
  ASSUME L!ThreadsAssumption, LatchInv, NEW t \in (Tests \cup {Main}), L!Finish(t)
  PROVE  LatchInv'
<1>1. L!TypeOK'
  BY DEF LatchInv, L!TypeOK, L!Finish, L!Threads, L!LatchPhases, L!NormalPhases
<1>2. t \in L!Counted /\ L!Counted' = L!Counted \ {t}
  BY DEF LatchInv, L!TypeOK, L!Finish, L!Counted, L!Threads
<1>3. Cardinality(L!Counted') = Cardinality(L!Counted) - 1
  BY <1>2, CountedFinite, FS_RemoveElement
<1>4. L!LatchCountsWorkers'
  BY <1>3, CountedFinite, SameSizes DEF LatchInv, L!LatchCountsWorkers, L!Finish
<1>5. \A n \in Normals : phase'[n] = phase[n]
  BY DEF L!ThreadsAssumption, LatchInv, L!TypeOK, L!Finish, L!Threads
<1>6. \A l \in (Tests \cup {Main}) : (phase[l] # "new" => phase'[l] # "new")
                              /\ (phase[l] = "over" => phase'[l] = "over")
  BY DEF LatchInv, L!TypeOK, L!Finish, L!Threads
<1>7. AwakeAfterBegin' /\ L!OutlastsLatch'
  BY <1>5, <1>6 DEF LatchInv, AwakeAfterBegin, L!OutlastsLatch
<1>8. QED
  BY <1>1, <1>4, <1>7 DEF LatchInv

(***************************************************************************)
(* A latch thread that dies stays counted.                                 *)
(***************************************************************************)
LEMMA DieKeeps ==
  ASSUME L!ThreadsAssumption, LatchInv, NEW t \in (Tests \cup {Main}), L!Die(t)
  PROVE  LatchInv'
<1>1. L!TypeOK'
  BY DEF LatchInv, L!TypeOK, L!Die, L!Threads, L!LatchPhases, L!NormalPhases
<1>2. L!Counted' = L!Counted
  BY DEF LatchInv, L!TypeOK, L!Die, L!Counted, L!Threads
<1>3. L!LatchCountsWorkers'
  BY <1>2 DEF LatchInv, L!LatchCountsWorkers, L!Die
<1>4. \A n \in Normals : phase'[n] = phase[n]
  BY DEF L!ThreadsAssumption, LatchInv, L!TypeOK, L!Die, L!Threads
<1>5. \A l \in (Tests \cup {Main}) : (phase[l] # "new" => phase'[l] # "new")
                              /\ (phase[l] = "over" => phase'[l] = "over")
  BY DEF LatchInv, L!TypeOK, L!Die, L!Threads
<1>6. AwakeAfterBegin' /\ L!OutlastsLatch'
  BY <1>4, <1>5 DEF LatchInv, AwakeAfterBegin, L!OutlastsLatch
<1>7. QED
  BY <1>1, <1>3, <1>6 DEF LatchInv

(***************************************************************************)
(* A normal thread touches neither the counter nor a latch thread, and     *)
(* leaves only when none is counted.                                       *)
(***************************************************************************)
LEMMA NormalKeeps ==
  ASSUME L!ThreadsAssumption, LatchInv, NEW t \in Normals, L!Wake(t) \/ L!Return(t) \/ L!Leave(t) \/ L!Die(t)
  PROVE  LatchInv'
<1> USE DEF L!Wake, L!Return, L!Leave, L!Die
<1>1. L!TypeOK'
  BY DEF L!ThreadsAssumption, LatchInv, L!TypeOK, L!Threads, L!LatchPhases, L!NormalPhases
<1>2. \A l \in (Tests \cup {Main}) : phase'[l] = phase[l]
  BY DEF L!ThreadsAssumption, LatchInv, L!TypeOK, L!Threads
<1>3. L!Counted' = L!Counted
  BY <1>2 DEF L!Counted
<1>4. L!LatchCountsWorkers'
  BY <1>3, SameSizes DEF LatchInv, L!LatchCountsWorkers
<1>5. \A l \in (Tests \cup {Main}) : phase[l] # "new"
  BY DEF LatchInv, AwakeAfterBegin
<1>6. AwakeAfterBegin'
  BY <1>2, <1>5 DEF AwakeAfterBegin
<1>7. CASE L!Leave(t)
  <2>1. L!Counted = {}
    BY <1>7, NotRunningEmpty DEF LatchInv
  <2>2. \A l \in (Tests \cup {Main}) : phase[l] = "over"
    BY <2>1, <1>5 DEF LatchInv, L!TypeOK, L!Counted, L!LatchPhases
  <2>3. L!OutlastsLatch'
    BY <1>2, <2>2 DEF L!OutlastsLatch
  <2>4. QED
    BY <1>1, <1>4, <1>6, <2>3 DEF LatchInv
<1>8. CASE L!Wake(t) \/ L!Return(t) \/ L!Die(t)
  <2>1. \A n \in Normals : phase'[n] = "left" => phase[n] = "left"
    BY <1>8 DEF LatchInv, L!TypeOK, L!Threads
  <2>2. L!OutlastsLatch'
    BY <1>2, <2>1 DEF LatchInv, L!OutlastsLatch
  <2>3. QED
    BY <1>1, <1>4, <1>6, <2>2 DEF LatchInv
<1>9. QED
  BY <1>7, <1>8

(***************************************************************************)
(* LatchNum counts the latch threads at work, and a normal thread that has *)
(* left because of it has outlasted them all (TbThread.py).                *)
(***************************************************************************)
THEOREM LatchInvariance ==
  ASSUME L!ThreadsAssumption
  PROVE  L!Spec => [](L!TypeOK /\ L!LatchCountsWorkers /\ L!OutlastsLatch)
<1>1. ASSUME LatchInv, L!Next
      PROVE  LatchInv'
  <2>1. ASSUME NEW t \in (Tests \cup {Main}), L!Begin(t) \/ L!Finish(t) \/ L!Die(t)
        PROVE  LatchInv'
    BY <1>1, <2>1, BeginKeeps, FinishKeeps, DieKeeps
  <2>2. ASSUME NEW t \in Normals, L!Wake(t) \/ L!Return(t) \/ L!Leave(t) \/ L!Die(t)
        PROVE  LatchInv'
    BY <1>1, <2>2, NormalKeeps
  <2>3. QED
    BY <1>1, <2>1, <2>2 DEF L!Next
<1>2. ASSUME LatchInv, UNCHANGED (L!latchVars)
      PROVE  LatchInv'
  BY <1>2 DEF L!latchVars, LatchInv, L!TypeOK, L!LatchCountsWorkers, AwakeAfterBegin,
     L!OutlastsLatch, L!Counted
<1>3. LatchInv => L!TypeOK /\ L!LatchCountsWorkers /\ L!OutlastsLatch
  BY DEF LatchInv
<1>4. QED
  BY <1>1, <1>2, <1>3, InitLatch, PTL DEF L!Spec

(***************************************************************************)
(* The same of the experiment: as long as a test is in its function the    *)
(* counter is positive, and what changes the network does not leave        *)
(* before it, whatever the commands of either do.                          *)
(***************************************************************************)
THEOREM TestbedOutlasts == Spec => [](L!LatchCountsWorkers /\ L!OutlastsLatch)
<1>1. L!ThreadsAssumption
  <2>1. IsFiniteSet(Tests \cup {Main})
    BY TestsAssumption, FS_AddElement
  <2>2. QED
    BY <2>1, TestsAssumption, SameSizes DEF L!ThreadsAssumption
<1>2. QED
  BY <1>1, LatchInvariance, LatchImplemented, PTL DEF ImplementsLatch

----------------------------------------------------------------------------
(* Servers before clients: the commands of the tests *)

Programs == {"intcptc", "intcpts", "intcpm", "intcps", "intcpc", "iperf3-s", "iperf3-c",
             "pepsal", "appserver", "appclient", "server.py", "client.py", "sniff.py"}
\* Where a test gives commands; which links a dynamic network has is not said.
Places(e) == IF e.dynamic THEN Names ELSE Nodes(e)
Steps(e) ==
  {Sleep} \cup [do : {"run", "kill", "note"}, at : Places(e),
                arg : Programs \cup {"counters"}, atomic : {TRUE}]
Runs(op, q) == op.do = "run" /\ <<op.at, op.arg>> = q
Kills(op, q) == op.do = "kill" /\ <<op.at, op.arg>> = q

\* Before step i of s, program q is running: it ran before s, or s has run it, and
\* it has not been killed since.
Standing(P, s, i, q) ==
  \/ q \in P /\ \A k \in 1..(i - 1) : ~Kills(s[k], q)
  \/ \E j \in 1..(i - 1) : Runs(s[j], q) /\ \A k \in (j + 1)..(i - 1) : ~Kills(s[k], q)

Proxy(e) == IF e.pep THEN {<<GS2, "intcpts">>} ELSE {}
NeedsOf(e, op) == Needs(op.arg) \cup (IF op.at \in {H1, H2} THEN Proxy(e) ELSE {})

\* Every program that s starts finds what it needs, if P runs when s begins.
Meets(e, P, s) ==
  \A i \in 1..Len(s) : s[i].do = "run" => \A q \in NeedsOf(e, s[i]) : Standing(P, s, i, q)

After(P, op) ==
  CASE op.do = "run" -> P \cup {<<op.at, op.arg>>}
    [] op.do = "kill" -> P \ {<<op.at, op.arg>>}
    [] OTHER -> P

\* The first step finds what it needs.
LEMMA HeadMeets ==
  ASSUME NEW e, NEW P, NEW s \in Seq(Steps(e)), s # <<>>, Meets(e, P, s), Head(s).do = "run"
  PROVE  NeedsOf(e, Head(s)) \subseteq P
<1>1. 1 \in 1..Len(s) /\ Head(s) = s[1]  OBVIOUS
<1>2. SUFFICES ASSUME NEW q \in NeedsOf(e, s[1])  PROVE q \in P
  BY <1>1
<1>3. Standing(P, s, 1, q)
  BY <1>1, <1>2 DEF Meets
<1>4. \A j \in 1..(1 - 1) : FALSE  OBVIOUS
<1> QED  BY <1>3, <1>4 DEF Standing

\* What stands before a step stands before it when the steps before it begin later.
LEMMA TailStands ==
  ASSUME NEW e, NEW P, NEW s \in Seq(Steps(e)), s # <<>>, NEW i \in 1..Len(Tail(s)), NEW q,
         Standing(P, s, i + 1, q)
  PROVE  Standing(After(P, Head(s)), Tail(s), i, q)
<1>1. /\ Len(s) \in Nat /\ i \in Nat /\ Len(Tail(s)) = Len(s) - 1 /\ 1 \in 1..i
      /\ Head(s) = s[1] /\ \A k \in 1..Len(Tail(s)) : Tail(s)[k] = s[k + 1]
      /\ i + 1 - 1 = i
  OBVIOUS
<1>2. CASE q \in P /\ \A k \in 1..i : ~Kills(s[k], q)
  <2>1. q \in After(P, Head(s))
    BY <1>1, <1>2 DEF After, Kills
  <2>2. \A k \in 1..(i - 1) : ~Kills(Tail(s)[k], q)
    <3> SUFFICES ASSUME NEW k \in 1..(i - 1)  PROVE ~Kills(Tail(s)[k], q)
      OBVIOUS
    <3>1. k \in 1..Len(Tail(s)) /\ k + 1 \in 1..i  BY <1>1
    <3> QED  BY <1>1, <1>2, <3>1
  <2> QED  BY <2>1, <2>2 DEF Standing
<1>3. ASSUME NEW j \in 1..i, Runs(s[j], q), \A k \in (j + 1)..i : ~Kills(s[k], q)
      PROVE  Standing(After(P, Head(s)), Tail(s), i, q)
  <2>1. CASE j = 1
    <3>1. q \in After(P, Head(s))
      BY <1>1, <1>3, <2>1 DEF After, Runs
    <3>2. \A k \in 1..(i - 1) : ~Kills(Tail(s)[k], q)
      <4> SUFFICES ASSUME NEW k \in 1..(i - 1)  PROVE ~Kills(Tail(s)[k], q)
        OBVIOUS
      <4>1. k \in 1..Len(Tail(s)) /\ k + 1 \in (j + 1)..i  BY <1>1, <2>1
      <4> QED  BY <1>1, <1>3, <4>1
    <3> QED  BY <3>1, <3>2 DEF Standing
  <2>2. CASE j # 1
    <3>1. j - 1 \in 1..(i - 1) /\ j - 1 \in 1..Len(Tail(s)) /\ (j - 1) + 1 = j
      BY <1>1, <2>2
    <3>2. Runs(Tail(s)[j - 1], q)
      BY <1>1, <1>3, <3>1
    <3>3. \A k \in ((j - 1) + 1)..(i - 1) : ~Kills(Tail(s)[k], q)
      <4> SUFFICES ASSUME NEW k \in j..(i - 1)  PROVE ~Kills(Tail(s)[k], q)
        BY <3>1
      <4>1. k \in 1..Len(Tail(s)) /\ k + 1 \in (j + 1)..i  BY <1>1
      <4> QED  BY <1>1, <1>3, <4>1
    <3> QED  BY <3>1, <3>2, <3>3 DEF Standing
  <2> QED  BY <2>1, <2>2
<1> QED  BY <1>1, <1>2, <1>3 DEF Standing

\* The rest of a sequence that meets its needs meets them after its first step.
LEMMA TailMeets ==
  ASSUME NEW e, NEW P, NEW s \in Seq(Steps(e)), s # <<>>, Meets(e, P, s)
  PROVE  Tail(s) \in Seq(Steps(e)) /\ Meets(e, After(P, Head(s)), Tail(s))
<1>1. /\ Tail(s) \in Seq(Steps(e)) /\ Len(Tail(s)) = Len(s) - 1
      /\ \A k \in 1..Len(Tail(s)) : k + 1 \in 1..Len(s) /\ Tail(s)[k] = s[k + 1]
  OBVIOUS
<1>2. SUFFICES ASSUME NEW i \in 1..Len(Tail(s)), Tail(s)[i].do = "run",
                      NEW q \in NeedsOf(e, Tail(s)[i])
               PROVE  Standing(After(P, Head(s)), Tail(s), i, q)
  BY <1>1 DEF Meets
<1>3. Standing(P, s, i + 1, q)
  BY <1>1, <1>2 DEF Meets
<1> QED  BY <1>3, TailStands

\* What meets its needs does so whatever else runs.
LEMMA MeetsMore ==
  ASSUME NEW e, NEW P, NEW Q, P \subseteq Q, NEW s, Meets(e, P, s)
  PROVE  Meets(e, Q, s)
BY DEF Meets, Standing

\* A sequence that starts nothing needs nothing.
LEMMA SilentMeets ==
  ASSUME NEW e, NEW P, NEW s, \A i \in 1..Len(s) : s[i].do # "run"
  PROVE  Meets(e, P, s)
BY DEF Meets

\* Two sequences, the second of which needs what the first has left running.
LEMMA JoinMeets ==
  ASSUME NEW e, NEW P, NEW Q, NEW s \in Seq(Steps(e)), NEW r \in Seq(Steps(e)),
         Meets(e, P, s), Meets(e, Q, r),
         \A q \in Q : Standing(P, s, Len(s) + 1, q)
  PROVE  s \o r \in Seq(Steps(e)) /\ Meets(e, P, s \o r)
<1> DEFINE u == s \o r
           n == Len(s)
<1>1. /\ u \in Seq(Steps(e)) /\ n \in Nat /\ Len(u) = n + Len(r) /\ Len(r) \in Nat
      /\ \A k \in 1..n : u[k] = s[k]
      /\ \A k \in 1..Len(r) : u[n + k] = r[k]
  OBVIOUS
<1> HIDE DEF u
<1>2. ASSUME NEW i \in 1..Len(u), u[i].do = "run", NEW q \in NeedsOf(e, u[i])
      PROVE  Standing(P, u, i, q)
  <2>1. CASE i \in 1..n
    <3>1. Standing(P, s, i, q)
      BY <1>1, <1>2, <2>1 DEF Meets
    <3>2. \A k \in 1..(i - 1) : u[k] = s[k]
      BY <1>1, <2>1
    <3> QED  BY <3>1, <3>2, <1>1, <2>1 DEF Standing
  <2>2. CASE i \notin 1..n
    <3> DEFINE l == i - n
    <3>1. l \in 1..Len(r) /\ i = n + l /\ u[i] = r[l] /\ l \in Nat
      BY <1>1, <2>2
    <3> HIDE DEF l
    <3>2. Standing(Q, r, l, q)
      BY <1>2, <3>1 DEF Meets
    <3>3. \A k \in 1..(i - 1) : IF k <= n THEN u[k] = s[k]
                                ELSE k - n \in 1..(l - 1) /\ u[k] = r[k - n]
      <4> SUFFICES ASSUME NEW k \in 1..(i - 1), ~(k <= n)
                   PROVE  k - n \in 1..(l - 1) /\ u[k] = r[k - n]
        BY <1>1, <3>1
      <4>1. k - n \in 1..(l - 1) /\ k - n \in 1..Len(r) /\ k = n + (k - n)
        BY <1>1, <3>1
      <4> QED  BY <4>1, <1>1
    <3>4. CASE q \in Q /\ \A k \in 1..(l - 1) : ~Kills(r[k], q)
      <4>1. Standing(P, s, n + 1, q) /\ n + 1 - 1 = n
        BY <1>1, <3>4
      <4>2. CASE q \in P /\ \A k \in 1..n : ~Kills(s[k], q)
        <5>1. \A k \in 1..(i - 1) : ~Kills(u[k], q)
          BY <1>1, <3>1, <3>3, <3>4, <4>2
        <5> QED  BY <5>1, <4>2 DEF Standing
      <4>3. ASSUME NEW j \in 1..n, Runs(s[j], q), \A k \in (j + 1)..n : ~Kills(s[k], q)
            PROVE  Standing(P, u, i, q)
        <5>1. j \in 1..(i - 1) /\ Runs(u[j], q)
          BY <1>1, <3>1, <4>3
        <5>2. \A k \in (j + 1)..(i - 1) : ~Kills(u[k], q)
          BY <1>1, <3>1, <3>3, <3>4, <4>3
        <5> QED  BY <5>1, <5>2 DEF Standing
      <4> QED  BY <4>1, <4>2, <4>3 DEF Standing
    <3>5. ASSUME NEW j \in 1..(l - 1), Runs(r[j], q), \A k \in (j + 1)..(l - 1) : ~Kills(r[k], q)
          PROVE  Standing(P, u, i, q)
      <4>1. n + j \in 1..(i - 1) /\ j \in 1..Len(r) /\ Runs(u[n + j], q)
        BY <1>1, <3>1, <3>5
      <4>2. \A k \in ((n + j) + 1)..(i - 1) : ~Kills(u[k], q)
        <5> SUFFICES ASSUME NEW k \in ((n + j) + 1)..(i - 1)  PROVE ~Kills(u[k], q)
          OBVIOUS
        <5>1. k \in 1..(i - 1) /\ ~(k <= n) /\ k - n \in (j + 1)..(l - 1)
          BY <1>1, <3>1, <3>5
        <5> QED  BY <5>1, <3>3, <3>5
      <4> QED  BY <4>1, <4>2 DEF Standing
    <3> QED  BY <3>2, <3>4, <3>5 DEF Standing
  <2> QED  BY <2>1, <2>2
<1>3. Meets(e, P, u)
  BY <1>2 DEF Meets
<1> QED  BY <1>1, <1>3 DEF u

NoKills(s) == \A i \in 1..Len(s) : s[i].do # "kill"

\* s meets its needs by itself, and leaves Q running.
Ready(e, s, Q) ==
  s \in Seq(Steps(e)) /\ Meets(e, {}, s) /\ \A q \in Q : Standing({}, s, Len(s) + 1, q)

\* A sequence that needs the proxies at most and kills nothing
Flow(e, r) == r \in Seq(Steps(e)) /\ Meets(e, Proxy(e), r) /\ NoKills(r)

\* What runs before a sequence that kills nothing runs after it.
LEMMA ReadyThen ==
  ASSUME NEW e \in Experiments, NEW s, NEW Q, NEW R, Ready(e, s, Q),
         NEW r \in Seq(Steps(e)), Meets(e, Q, r), NoKills(r),
         \A q \in R : \E j \in 1..Len(r) : Runs(r[j], q)
  PROVE  Ready(e, s \o r, Q \cup R)
<1> DEFINE u == s \o r
           n == Len(s)
<1>1. /\ s \in Seq(Steps(e)) /\ n \in Nat /\ Len(u) = n + Len(r) /\ Len(r) \in Nat
      /\ \A k \in 1..n : u[k] = s[k]
      /\ \A k \in 1..Len(r) : u[n + k] = r[k]
  BY DEF Ready
<1>2. u \in Seq(Steps(e)) /\ Meets(e, {}, u)
  BY JoinMeets DEF Ready
<1> HIDE DEF u, n
<1>3. n + 1 - 1 = n /\ Len(u) + 1 - 1 = Len(u)
  BY <1>1
<1>4. \A k \in 1..Len(u) : ~(k <= n) => u[k].do # "kill"
  <2> SUFFICES ASSUME NEW k \in 1..Len(u), ~(k <= n)  PROVE u[k].do # "kill"
    OBVIOUS
  <2>1. k - n \in 1..Len(r) /\ n + (k - n) = k
    BY <1>1
  <2> QED  BY <2>1, <1>1 DEF NoKills
<1>5. ASSUME NEW q \in Q  PROVE Standing({}, u, Len(u) + 1, q)
  <2>1. Standing({}, s, n + 1, q)
    BY DEF Ready, n
  <2>2. PICK j \in 1..n : Runs(s[j], q) /\ \A k \in (j + 1)..n : ~Kills(s[k], q)
    BY <2>1, <1>1, <1>3 DEF Standing
  <2>3. j \in 1..Len(u) /\ Runs(u[j], q)
    BY <1>1, <2>2
  <2>4. \A k \in (j + 1)..Len(u) : ~Kills(u[k], q)
    BY <1>1, <1>4, <2>2 DEF Kills
  <2> QED  BY <2>3, <2>4, <1>3 DEF Standing
<1>6. ASSUME NEW q \in R  PROVE Standing({}, u, Len(u) + 1, q)
  <2>1. PICK j \in 1..Len(r) : Runs(r[j], q)
    OBVIOUS
  <2>2. n + j \in 1..Len(u) /\ Runs(u[n + j], q)
    BY <1>1, <2>1
  <2>3. \A k \in ((n + j) + 1)..Len(u) : ~Kills(u[k], q)
    BY <1>1, <1>4 DEF Kills
  <2> QED  BY <2>2, <2>3, <1>3 DEF Standing
<1> QED  BY <1>2, <1>5, <1>6 DEF Ready, u

\* A flow after a prepared sequence
LEMMA ReadyFlow ==
  ASSUME NEW e \in Experiments, NEW s, Ready(e, s, Proxy(e)), NEW r, Flow(e, r)
  PROVE  Ready(e, s \o r, Proxy(e))
<1>1. Ready(e, s \o r, Proxy(e) \cup {})
  BY ReadyThen DEF Flow
<1> QED  BY <1>1

\* Waits, notes and kills start nothing.
LEMMA ReadySilent ==
  ASSUME NEW e \in Experiments, NEW s, Ready(e, s, {}), NEW r \in Seq(Steps(e)),
         \A i \in 1..Len(r) : r[i].do # "run"
  PROVE  Ready(e, s \o r, {})
<1>1. Meets(e, {}, r)
  BY SilentMeets
<1>2. s \o r \in Seq(Steps(e)) /\ Meets(e, {}, s \o r)
  BY <1>1, JoinMeets DEF Ready
<1> QED  BY <1>2 DEF Ready

\* What leaves something running leaves nothing to be desired.
LEMMA ReadyLess ==
  ASSUME NEW e \in Experiments, NEW s, NEW Q, NEW R, R \subseteq Q, Ready(e, s, Q)
  PROVE  Ready(e, s, R)
BY DEF Ready

\* The commands by their fields
LEMMA StepFields ==
  ASSUME NEW e, NEW at \in Places(e), NEW prog \in Programs
  PROVE  /\ Run(at, prog) \in Steps(e) /\ Run(at, prog).do = "run"
         /\ Run(at, prog).at = at /\ Run(at, prog).arg = prog
         /\ Kill(at, prog) \in Steps(e) /\ Kill(at, prog).do = "kill"
         /\ Note(at) \in Steps(e) /\ Note(at).do = "note"
         /\ Sleep \in Steps(e) /\ Sleep.do = "sleep"
<1>1. Run(at, prog) = [do |-> "run", at |-> at, arg |-> prog, atomic |-> TRUE]
  BY DEF Run, Cmd
<1>2. Kill(at, prog) = [do |-> "kill", at |-> at, arg |-> prog, atomic |-> TRUE]
  BY DEF Kill, Cmd
<1>3. Note(at) = [do |-> "note", at |-> at, arg |-> "counters", atomic |-> TRUE]
  BY DEF Note, Cmd
<1>4. Sleep = [do |-> "sleep", at |-> Nowhere, arg |-> "sleep", atomic |-> FALSE]
  BY DEF Sleep, Wait
<1>5. /\ Run(at, prog) \in Steps(e) /\ Run(at, prog).do = "run"
      /\ Run(at, prog).at = at /\ Run(at, prog).arg = prog
  BY <1>1 DEF Steps
<1>6. Kill(at, prog) \in Steps(e) /\ Kill(at, prog).do = "kill"
  BY <1>2 DEF Steps
<1>7. Note(at) \in Steps(e) /\ Note(at).do = "note"
  BY <1>3 DEF Steps
<1>8. Sleep \in Steps(e) /\ Sleep.do = "sleep"
  BY <1>4 DEF Steps
<1> QED  BY <1>5, <1>6, <1>7, <1>8

\* The names of the hosts and ground stations differ.
LEMMA PlaceNames ==
  /\ H1 \in Names /\ H2 \in Names /\ GS1 \in Names /\ GS2 \in Names
  /\ H1 # H2 /\ GS1 # GS2 /\ GS1 \notin {H1, H2} /\ GS2 \notin {H1, H2}
  /\ \A i \in Nat : Mid(i) \in Names
<1>1. H1 = <<"h", 1>> /\ H2 = <<"h", 2>> /\ GS1 = <<"gs", 1>> /\ GS2 = <<"gs", 2>>
  BY DEF H1, H2, GS1, GS2, Host, Ground
<1>2. H1 \in Names /\ H2 \in Names /\ GS1 \in Names /\ GS2 \in Names
  BY <1>1 DEF Names
<1>3. H1 # H2 /\ GS1 # GS2 /\ GS1 \notin {H1, H2} /\ GS2 \notin {H1, H2}
  BY <1>1
<1>4. ASSUME NEW i \in Nat  PROVE Mid(i) \in Names
  BY DEF Mid, Names
<1> QED  BY <1>2, <1>3, <1>4

\* The hosts and ground stations are nodes of every network.
LEMMA EndPlaces ==
  ASSUME NEW e \in Experiments
  PROVE  /\ H1 \in Places(e) /\ H2 \in Places(e) /\ GS1 \in Places(e) /\ GS2 \in Places(e)
         /\ e.dynamic => \A i \in Nat : Mid(i) \in Places(e)
         /\ ~e.dynamic => e.nodes \in Seq(Places(e))
<1>1. CASE e.dynamic
  BY <1>1, PlaceNames DEF Places
<1>2. CASE ~e.dynamic
  <2>1. ({H1, H2, GS1, GS2} \cup ToSet(e.nodes)) \subseteq Nodes(e) /\ e.nodes \in Seq(Names)
    BY <1>2, ExperimentsAssumption DEF TestParams
  <2>2. Places(e) = Nodes(e)
    BY <1>2 DEF Places
  <2>3. \A i \in 1..Len(e.nodes) : e.nodes[i] \in Nodes(e)
    BY <2>1 DEF ToSet
  <2>4. e.nodes \in Seq(Nodes(e))
    BY <2>1, <2>3
  <2> QED  BY <2>1, <2>2, <2>4, <1>2
<1> QED  BY <1>1, <1>2

\* The commands before a client meet its needs.
LEMMA PairFlow ==
  ASSUME NEW e \in Experiments, NEW a \in {H1, H2}, NEW b \in {H1, H2}, NEW server \in Programs, NEW client \in Programs,
         Needs(server) = {}, Needs(client) \subseteq {<<a, server>>}
  PROVE  /\ Flow(e, <<Run(a, server), Run(b, client)>>)
         /\ Flow(e, <<Run(a, server), Sleep, Run(b, client)>>)
         /\ Flow(e, <<Sleep, Run(a, server), Sleep, Run(b, client), Sleep>>)
<1>1. a \in Places(e) /\ b \in Places(e)
  BY EndPlaces
<1> DEFINE x == Run(a, server)
           y == Run(b, client)
           z == Sleep
           short == <<x, y>>
           long == <<x, z, y>>
           slow == <<z, x, z, y, z>>
<1>2. /\ x \in Steps(e) /\ x.do = "run" /\ <<x.at, x.arg>> = <<a, server>> /\ x.arg = server
      /\ y \in Steps(e) /\ y.do = "run" /\ y.arg = client
      /\ z \in Steps(e) /\ z.do = "sleep"
  BY <1>1, StepFields
<1>3. NeedsOf(e, x) \subseteq Proxy(e) /\ NeedsOf(e, y) \subseteq Proxy(e) \cup {<<a, server>>}
  BY <1>2 DEF NeedsOf
<1>4. Runs(x, <<a, server>>)
  BY <1>2 DEF Runs
<1>5. \A q : ~Kills(x, q) /\ ~Kills(y, q) /\ ~Kills(z, q)
  BY <1>2 DEF Kills
<1> HIDE DEF x, y, z
<1>6. Flow(e, short)
  <2>1. /\ short \in Seq(Steps(e)) /\ Len(short) = 2 /\ short[1] = x /\ short[2] = y
    BY <1>2
  <2> HIDE DEF short
  <2>2. NoKills(short)
    BY <2>1, <1>2 DEF NoKills
  <2>3. \A P, q : Standing(P, short, 1, q) <=> q \in P
    BY <2>1, <1>5 DEF Standing
  <2>4. \A P, q : q \in P => Standing(P, short, 2, q)
    BY <2>1, <1>5 DEF Standing
  <2>6. \A P : Standing(P, short, 2, <<a, server>>)
    <3>1. 1 \in 1..(2 - 1) /\ Runs(short[1], <<a, server>>)
      BY <2>1, <1>4
    <3>2. \A k \in (1 + 1)..(2 - 1) : ~Kills(short[k], <<a, server>>)
      BY <2>1, <1>5
    <3> QED  BY <3>1, <3>2 DEF Standing
  <2>5. Meets(e, Proxy(e), short)
    BY <2>1, <2>3, <2>4, <2>6, <1>3 DEF Meets
  <2> QED  BY <2>1, <2>2, <2>5 DEF Flow
<1>7. Flow(e, long)
  <2>1. /\ long \in Seq(Steps(e)) /\ Len(long) = 3 /\ long[1] = x /\ long[2] = z /\ long[3] = y
    BY <1>2
  <2> HIDE DEF long
  <2>2. NoKills(long)
    BY <2>1, <1>2 DEF NoKills
  <2>3. \A P, q : Standing(P, long, 1, q) <=> q \in P
    BY <2>1, <1>5 DEF Standing
  <2>4. \A P, q : q \in P => Standing(P, long, 3, q)
    BY <2>1, <1>5 DEF Standing
  <2>6. \A P : Standing(P, long, 3, <<a, server>>)
    <3>1. 1 \in 1..(3 - 1) /\ Runs(long[1], <<a, server>>)
      BY <2>1, <1>4
    <3>2. \A k \in (1 + 1)..(3 - 1) : ~Kills(long[k], <<a, server>>)
      BY <2>1, <1>5
    <3> QED  BY <3>1, <3>2 DEF Standing
  <2>5. Meets(e, Proxy(e), long)
    BY <2>1, <2>3, <2>4, <2>6, <1>2, <1>3 DEF Meets
  <2> QED  BY <2>1, <2>2, <2>5 DEF Flow
<1>8. Flow(e, slow)
  <2>1. /\ slow \in Seq(Steps(e)) /\ Len(slow) = 5 /\ slow[1] = z /\ slow[2] = x /\ slow[3] = z
        /\ slow[4] = y /\ slow[5] = z
    BY <1>2
  <2> HIDE DEF slow
  <2>2. NoKills(slow)
    BY <2>1, <1>2 DEF NoKills
  <2>3. \A P, q : q \in P => Standing(P, slow, 2, q)
    BY <2>1, <1>5 DEF Standing
  <2>4. \A P, q : q \in P => Standing(P, slow, 4, q)
    BY <2>1, <1>5 DEF Standing
  <2>6. \A P : Standing(P, slow, 4, <<a, server>>)
    <3>1. 2 \in 1..(4 - 1) /\ Runs(slow[2], <<a, server>>)
      BY <2>1, <1>4
    <3>2. \A k \in (2 + 1)..(4 - 1) : ~Kills(slow[k], <<a, server>>)
      BY <2>1, <1>5
    <3> QED  BY <3>1, <3>2 DEF Standing
  <2>5. Meets(e, Proxy(e), slow)
    BY <2>1, <2>3, <2>4, <2>6, <1>2, <1>3 DEF Meets
  <2> QED  BY <2>1, <2>2, <2>5 DEF Flow
<1> QED  BY <1>6, <1>7, <1>8 DEF x, y, z

\* start_midnode_processes starts both proxies, in the order the second needs.
LEMMA StartReady ==
  ASSUME NEW e \in Experiments, e.pep \in BOOLEAN, e.dynamic \in BOOLEAN
  PROVE  Ready(e, start_midnode_processes(e), Proxy(e))
<1> DEFINE x == Run(GS1, "intcptc")
           y == Run(GS2, "intcpts")
           z == Sleep
<1>1. /\ x \in Steps(e) /\ x.do = "run" /\ <<x.at, x.arg>> = <<GS1, "intcptc">> /\ x.arg = "intcptc"
      /\ y \in Steps(e) /\ y.do = "run" /\ <<y.at, y.arg>> = <<GS2, "intcpts">> /\ y.arg = "intcpts"
      /\ x.at = GS1 /\ y.at = GS2
      /\ z \in Steps(e) /\ z.do = "sleep"
  BY EndPlaces, PlaceNames, StepFields DEF Programs
<1>2. NeedsOf(e, x) = {} /\ NeedsOf(e, y) = {<<GS1, "intcptc">>}
  BY <1>1, PlaceNames DEF NeedsOf, Needs
<1>3. Runs(x, <<GS1, "intcptc">>) /\ Runs(y, <<GS2, "intcpts">>)
  BY <1>1 DEF Runs
<1>4. \A q : ~Kills(x, q) /\ ~Kills(y, q) /\ ~Kills(z, q)
  BY <1>1 DEF Kills
<1> HIDE DEF x, y, z
<1>5. CASE e.pep
  <2> DEFINE s == <<x, z, y, z>>
  <2>1. /\ s \in Seq(Steps(e)) /\ Len(s) = 4 /\ s[1] = x /\ s[2] = z /\ s[3] = y /\ s[4] = z
    BY <1>1
  <2>2. start_midnode_processes(e) = s
    BY <1>5 DEF start_midnode_processes, x, y, z
  <2> HIDE DEF s
  <2>3. Standing({}, s, 3, <<GS1, "intcptc">>) /\ Standing({}, s, 5, <<GS2, "intcpts">>)
    BY <2>1, <1>3, <1>4 DEF Standing
  <2>4. Meets(e, {}, s)
    <3> SUFFICES ASSUME NEW i \in 1..4, s[i].do = "run", NEW q \in NeedsOf(e, s[i])
                 PROVE  Standing({}, s, i, q)
      BY <2>1 DEF Meets
    <3>1. i = 3
      BY <2>1, <1>1, <1>2
    <3> QED  BY <3>1, <2>1, <2>3, <1>2
  <2>5. Len(s) + 1 = 5 /\ Proxy(e) = {<<GS2, "intcpts">>}
    BY <2>1, <1>5 DEF Proxy
  <2> QED  BY <2>1, <2>2, <2>3, <2>4, <2>5 DEF Ready
<1>6. CASE ~e.pep /\ e.dynamic
  <2> DEFINE s == <<z>>
  <2>1. s \in Seq(Steps(e)) /\ Len(s) = 1 /\ s[1] = z
    BY <1>1
  <2>2. start_midnode_processes(e) = s
    BY <1>6 DEF start_midnode_processes, z
  <2> HIDE DEF s
  <2>4. Meets(e, {}, s)
    BY <2>1, <1>1 DEF Meets
  <2> QED  BY <2>1, <2>2, <2>4, <1>6 DEF Ready, Proxy
<1>7. CASE ~e.pep /\ ~e.dynamic
  <2>2. start_midnode_processes(e) = <<>>
    BY <1>7 DEF start_midnode_processes
  <2>4. <<>> \in Seq(Steps(e)) /\ Meets(e, {}, <<>>)
    BY DEF Meets
  <2> QED  BY <2>2, <2>4, <1>7 DEF Ready, Proxy
<1> QED  BY <1>5, <1>6, <1>7

\* A sequence without runs
Silent(e, s) == s \in Seq(Steps(e)) /\ \A i \in 1..Len(s) : s[i].do # "run"

\* Rounds that meet their needs by themselves do so one after the other.
LEMMA TimesReady ==
  ASSUME NEW e \in Experiments, NEW r, Ready(e, r, {}), NEW n \in Nat
  PROVE  Ready(e, Times(n, r), {})
<1> DEFINE seqs(k) == [i \in 1..k |-> r]
           T == {k \in 0..n : Ready(e, FlattenSeq(seqs(k)), {})}
<1>0. r \in Seq(Steps(e))
  BY DEF Ready
<1>1. 0 \in T
  <2>1. seqs(0) = <<>> /\ Len(seqs(0)) = 0
    OBVIOUS
  <2>2. FlattenSeq(seqs(0)) = <<>>
    BY <2>1 DEF FlattenSeq
  <2>3. Ready(e, <<>>, {})
    BY DEF Ready, Meets
  <2> QED  BY <2>2, <2>3
<1>2. ASSUME NEW k \in 1..n, k - 1 \in T  PROVE k \in T
  <2>1. seqs(k - 1) \in Seq(Seq(Steps(e))) /\ Append(seqs(k - 1), r) = seqs(k)
    BY <1>0
  <2>2. FlattenSeq(seqs(k)) = FlattenSeq(seqs(k - 1)) \o r
    BY <2>1, <1>0, FlattenAppend
  <2>3. Ready(e, FlattenSeq(seqs(k - 1)), {})
    BY <1>2
  <2> HIDE DEF seqs
  <2>4. FlattenSeq(seqs(k - 1)) \o r \in Seq(Steps(e)) /\ Meets(e, {}, FlattenSeq(seqs(k - 1)) \o r)
    BY <2>3, JoinMeets DEF Ready
  <2>5. Ready(e, FlattenSeq(seqs(k)), {})
    BY <2>2, <2>4 DEF Ready
  <2> QED  BY <2>5
<1> HIDE DEF T
<1>3. \A k \in 0..n : k \in T
  BY <1>1, <1>2, Induct
<1>4. n \in T
  BY <1>3
<1> QED  BY <1>4 DEF T, Times

\* Repeated steps that kill nothing, and find what they need in Q
LEMMA TimesMeets ==
  ASSUME NEW e \in Experiments, NEW Q, NEW r \in Seq(Steps(e)), NEW n \in Nat, NoKills(r),
         \A i \in 1..Len(r) : r[i].do = "run" => NeedsOf(e, r[i]) \subseteq Q
  PROVE  Times(n, r) \in Seq(Steps(e)) /\ NoKills(Times(n, r)) /\ Meets(e, Q, Times(n, r))
<1> DEFINE seqs == [i \in 1..n |-> r]
           f == FlattenSeq(seqs)
<1>1. seqs \in Seq(Seq(Steps(e))) /\ Len(seqs) = n /\ \A p \in 1..n : seqs[p] = r
  OBVIOUS
<1>2. f \in Seq(Steps(e)) /\ InPlace(f, seqs, Len(seqs))
  BY <1>1, FlattenPlaces
<1> HIDE DEF f, seqs
<1>3. \A i \in 1..Len(f) : \E m \in 1..Len(r) : f[i] = r[m]
  BY <1>1, <1>2 DEF InPlace
<1>5. NoKills(f)
  BY <1>3 DEF NoKills
<1>6. Meets(e, Q, f)
  <2> SUFFICES ASSUME NEW i \in 1..Len(f), f[i].do = "run", NEW q \in NeedsOf(e, f[i])
               PROVE  Standing(Q, f, i, q)
    BY DEF Meets
  <2>1. q \in Q
    BY <1>3
  <2>2. \A k \in 1..(i - 1) : k \in 1..Len(f)
    BY <1>2
  <2> QED  BY <2>1, <2>2, <1>5 DEF Standing, NoKills, Kills
<1>7. f = Times(n, r)
  BY DEF f, seqs, Times
<1> QED  BY <1>2, <1>5, <1>6, <1>7

\* What is repeated occurs.
LEMMA TimesOccur ==
  ASSUME NEW e, NEW r \in Seq(Steps(e)), NEW n \in Nat, n > 0, NEW j \in 1..Len(r)
  PROVE  \E i \in 1..Len(Times(n, r)) : Times(n, r)[i] = r[j]
<1> DEFINE seqs == [i \in 1..n |-> r]
           f == FlattenSeq(seqs)
<1>1. seqs \in Seq(Seq(Steps(e))) /\ Len(seqs) = n /\ 1 \in 1..n /\ seqs[1] = r
  OBVIOUS
<1>2. InPlace(f, seqs, Len(seqs))
  BY <1>1, FlattenPlaces
<1> HIDE DEF f, seqs
<1>3. \A p \in 1..n : \A l \in 1..Len(seqs[p]) : \E i \in 1..Len(f) : f[i] = seqs[p][l]
  BY <1>1, <1>2 DEF InPlace
<1>4. \A l \in 1..Len(seqs[1]) : \E i \in 1..Len(f) : f[i] = seqs[1][l]
  BY <1>1, <1>3
<1>5. f = Times(n, r)
  BY DEF f, seqs, Times
<1> QED  BY <1>1, <1>4, <1>5

\* A flow, and more that needs the programs R of the first part
LEMMA FlowThen ==
  ASSUME NEW e \in Experiments, NEW a, Flow(e, a), NEW R,
         \A q \in R : \E j \in 1..Len(a) : Runs(a[j], q),
         NEW r \in Seq(Steps(e)), NoKills(r), Meets(e, Proxy(e) \cup R, r)
  PROVE  Flow(e, a \o r)
<1>1. /\ a \in Seq(Steps(e)) /\ Len(a) \in Nat /\ Len(a) + 1 - 1 = Len(a)
      /\ Len(a \o r) = Len(a) + Len(r)
      /\ \A k \in 1..Len(a) : (a \o r)[k] = a[k]
      /\ \A k \in 1..Len(a \o r) : ~(k <= Len(a)) =>
           k - Len(a) \in 1..Len(r) /\ (a \o r)[k] = r[k - Len(a)]
  BY DEF Flow
<1>2. \A q \in Proxy(e) \cup R : Standing(Proxy(e), a, Len(a) + 1, q)
  <2>1. \A k \in 1..Len(a) : \A q : ~Kills(a[k], q)
    BY DEF Flow, NoKills, Kills
  <2>2. ASSUME NEW q \in Proxy(e)  PROVE Standing(Proxy(e), a, Len(a) + 1, q)
    BY <1>1, <2>1 DEF Standing
  <2>3. ASSUME NEW q \in R  PROVE Standing(Proxy(e), a, Len(a) + 1, q)
    <3>1. PICK j \in 1..Len(a) : Runs(a[j], q)
      OBVIOUS
    <3>2. j \in 1..(Len(a) + 1 - 1) /\ \A k \in (j + 1)..(Len(a) + 1 - 1) : ~Kills(a[k], q)
      BY <1>1, <2>1
    <3> QED  BY <3>1, <3>2 DEF Standing
  <2> QED  BY <2>2, <2>3
<1>3. a \o r \in Seq(Steps(e)) /\ Meets(e, Proxy(e), a \o r)
  BY <1>2, JoinMeets DEF Flow
<1>4. NoKills(a \o r)
  <2> SUFFICES ASSUME NEW k \in 1..Len(a \o r)  PROVE (a \o r)[k].do # "kill"
    BY DEF NoKills
  <2>1. CASE k <= Len(a)
    <3>1. k \in 1..Len(a)  BY <2>1
    <3> QED  BY <3>1, <1>1 DEF Flow, NoKills
  <2>2. CASE ~(k <= Len(a))
    BY <2>2, <1>1 DEF NoKills
  <2> QED  BY <2>1, <2>2
<1> QED  BY <1>3, <1>4 DEF Flow

\* The kills inside the network start nothing.
LEMMA KillInsideSilent ==
  ASSUME NEW e, NEW nodes \in Seq(Places(e)), NEW prog \in Programs
  PROVE  Silent(e, KillInside(nodes, prog))
<1> DEFINE seqs == [i \in 1..Len(nodes) |->
                      IF nodes[i] \in {H1, H2} THEN <<>> ELSE <<Kill(nodes[i], prog)>>]
           f == FlattenSeq(seqs)
           X == {x \in Steps(e) : x.do = "kill"}
<1>1. \A i \in 1..Len(nodes) : <<>> \in Seq(X) /\ <<Kill(nodes[i], prog)>> \in Seq(X)
  <2> SUFFICES ASSUME NEW i \in 1..Len(nodes)  PROVE Kill(nodes[i], prog) \in X
    OBVIOUS
  <2>1. nodes[i] \in Places(e)
    OBVIOUS
  <2> QED  BY <2>1, StepFields
<1> HIDE DEF X
<1>2. seqs \in Seq(Seq(X))
  <2>1. seqs \in [1..Len(nodes) -> Seq(X)]
    BY <1>1
  <2>2. Len(nodes) \in Nat
    OBVIOUS
  <2> QED  BY <2>1, <2>2
<1>3. f \in Seq(X)
  BY <1>2, FlattenPlaces
<1>4. KillInside(nodes, prog) = f
  BY DEF KillInside, ForEach
<1> HIDE DEF f
<1>5. Silent(e, f)
  BY <1>3 DEF Silent, X
<1> QED  BY <1>4, <1>5

\* The parameters that the tests read
LEMMA ParamTypes ==
  ASSUME NEW e \in Experiments
  PROVE  /\ e.pep \in BOOLEAN /\ e.dynamic \in BOOLEAN
         /\ e.sendRound \in Nat /\ e.flowNum \in Nat /\ e.mids \in Nat
         /\ e.nodes \in Seq(Names)
BY ExperimentsAssumption DEF TestParams

\* A silent sequence without kills is a flow.
LEMMA WaitsFlow ==
  ASSUME NEW e \in Experiments, NEW r \in Seq(Steps(e)), \A i \in 1..Len(r) : r[i].do \notin {"run", "kill"}
  PROVE  Flow(e, r)
<1>1. Meets(e, Proxy(e), r)
  BY SilentMeets
<1> QED  BY <1>1 DEF Flow, NoKills

\* A wait starts and kills nothing.
LEMMA SleepFlow ==
  ASSUME NEW e \in Experiments
  PROVE  Flow(e, <<Sleep>>) /\ Silent(e, <<Sleep>>)
<1>1. Sleep \in Steps(e) /\ Sleep.do = "sleep"
  BY EndPlaces, StepFields DEF Programs
<1> DEFINE s == <<Sleep>>
<1>2. s \in Seq(Steps(e)) /\ \A i \in 1..Len(s) : s[i].do = "sleep"
  BY <1>1
<1> HIDE DEF s
<1>3. Flow(e, s)
  BY <1>2, WaitsFlow
<1>4. Silent(e, s)
  BY <1>2 DEF Silent
<1> QED  BY <1>3, <1>4 DEF s

\* Reading the counters starts and kills nothing.
LEMMA CountersFlow ==
  ASSUME NEW e \in Experiments
  PROVE  Flow(e, Counters(e)) /\ Silent(e, Counters(e))
<1>1. Note(H1) \in Steps(e) /\ Note(H2) \in Steps(e) /\ Note(H1).do = "note" /\ Note(H2).do = "note"
  BY EndPlaces, StepFields DEF Programs
<1>2. \A s \in {<<>>, <<Note(H2), Note(H2)>>, <<Note(H1), Note(H1), Note(H1), Note(H1)>>} :
        s \in Seq(Steps(e)) /\ \A i \in 1..Len(s) : s[i].do = "note"
  <2> DEFINE x == Note(H2)
             y == Note(H1)
             OK(s) == s \in Seq(Steps(e)) /\ \A i \in 1..Len(s) : s[i].do = "note"
  <2>0. x \in Steps(e) /\ y \in Steps(e) /\ x.do = "note" /\ y.do = "note"
    BY <1>1
  <2> HIDE DEF x, y
  <2>1. OK(<<>>) /\ OK(<<x, x>>) /\ OK(<<y, y, y, y>>)
    <3>1. OK(<<x, x>>)  BY <2>0
    <3>2. <<y, y, y, y>> \in Seq(Steps(e))  BY <2>0
    <3>3. \A i \in 1..4 : <<y, y, y, y>>[i] = y  OBVIOUS
    <3> QED  BY <3>1, <3>2, <3>3, <2>0
  <2> QED  BY <2>1 DEF x, y
<1>3. Counters(e) \in {<<>>, <<Note(H2), Note(H2)>>, <<Note(H1), Note(H1), Note(H1), Note(H1)>>}
  BY DEF Counters
<1>4. Counters(e) \in Seq(Steps(e)) /\ \A i \in 1..Len(Counters(e)) : Counters(e)[i].do = "note"
  BY <1>2, <1>3
<1>5. Flow(e, Counters(e))
  BY <1>4, WaitsFlow
<1> QED  BY <1>4, <1>5 DEF Silent

\* Two sequences without runs
LEMMA SilentJoin ==
  ASSUME NEW e, NEW s, NEW r, Silent(e, s), Silent(e, r)
  PROVE  Silent(e, s \o r)
<1> SUFFICES ASSUME NEW k \in 1..Len(s \o r)  PROVE (s \o r)[k].do # "run"
  BY DEF Silent
<1>1. k <= Len(s) => k \in 1..Len(s) /\ (s \o r)[k] = s[k]
  BY DEF Silent
<1>2. ~(k <= Len(s)) => k - Len(s) \in 1..Len(r) /\ (s \o r)[k] = r[k - Len(s)]
  BY DEF Silent
<1> QED  BY <1>1, <1>2 DEF Silent

\* The kills at the end of a round start nothing.
LEMMA KillsSilent ==
  ASSUME NEW e \in Experiments
  PROVE  Silent(e, kill_intcp_processes(e)) /\ Silent(e, kill_pep_processes(e))
<1>1. ASSUME NEW p \in Programs, NEW q \in Programs
      PROVE  Silent(e, <<Kill(H2, p), Kill(H1, q)>>)
  <2> DEFINE s == <<Kill(H2, p), Kill(H1, q)>>
  <2>1. Kill(H2, p) \in Steps(e) /\ Kill(H2, p).do = "kill" /\ Kill(H1, q) \in Steps(e) /\ Kill(H1, q).do = "kill"
    BY EndPlaces, StepFields
  <2>2. s \in Seq(Steps(e)) /\ \A i \in 1..Len(s) : s[i].do = "kill"
    BY <2>1
  <2> QED  BY <2>2 DEF Silent
<1>2. Silent(e, <<>>)
  BY DEF Silent
<1>3. <<GS1, GS2>> \in Seq(Places(e)) /\ (e.dynamic => MidNodes(e) \o <<GS1, GS2>> \in Seq(Places(e)))
  <2>1. <<GS1, GS2>> \in Seq(Places(e))
    BY EndPlaces
  <2>2. e.dynamic => MidNodes(e) \in Seq(Places(e))
    BY EndPlaces, ParamTypes DEF MidNodes
  <2> QED  BY <2>1, <2>2
<1>4. ~e.dynamic => e.nodes \in Seq(Places(e))
  BY EndPlaces
<1>5. \A nodes \in Seq(Places(e)) : Silent(e, KillInside(nodes, "intcpm")) /\ Silent(e, KillInside(nodes, "pepsal"))
  BY KillInsideSilent DEF Programs
<1>6. Silent(e, kill_intcp_processes(e))
  <2> DEFINE r == IF ~e.pep THEN <<>>
                  ELSE KillInside(IF e.dynamic THEN MidNodes(e) \o <<GS1, GS2>> ELSE e.nodes, "intcpm")
  <2>1. Silent(e, r)
    BY <1>2, <1>3, <1>4, <1>5
  <2>2. Silent(e, <<Kill(H2, "intcps"), Kill(H1, "intcpc")>>)
    BY <1>1 DEF Programs
  <2>3. kill_intcp_processes(e) = <<Kill(H2, "intcps"), Kill(H1, "intcpc")>> \o r
    BY DEF kill_intcp_processes
  <2> QED  BY <2>1, <2>2, <2>3, SilentJoin
<1>7. Silent(e, kill_pep_processes(e))
  <2> DEFINE r == IF ~e.pep THEN <<>>
                  ELSE KillInside(IF e.dynamic THEN <<GS1, GS2>> ELSE e.nodes, "pepsal")
  <2>1. Silent(e, r)
    BY <1>2, <1>3, <1>4, <1>5
  <2>2. Silent(e, <<Kill(H2, "iperf3-c"), Kill(H1, "iperf3-s")>>)
    BY <1>1 DEF Programs
  <2>3. kill_pep_processes(e) = <<Kill(H2, "iperf3-c"), Kill(H1, "iperf3-s")>> \o r
    BY DEF kill_pep_processes
  <2> QED  BY <2>1, <2>2, <2>3, SilentJoin
<1> QED  BY <1>6, <1>7

\* Servers and clients, in the order and with the waits of the tests
LEMMA PairsFlow ==
  ASSUME NEW e \in Experiments
  PROVE  /\ Flow(e, Iperf) /\ Flow(e, Intcp)
         /\ Flow(e, <<Run(H2, "appserver"), Sleep, Run(H1, "appclient")>>)
         /\ Flow(e, <<Run(H1, "server.py"), Run(H2, "client.py")>>)
         /\ Flow(e, <<Run(H2, "intcps"), Run(H1, "intcpc")>>)
         /\ Flow(e, <<Sleep, Run(H2, "intcps"), Sleep, Run(H1, "intcpc"), Sleep>>)
<1>1. /\ Needs("iperf3-s") = {} /\ Needs("iperf3-c") = {<<H1, "iperf3-s">>}
      /\ Needs("intcps") = {} /\ Needs("intcpc") = {<<H2, "intcps">>}
      /\ Needs("appserver") = {} /\ Needs("appclient") = {<<H2, "appserver">>}
      /\ Needs("server.py") = {} /\ Needs("client.py") = {<<H1, "server.py">>}
  BY DEF Needs
<1>2. {"iperf3-s", "iperf3-c", "intcps", "intcpc", "appserver", "appclient", "server.py",
       "client.py"} \subseteq Programs
  BY DEF Programs
<1>3. Flow(e, Iperf)
  BY <1>1, <1>2, PairFlow DEF Iperf
<1>4. /\ Flow(e, Intcp) /\ Flow(e, <<Run(H2, "intcps"), Run(H1, "intcpc")>>)
      /\ Flow(e, <<Sleep, Run(H2, "intcps"), Sleep, Run(H1, "intcpc"), Sleep>>)
  BY <1>1, <1>2, PairFlow DEF Intcp
<1>5. Flow(e, <<Run(H2, "appserver"), Sleep, Run(H1, "appclient")>>)
  BY <1>1, <1>2, PairFlow
<1>6. Flow(e, <<Run(H1, "server.py"), Run(H2, "client.py")>>)
  BY <1>1, <1>2, PairFlow
<1> QED  BY <1>3, <1>4, <1>5, <1>6

\* What measures a flow starts by itself.
LEMMA SniffFlow ==
  ASSUME NEW e \in Experiments
  PROVE  Flow(e, <<Run(H2, "sniff.py"), Run(H1, "sniff.py"), Sleep>>)
<1>1. /\ Run(H2, "sniff.py") \in Steps(e) /\ Run(H1, "sniff.py") \in Steps(e) /\ Sleep \in Steps(e)
      /\ Run(H2, "sniff.py").do = "run" /\ Run(H1, "sniff.py").do = "run" /\ Sleep.do = "sleep"
      /\ Run(H2, "sniff.py").arg = "sniff.py" /\ Run(H1, "sniff.py").arg = "sniff.py"
  BY EndPlaces, StepFields DEF Programs
<1> DEFINE x == Run(H2, "sniff.py")
           y == Run(H1, "sniff.py")
           z == Sleep
           s == <<x, y, z>>
<1>2. NeedsOf(e, x) \subseteq Proxy(e) /\ NeedsOf(e, y) \subseteq Proxy(e)
  BY <1>1 DEF NeedsOf, Needs
<1> HIDE DEF x, y, z
<1>3. s \in Seq(Steps(e)) /\ Len(s) = 3 /\ s[1] = x /\ s[2] = y /\ s[3] = z
  BY <1>1 DEF x, y, z
<1> HIDE DEF s
<1>4. NoKills(s)
  BY <1>1, <1>3 DEF NoKills, x, y, z
<1>5. \A i \in 1..3 : s[i].do = "run" => NeedsOf(e, s[i]) \subseteq Proxy(e)
  BY <1>1, <1>2, <1>3 DEF z
<1>6. \A i \in 1..3 : \A q \in Proxy(e) : Standing(Proxy(e), s, i, q)
  BY <1>3, <1>4 DEF Standing, Kills, NoKills
<1>7. Meets(e, Proxy(e), s)
  BY <1>3, <1>5, <1>6 DEF Meets
<1> QED  BY <1>3, <1>4, <1>7 DEF Flow, s, x, y, z

\* The tests that run one flow, and repeat it or not
LEMMA ThroughputReady ==
  ASSUME NEW e \in Experiments
  PROVE  Ready(e, ThroughputTest(e), {})
<1> DEFINE start == start_midnode_processes(e)
           flow == CASE e.protocol = "TCP" -> Iperf
                     [] e.protocol = "udt" -> <<Run(H2, "appserver"), Sleep, Run(H1, "appclient")>>
                     [] OTHER -> Intcp
           end == IF e.sendRound <= 1 THEN <<>>
                  ELSE IF e.protocol = "TCP" THEN kill_pep_processes(e)
                  ELSE kill_intcp_processes(e)
           round == start \o Counters(e) \o flow \o <<Sleep>> \o Counters(e) \o end \o <<Sleep>>
<1>1. ThroughputTest(e) = Times(e.sendRound, round)
  BY DEF ThroughputTest
<1>2. Ready(e, start, Proxy(e))
  BY ParamTypes, StartReady
<1>3. Flow(e, flow)
  BY PairsFlow
<1>4. Silent(e, end)
  <2>1. Silent(e, <<>>)  BY DEF Silent
  <2> QED  BY <2>1, KillsSilent
<1>5. Flow(e, Counters(e)) /\ Flow(e, <<Sleep>>) /\ Silent(e, <<Sleep>>)
  BY CountersFlow, SleepFlow
<1> HIDE DEF start, flow, end
<1>6. Ready(e, start \o Counters(e) \o flow \o <<Sleep>> \o Counters(e), Proxy(e))
  <2>1. Ready(e, start \o Counters(e), Proxy(e))
    BY <1>2, <1>5, ReadyFlow
  <2>2. Ready(e, start \o Counters(e) \o flow, Proxy(e))
    BY <2>1, <1>3, ReadyFlow
  <2>3. Ready(e, start \o Counters(e) \o flow \o <<Sleep>>, Proxy(e))
    BY <2>2, <1>5, ReadyFlow
  <2> QED  BY <2>3, <1>5, ReadyFlow
<1>7. Ready(e, start \o Counters(e) \o flow \o <<Sleep>> \o Counters(e), {})
  BY <1>6, ReadyLess
<1>8. Ready(e, start \o Counters(e) \o flow \o <<Sleep>> \o Counters(e) \o end, {})
  BY <1>7, <1>4, ReadySilent DEF Silent
<1>9. Ready(e, round, {})
  BY <1>8, <1>5, ReadySilent DEF Silent
<1> HIDE DEF round
<1> QED  BY <1>1, <1>9, TimesReady, ParamTypes

\* The delay test
LEMMA OwdReady ==
  ASSUME NEW e \in Experiments
  PROVE  Ready(e, OwdTest(e), {})
<1> DEFINE start == start_midnode_processes(e)
           sniff == <<Run(H2, "sniff.py"), Run(H1, "sniff.py"), Sleep>>
           flow == <<Run(H2, "intcps"), Run(H1, "intcpc")>>
           both == <<Run(H2, "sniff.py"), Run(H1, "sniff.py"), Sleep,
                     Run(H2, "intcps"), Run(H1, "intcpc")>>
           tcp == <<Run(H1, "server.py"), Run(H2, "client.py")>>
           test == IF e.protocol = "TCP" THEN tcp ELSE both
<1>1. OwdTest(e) = start \o test \o <<Sleep>>
  BY DEF OwdTest
<1>2. Ready(e, start, Proxy(e))
  BY ParamTypes, StartReady
<1>3. Flow(e, sniff) /\ Flow(e, flow) /\ Flow(e, tcp) /\ Flow(e, <<Sleep>>)
  BY SniffFlow, PairsFlow, SleepFlow
<1>4. both = sniff \o flow
  OBVIOUS
<1> HIDE DEF sniff, flow, both, tcp, start
<1>5. Flow(e, both)
  <2>1. Meets(e, Proxy(e) \cup {}, flow) /\ flow \in Seq(Steps(e)) /\ NoKills(flow)
    BY <1>3 DEF Flow
  <2>2. Flow(e, sniff \o flow)
    BY <2>1, <1>3, FlowThen
  <2> QED  BY <2>2, <1>4
<1>6. Flow(e, test)
  BY <1>3, <1>5
<1> HIDE DEF test
<1>7. Ready(e, start \o test, Proxy(e))
  BY <1>2, <1>6, ReadyFlow
<1>8. Ready(e, start \o test \o <<Sleep>>, Proxy(e))
  BY <1>7, <1>3, ReadyFlow
<1> QED  BY <1>1, <1>8, ReadyLess

\* Notes start and kill nothing.
LEMMA NotesFlow ==
  ASSUME NEW e \in Experiments
  PROVE  Flow(e, <<Note(H2)>>) /\ Flow(e, <<Sleep, Note(H2)>>)
<1>1. Note(H2) \in Steps(e) /\ Note(H2).do = "note" /\ Sleep \in Steps(e) /\ Sleep.do = "sleep"
  BY EndPlaces, StepFields DEF Programs
<1> DEFINE x == Note(H2)
           z == Sleep
           s == <<x>>
           r == <<z, x>>
<1>2. x \in Steps(e) /\ z \in Steps(e) /\ x.do = "note" /\ z.do = "sleep"
  BY <1>1
<1> HIDE DEF x, z
<1>3. s \in Seq(Steps(e)) /\ \A i \in 1..Len(s) : s[i].do \notin {"run", "kill"}
  BY <1>2
<1>4. r \in Seq(Steps(e)) /\ \A i \in 1..Len(r) : r[i].do \notin {"run", "kill"}
  BY <1>2
<1> HIDE DEF s, r
<1>5. Flow(e, s) /\ Flow(e, r)
  BY <1>3, <1>4, WaitsFlow
<1> QED  BY <1>5 DEF s, r, x, z

\* The traffic test
LEMMA TrafficReady ==
  ASSUME NEW e \in Experiments
  PROVE  Ready(e, TrafficTest(e), {})
<1> DEFINE start == start_midnode_processes(e)
           test == IF e.protocol = "TCP" THEN <<Run(H1, "server.py"), Run(H2, "client.py")>>
                   ELSE <<Run(H2, "intcps"), Run(H1, "intcpc")>>
           one == <<Note(H2)>>
           two == <<Sleep, Note(H2)>>
<1>1. TrafficTest(e) = start \o one \o test \o two
  BY DEF TrafficTest
<1>2. Ready(e, start, Proxy(e))
  BY ParamTypes, StartReady
<1>3. Flow(e, one) /\ Flow(e, two) /\ Flow(e, test)
  BY NotesFlow, PairsFlow
<1> HIDE DEF start, test, one, two
<1>4. Ready(e, start \o one, Proxy(e))
  BY <1>2, <1>3, ReadyFlow
<1>5. Ready(e, start \o one \o test, Proxy(e))
  BY <1>3, <1>4, ReadyFlow
<1>6. Ready(e, start \o one \o test \o two, Proxy(e))
  BY <1>3, <1>5, ReadyFlow
<1> QED  BY <1>1, <1>6, ReadyLess

\* Throughput with delay
LEMMA ThrpWithOwdReady ==
  ASSUME NEW e \in Experiments
  PROVE  Ready(e, ThrpWithOwdTest(e), {})
<1> DEFINE start == start_midnode_processes(e)
           sniff == <<Run(H2, "sniff.py"), Run(H1, "sniff.py"), Sleep>>
           test == IF e.protocol = "TCP" THEN Iperf ELSE Intcp
           z == <<Sleep>>
<1>1. ThrpWithOwdTest(e) = start \o sniff \o test \o z
  BY DEF ThrpWithOwdTest
<1>2. Ready(e, start, Proxy(e))
  BY ParamTypes, StartReady
<1>3. Flow(e, sniff) /\ Flow(e, test) /\ Flow(e, z)
  BY SniffFlow, PairsFlow, SleepFlow
<1> HIDE DEF start, test, sniff, z
<1>4. Ready(e, start \o sniff, Proxy(e))
  BY <1>2, <1>3, ReadyFlow
<1>5. Ready(e, start \o sniff \o test, Proxy(e))
  BY <1>3, <1>4, ReadyFlow
<1>6. Ready(e, start \o sniff \o test \o z, Proxy(e))
  BY <1>3, <1>5, ReadyFlow
<1> QED  BY <1>1, <1>6, ReadyLess

\* The CPU test, which does nothing over TCP
LEMMA CpuReady ==
  ASSUME NEW e \in Experiments
  PROVE  Ready(e, cpuTest(e), {})
<1> DEFINE start == start_midnode_processes(e)
           test == <<Sleep, Run(H2, "intcps"), Sleep, Run(H1, "intcpc"), Sleep>>
<1>1. CASE e.protocol = "TCP"
  <2>1. cpuTest(e) = <<>>
    BY <1>1 DEF cpuTest
  <2> QED  BY <2>1 DEF Ready, Meets
<1>2. CASE e.protocol # "TCP"
  <2>1. cpuTest(e) = start \o test
    BY <1>2 DEF cpuTest
  <2>2. Ready(e, start, Proxy(e))
    BY ParamTypes, StartReady
  <2>4. Flow(e, test)
    BY PairsFlow
  <2> HIDE DEF start, test
  <2>3. Ready(e, start \o test, Proxy(e))
    BY <2>2, <2>4, ReadyFlow
  <2> QED  BY <2>1, <2>3, ReadyLess
<1> QED  BY <1>1, <1>2

\* Clients one after the other, when their server runs
LEMMA ClientsFlow ==
  ASSUME NEW e \in Experiments, NEW a, Flow(e, a), NEW n \in Nat, NEW b \in {H1, H2}, NEW client \in Programs,
         NEW q, Needs(client) = {q}, n > 0 => \E j \in 1..Len(a) : Runs(a[j], q)
  PROVE  Flow(e, a \o Times(n, <<Run(b, client), Sleep>>))
<1> DEFINE x == Run(b, client)
           z == Sleep
           r == <<x, z>>
           c == Times(n, r)
<1>1. x \in Steps(e) /\ z \in Steps(e) /\ x.do = "run" /\ x.arg = client /\ z.do = "sleep"
  BY EndPlaces, PlaceNames, StepFields
<1>2. NeedsOf(e, x) \subseteq Proxy(e) \cup {q}
  BY <1>1 DEF NeedsOf
<1> HIDE DEF x, z
<1>3. r \in Seq(Steps(e)) /\ Len(r) = 2 /\ r[1] = x /\ r[2] = z
  BY <1>1
<1> HIDE DEF r
<1>4. NoKills(r) /\ \A i \in 1..Len(r) : r[i].do = "run" => NeedsOf(e, r[i]) \subseteq Proxy(e) \cup {q}
  BY <1>1, <1>2, <1>3 DEF NoKills
<1>5. c \in Seq(Steps(e)) /\ NoKills(c) /\ Meets(e, Proxy(e) \cup {q}, c)
  BY <1>3, <1>4, TimesMeets
<1>6. CASE n > 0
  <2> HIDE DEF c
  <2>1. Flow(e, a \o c)
    BY <1>5, <1>6, FlowThen
  <2> QED  BY <2>1 DEF c, r, x, z
<1>7. CASE ~(n > 0)
  <2>1. [i \in 1..n |-> r] = <<>>
    BY <1>7
  <2>2. c = <<>>
    BY <2>1 DEF Times, FlattenSeq
  <2>3. a \o c = a
    BY <2>2 DEF Flow
  <2> QED  BY <2>3 DEF r, x, z
<1> QED  BY <1>6, <1>7

\* Several flows, one after the other
LEMMA FairnessReady ==
  ASSUME NEW e \in Experiments
  PROVE  Ready(e, FairnessTest(e), {})
<1> DEFINE n == e.flowNum
           start == start_midnode_processes(e)
           x == Run(H1, "iperf3-s")
           one == <<x>>
           servers == Times(n, one)
           z == <<Sleep>>
           tcp == servers \o z \o Times(n, <<Run(H2, "iperf3-c"), Sleep>>)
           server == <<Run(H2, "intcps"), Sleep>>
           intcp == server \o Times(n, <<Run(H1, "intcpc"), Sleep>>)
           test == IF e.protocol = "TCP" THEN tcp ELSE intcp
<1>1. FairnessTest(e) = start \o test \o z
  BY DEF FairnessTest
<1>2. Ready(e, start, Proxy(e))
  BY ParamTypes, StartReady
<1>3. Flow(e, z)
  BY SleepFlow
<1>4. n \in Nat
  BY ParamTypes
<1>5. Flow(e, tcp)
  <2>1. x \in Steps(e) /\ x.do = "run" /\ <<x.at, x.arg>> = <<H1, "iperf3-s">> /\ x.arg = "iperf3-s"
    BY EndPlaces, PlaceNames, StepFields DEF Programs
  <2>2. NeedsOf(e, x) \subseteq Proxy(e)
    BY <2>1 DEF NeedsOf, Needs
  <2>3. Runs(x, <<H1, "iperf3-s">>)
    BY <2>1 DEF Runs
  <2> HIDE DEF x
  <2>4. one \in Seq(Steps(e)) /\ Len(one) = 1 /\ one[1] = x
    BY <2>1
  <2> HIDE DEF one
  <2>5. NoKills(one) /\ \A i \in 1..Len(one) : one[i].do = "run" => NeedsOf(e, one[i]) \subseteq Proxy(e)
    BY <2>1, <2>2, <2>4 DEF NoKills
  <2>6. Flow(e, servers)
    BY <1>4, <2>4, <2>5, TimesMeets DEF Flow
  <2>7. n > 0 => \E i \in 1..Len(servers) : servers[i] = x
    <3> SUFFICES ASSUME n > 0  PROVE \E i \in 1..Len(servers) : servers[i] = x
      OBVIOUS
    <3>1. 1 \in 1..Len(one) /\ one[1] = x
      BY <2>4
    <3> QED  BY <3>1, <1>4, <2>4, TimesOccur
  <2> HIDE DEF servers, z
  <2>8. Flow(e, servers \o z)
    <3>1. z \in Seq(Steps(e)) /\ NoKills(z) /\ Meets(e, Proxy(e) \cup {}, z)
      BY <1>3 DEF Flow
    <3> QED  BY <2>6, <3>1, FlowThen
  <2>9. n > 0 => \E i \in 1..Len(servers \o z) : Runs((servers \o z)[i], <<H1, "iperf3-s">>)
    <3>1. /\ \A i \in 1..Len(servers) : (servers \o z)[i] = servers[i]
          /\ Len(servers) \in Nat /\ Len(z) \in Nat /\ Len(servers \o z) = Len(servers) + Len(z)
      BY <2>6, <1>3 DEF Flow
    <3> QED  BY <3>1, <2>7, <2>3
  <2>10. Needs("iperf3-c") = {<<H1, "iperf3-s">>} /\ "iperf3-c" \in Programs
    BY DEF Needs, Programs
  <2> QED  BY <1>4, <2>8, <2>9, <2>10, ClientsFlow
<1>6. Flow(e, intcp)
  <2> DEFINE y == Run(H2, "intcps")
             w == Sleep
             s == <<y, w>>
  <2>1. /\ y \in Steps(e) /\ y.do = "run" /\ <<y.at, y.arg>> = <<H2, "intcps">> /\ y.arg = "intcps"
        /\ w \in Steps(e) /\ w.do = "sleep"
    BY EndPlaces, PlaceNames, StepFields DEF Programs
  <2>2. NeedsOf(e, y) \subseteq Proxy(e)
    BY <2>1 DEF NeedsOf, Needs
  <2>3. Runs(y, <<H2, "intcps">>)
    BY <2>1 DEF Runs
  <2> HIDE DEF y, w
  <2>4. s \in Seq(Steps(e)) /\ Len(s) = 2 /\ s[1] = y /\ s[2] = w
    BY <2>1
  <2> HIDE DEF s
  <2>5. NoKills(s)
    BY <2>1, <2>4 DEF NoKills
  <2>6. \A q : q \in Proxy(e) => Standing(Proxy(e), s, 1, q)
    BY <2>4 DEF Standing
  <2>7. Meets(e, Proxy(e), s)
    BY <2>1, <2>2, <2>4, <2>6 DEF Meets
  <2>8. Flow(e, s) /\ \E j \in 1..Len(s) : Runs(s[j], <<H2, "intcps">>)
    BY <2>3, <2>4, <2>5, <2>7 DEF Flow
  <2>9. Needs("intcpc") = {<<H2, "intcps">>} /\ "intcpc" \in Programs
    BY DEF Needs, Programs
  <2>10. Flow(e, s \o Times(n, <<Run(H1, "intcpc"), Sleep>>))
    BY <1>4, <2>8, <2>9, ClientsFlow
  <2> QED  BY <2>10 DEF s, y, w
<1>7. Flow(e, test)
  BY <1>5, <1>6
<1> HIDE DEF start, test, z
<1>8. Ready(e, start \o test, Proxy(e))
  BY <1>2, <1>7, ReadyFlow
<1>9. Ready(e, start \o test \o z, Proxy(e))
  BY <1>8, <1>3, ReadyFlow
<1> QED  BY <1>1, <1>9, ReadyLess

\* Every test, alone, finds what its commands need.
LEMMA BodyReady ==
  ASSUME NEW e \in Experiments, NEW t \in Tests
  PROVE  Ready(e, Body(t, e), {}) /\ (TestOf(e.testType) # t => Body(t, e) = <<>>)
<1>1. e \in TestParams
  BY ExperimentsAssumption
<1>2. CASE TestOf(e.testType) # t
  <2>1. Body(t, e) = <<>>
    BY <1>2 DEF Body
  <2> QED  BY <2>1 DEF Ready, Meets
<1>3. CASE TestOf(e.testType) = t
  <2>1. TestOf(e.testType) \in {"ThroughputTest", "OwdTest", "TrafficTest", "ThrpWithOwdTest",
                                "FairnessTest", "cpuTest", "none"}
    BY DEF TestOf
  <2>2. t \in {"ThroughputTest", "OwdTest", "TrafficTest", "ThrpWithOwdTest", "FairnessTest",
               "cpuTest"}
    BY <1>3, <2>1, TestsAssumption
  <2>3. Body(t, e) \in {ThroughputTest(e), OwdTest(e), TrafficTest(e), ThrpWithOwdTest(e),
                        FairnessTest(e), cpuTest(e)}
    BY <1>3, <2>2 DEF Body
  <2>4. Ready(e, Body(t, e), {})
    BY <1>1, <2>3, ThroughputReady, OwdReady, TrafficReady, ThrpWithOwdReady, FairnessReady,
       CpuReady
  <2> QED  BY <2>4, <1>3
<1> QED  BY <1>2, <1>3

----------------------------------------------------------------------------
(* The threads that change the network start and end no programs. *)

\* What the threads that change the network do: no programs, and, if the experiment
\* has no bare commands, everything under atomicLock in a node of the network.
AtomicOnly(e) == ~e.dynamic /\ e.itmDown = <<>>
Lawful(e, op) == IsCommand(op) => op.atomic = TRUE /\ op.at \in Nodes(e)
Fits(e, kind, op) ==
  kind = "network" => /\ op.do \notin {"run", "kill"}
                      /\ AtomicOnly(e) => Lawful(e, op)

\* A sequence of such steps, or of anything
All(e, kind, s) == \E X : s \in Seq(X) /\ \A x \in X : Fits(e, kind, x)

\* Nothing to do
LEMMA AllEmpty ==
  ASSUME NEW e, NEW kind
  PROVE  All(e, kind, <<>>)
<1> DEFINE X == {}
<1>1. <<>> \in Seq(X) /\ \A x \in X : Fits(e, kind, x)
  OBVIOUS
<1> HIDE DEF X
<1> QED  BY <1>1 DEF All

\* One step
LEMMA AllOne ==
  ASSUME NEW e, NEW kind, NEW x, Fits(e, kind, x)
  PROVE  All(e, kind, <<x>>)
<1> DEFINE X == {x}
<1>1. <<x>> \in Seq(X) /\ \A y \in X : Fits(e, kind, y)
  OBVIOUS
<1> HIDE DEF X
<1> QED  BY <1>1 DEF All

\* Two sequences
LEMMA AllJoin ==
  ASSUME NEW e, NEW kind, NEW s, NEW r, All(e, kind, s), All(e, kind, r)
  PROVE  All(e, kind, s \o r)
<1>1. PICK X : s \in Seq(X) /\ \A x \in X : Fits(e, kind, x)
  BY DEF All
<1>2. PICK Y : r \in Seq(Y) /\ \A x \in Y : Fits(e, kind, x)
  BY DEF All
<1>3. s \in Seq(X \cup Y) /\ r \in Seq(X \cup Y)
  BY <1>1, <1>2
<1>4. s \o r \in Seq(X \cup Y) /\ \A x \in X \cup Y : Fits(e, kind, x)
  BY <1>1, <1>2, <1>3
<1> QED  BY <1>4 DEF All

\* The first step, and the rest
LEMMA AllTail ==
  ASSUME NEW e, NEW kind, NEW s, s # <<>>, All(e, kind, s)
  PROVE  All(e, kind, Tail(s)) /\ Fits(e, kind, Head(s))
<1>1. PICK X : s \in Seq(X) /\ \A x \in X : Fits(e, kind, x)
  BY DEF All
<1>2. Tail(s) \in Seq(X) /\ Head(s) \in X
  BY <1>1
<1> QED  BY <1>1, <1>2 DEF All

\* Sequences of such steps, one after the other
LEMMA AllFlat ==
  ASSUME NEW e, NEW kind, NEW n \in Nat, NEW seqs, seqs = [i \in 1..n |-> seqs[i]],
         \A i \in 1..n : All(e, kind, seqs[i])
  PROVE  All(e, kind, FlattenSeq(seqs))
<1> DEFINE X == UNION {{seqs[i][j] : j \in 1..Len(seqs[i])} : i \in 1..n}
<1>1. ASSUME NEW i \in 1..n  PROVE seqs[i] \in Seq(X) /\ \A j \in 1..Len(seqs[i]) : Fits(e, kind, seqs[i][j])
  <2>1. PICK Y : seqs[i] \in Seq(Y) /\ \A x \in Y : Fits(e, kind, x)
    BY <1>1 DEF All
  <2>2. \A j \in 1..Len(seqs[i]) : seqs[i][j] \in X
    OBVIOUS
  <2> HIDE DEF X
  <2>3. seqs[i] \in Seq(X)
    BY <2>1, <2>2
  <2>4. \A j \in 1..Len(seqs[i]) : seqs[i][j] \in Y
    BY <2>1
  <2> QED  BY <2>1, <2>3, <2>4
<1>2. ASSUME NEW x \in X  PROVE Fits(e, kind, x)
  <2>1. PICK i \in 1..n : x \in {seqs[i][j] : j \in 1..Len(seqs[i])}
    OBVIOUS
  <2>2. PICK j \in 1..Len(seqs[i]) : x = seqs[i][j]
    BY <2>1
  <2> QED  BY <2>2, <1>1
<1> HIDE DEF X
<1>3. seqs \in [1..n -> Seq(X)]
  BY <1>1
<1>4. seqs \in Seq(Seq(X))
  BY <1>3
<1>5. FlattenSeq(seqs) \in Seq(X)
  BY <1>4, FlattenPlaces
<1> QED  BY <1>2, <1>5 DEF All

\* The length is a number.
LEMMA AllLen ==
  ASSUME NEW e, NEW kind, NEW s, All(e, kind, s)
  PROVE  Len(s) \in Nat
BY DEF All

\* A sequence given by its elements
LEMMA AllEach ==
  ASSUME NEW e, NEW kind, NEW n \in Nat, NEW s, s = [i \in 1..n |-> s[i]],
         \A i \in 1..n : Fits(e, kind, s[i])
  PROVE  All(e, kind, s)
<1> DEFINE X == {s[i] : i \in 1..n}
<1>1. \A x \in X : Fits(e, kind, x)
  OBVIOUS
<1>2. \A i \in 1..n : s[i] \in X
  OBVIOUS
<1> HIDE DEF X
<1>3. s \in Seq(X)
  BY <1>2
<1> QED  BY <1>1, <1>3 DEF All

\* The commands for the two ends of a link
LEMMA EndsAll ==
  ASSUME NEW e, NEW link, NEW do \in {"config", "down", "up"},
         AtomicOnly(e) => link.a \in Nodes(e) /\ link.b \in Nodes(e)
  PROVE  All(e, "network", Ends(link, do))
<1> DEFINE x == Cmd(do, link.a, link.seg)
           y == Cmd(do, link.b, link.seg)
<1>1. /\ x.do = do /\ x.atomic = TRUE /\ x.at = link.a
      /\ y.do = do /\ y.atomic = TRUE /\ y.at = link.b
  BY DEF Cmd
<1>2. Ends(link, do) = <<x>> \o <<y>>
  BY DEF Ends
<1> HIDE DEF x, y
<1>3. Fits(e, "network", x) /\ Fits(e, "network", y)
  BY <1>1 DEF Fits, Lawful
<1>4. All(e, "network", <<x>>) /\ All(e, "network", <<y>>)
  BY <1>3, AllOne
<1> QED  BY <1>2, <1>4, AllJoin

\* How many commands a path takes is a number.
LEMMA PathIsSeq ==
  ASSUME NEW e, NEW verb, NEW nodes, Len(nodes) \in Nat \ {0}, NEW segs
  PROVE  All(e, "any", PathCommands(verb, nodes, segs))
<1> DEFINE n == Len(nodes)
           forward == [i \in 1..(n - 1) |->
                         Route(nodes[i], verb, Default, <<segs[i][1], 3 - segs[i][2]>>)]
           last == <<Route(nodes[n], verb, Default, segs[n - 1])>>
           back(k) == [j \in 1..(k - 2) |-> Route(nodes[k], verb, segs[j][1], segs[k - 1])]
           backs == [k \in 1..(n - 1) |-> IF k < 3 THEN <<>> ELSE back(k)]
<1>1. All(e, "any", forward)
  <2>1. n - 1 \in Nat /\ \A i \in 1..(n - 1) : Fits(e, "any", forward[i])
    BY DEF Fits
  <2>2. forward = [i \in 1..(n - 1) |-> forward[i]]
    OBVIOUS
  <2> HIDE DEF forward, n
  <2> QED  BY <2>1, <2>2, AllEach
<1>2. All(e, "any", last)
  BY AllOne DEF Fits
<1>3. \A k \in 1..(n - 1) : All(e, "any", backs[k])
  <2> SUFFICES ASSUME NEW k \in 1..(n - 1)  PROVE All(e, "any", backs[k])
    OBVIOUS
  <2>1. CASE k < 3
    BY <2>1, AllEmpty
  <2>2. CASE ~(k < 3)
    <3> DEFINE b == back(k)
    <3>1. k - 2 \in Nat /\ b = [j \in 1..(k - 2) |-> b[j]] /\ \A j \in 1..(k - 2) : Fits(e, "any", b[j])
      BY <2>2 DEF Fits
    <3>2. backs[k] = b
      BY <2>2
    <3> HIDE DEF b, backs
    <3>3. All(e, "any", b)
      BY <3>1, AllEach
    <3> QED  BY <3>2, <3>3
  <2> QED  BY <2>1, <2>2
<1>4. n - 1 \in Nat /\ backs = [k \in 1..(n - 1) |-> backs[k]]
  OBVIOUS
<1>5. PathCommands(verb, nodes, segs) = forward \o last \o FlattenSeq(backs)
  BY DEF PathCommands
<1> HIDE DEF forward, last, backs, n
<1>6. All(e, "any", FlattenSeq(backs))
  BY <1>3, <1>4, AllFlat
<1>7. All(e, "any", forward \o last)
  BY <1>1, <1>2, AllJoin
<1>8. All(e, "any", forward \o last \o FlattenSeq(backs))
  BY <1>6, <1>7, AllJoin
<1> QED  BY <1>5, <1>8

\* The same of the routes that MakeItm lays again
LEMMA ResetIsSeq ==
  ASSUME NEW e, NEW nodes, Len(nodes) \in Nat \ {0}
  PROVE  All(e, "any", routeReset(nodes))
<1> DEFINE n == Len(nodes)
           forward == [i \in 1..(n - 1) |->
                         Route(nodes[i], "add", Default, <<IF i = n - 1 THEN GroundSeg ELSE i, 2>>)]
           last == <<Route(nodes[n], "add", Default, <<GroundSeg, 1>>)>>
           back(k) == [j \in 1..(k - 2) |-> Route(nodes[k], "add", j, <<k - 1, 1>>)]
           backs == [k \in 1..(n - 1) |-> IF k < 3 THEN <<>> ELSE back(k)]
<1>1. All(e, "any", forward)
  <2>1. n - 1 \in Nat /\ \A i \in 1..(n - 1) : Fits(e, "any", forward[i])
    BY DEF Fits
  <2>2. forward = [i \in 1..(n - 1) |-> forward[i]]
    OBVIOUS
  <2> HIDE DEF forward, n
  <2> QED  BY <2>1, <2>2, AllEach
<1>2. All(e, "any", last)
  BY AllOne DEF Fits
<1>3. \A k \in 1..(n - 1) : All(e, "any", backs[k])
  <2> SUFFICES ASSUME NEW k \in 1..(n - 1)  PROVE All(e, "any", backs[k])
    OBVIOUS
  <2>1. CASE k < 3
    BY <2>1, AllEmpty
  <2>2. CASE ~(k < 3)
    <3> DEFINE b == back(k)
    <3>1. k - 2 \in Nat /\ b = [j \in 1..(k - 2) |-> b[j]] /\ \A j \in 1..(k - 2) : Fits(e, "any", b[j])
      BY <2>2 DEF Fits
    <3>2. backs[k] = b
      BY <2>2
    <3> HIDE DEF b, backs
    <3>3. All(e, "any", b)
      BY <3>1, AllEach
    <3> QED  BY <3>2, <3>3
  <2> QED  BY <2>1, <2>2
<1>4. n - 1 \in Nat /\ backs = [k \in 1..(n - 1) |-> backs[k]]
  OBVIOUS
<1>5. routeReset(nodes) = forward \o last \o FlattenSeq(backs)
  BY DEF routeReset
<1> HIDE DEF forward, last, backs, n
<1>6. All(e, "any", FlattenSeq(backs))
  BY <1>3, <1>4, AllFlat
<1>7. All(e, "any", forward \o last)
  BY <1>1, <1>2, AllJoin
<1>8. All(e, "any", forward \o last \o FlattenSeq(backs))
  BY <1>6, <1>7, AllJoin
<1> QED  BY <1>5, <1>8

\* Route commands, one by one
LEMMA BareAll ==
  ASSUME NEW e, ~AtomicOnly(e), NEW cmds, Len(cmds) \in Nat
  PROVE  All(e, "network", BareRoutes(cmds))
<1> DEFINE seqs == [i \in 1..Len(cmds) |-> <<Bare("route", cmds[i].at, cmds[i])>>]
<1>1. \A i \in 1..Len(cmds) : Bare("route", cmds[i].at, cmds[i]).do = "route"
  BY DEF Bare, Cmd
<1>2. \A i \in 1..Len(cmds) : All(e, "network", seqs[i])
  BY <1>1, AllOne DEF Fits
<1>3. seqs = [i \in 1..Len(cmds) |-> seqs[i]]
  OBVIOUS
<1>4. BareRoutes(cmds) = FlattenSeq(seqs)
  BY DEF BareRoutes, ForEach
<1> HIDE DEF seqs
<1> QED  BY <1>2, <1>3, <1>4, AllFlat

Quiet(e, s) == All(e, "network", s)

\* Waits are no commands.
LEMMA WaitQuiet ==
  ASSUME NEW e
  PROVE  Quiet(e, <<Caution>>) /\ Quiet(e, <<WhileLatch>>) /\ Quiet(e, <<WhileLatch, Caution>>)
<1> DEFINE x == Caution
           y == WhileLatch
           X == {x, y}
<1>1. x.do = "caution" /\ y.do = "while"
  BY DEF Caution, WhileLatch, Wait
<1> HIDE DEF x, y
<1>2. \A z \in X : Fits(e, "network", z)
  BY <1>1 DEF Fits, Lawful, IsCommand
<1>3. <<x>> \in Seq(X) /\ <<y>> \in Seq(X) /\ <<y, x>> \in Seq(X)
  OBVIOUS
<1> HIDE DEF X
<1>4. Quiet(e, <<x>>) /\ Quiet(e, <<y>>) /\ Quiet(e, <<y, x>>)
  BY <1>2, <1>3 DEF Quiet, All
<1> QED  BY <1>4 DEF x, y

\* The parameters that the other threads read
LEMMA LinkTypes ==
  ASSUME NEW e \in Experiments
  PROVE  /\ Len(e.links) \in Nat /\ Len(e.isls) \in Nat /\ e.topos \in Seq(Seq(Nat))
         /\ Len(e.varBw) \in Nat /\ Len(e.itmDown) \in Nat /\ Len(e.nodes) \in Nat
         /\ Len(LinksOf(e)) \in Nat /\ DOMAIN LinksOf(e) = 1..Len(LinksOf(e))
         /\ ~e.dynamic => DOMAIN LinksOf(e) = DOMAIN e.links
<1>1. /\ e.links \in Seq(Names \X Names) /\ e.isls \in Seq(Int \X Int)
      /\ e.topos \in Seq(Seq(Nat)) /\ e.varBw \in Seq(Nat) /\ e.itmDown \in Seq(Nat)
      /\ e.nodes \in Seq(Names)
  BY ExperimentsAssumption DEF TestParams
<1>2. Len(e.links) \in Nat /\ Len(e.isls) \in Nat
  BY <1>1
<1>3. /\ Len(StaticLinks(e.links)) = Len(e.links)
      /\ DOMAIN StaticLinks(e.links) = DOMAIN e.links
      /\ DOMAIN e.links = 1..Len(e.links)
  <2> DEFINE s == StaticLinks(e.links)
             X == {s[i] : i \in 1..Len(e.links)}
  <2>1. s = [i \in 1..Len(e.links) |-> s[i]]
    BY DEF StaticLinks
  <2> HIDE DEF s
  <2>2. s \in [1..Len(e.links) -> X]
    BY <2>1
  <2> HIDE DEF X
  <2> QED  BY <2>2, <1>1, <1>2 DEF s
<1>4. /\ Len(DynamicLinks(e.isls)) \in Nat
      /\ DOMAIN DynamicLinks(e.isls) = 1..Len(DynamicLinks(e.isls))
  <2> DEFINE s == [i \in 1..Len(e.isls) |-> Link(EndA(e.isls[i]), EndB(e.isls[i]), i + 1)]
             x == Link(H1, GS1, 1)
             y == Link(GS2, H2, GroundSeg)
             X == {s[i] : i \in 1..Len(e.isls)} \cup {x, y}
  <2>1. DynamicLinks(e.isls) = s \o <<x, y>>
    BY DEF DynamicLinks
  <2>2. \A i \in 1..Len(e.isls) : s[i] \in X
    OBVIOUS
  <2>3. s = [i \in 1..Len(e.isls) |-> s[i]]
    OBVIOUS
  <2>4. x \in X /\ y \in X
    OBVIOUS
  <2> HIDE DEF s, x, y, X
  <2>5. s \in Seq(X)
    BY <2>2, <2>3, <1>2
  <2>6. <<x, y>> \in Seq(X)
    BY <2>4
  <2> QED  BY <2>1, <2>5, <2>6
<1> QED  BY <1>1, <1>3, <1>4 DEF LinksOf

\* The ends of a link are nodes.
LEMMA LinkEnds ==
  ASSUME NEW e \in Experiments, NEW i \in DOMAIN LinksOf(e)
  PROVE  LinksOf(e)[i].a \in Nodes(e) /\ LinksOf(e)[i].b \in Nodes(e)
BY DEF Nodes, AllLinks

\* Commands for links, one after the other
LEMMA EachEnds ==
  ASSUME NEW e, NEW n \in Nat, NEW seqs, NEW ls, NEW do \in {"config", "down", "up"},
         seqs = [i \in 1..n |-> Ends(ls[i], do)],
         AtomicOnly(e) => \A i \in 1..n : ls[i].a \in Nodes(e) /\ ls[i].b \in Nodes(e)
  PROVE  Quiet(e, FlattenSeq(seqs))
<1>1. \A i \in 1..n : All(e, "network", seqs[i])
  BY EndsAll
<1>2. seqs = [i \in 1..n |-> seqs[i]]
  OBVIOUS
<1> QED  BY <1>1, <1>2, AllFlat DEF Quiet

\* Init configures links.
LEMMA InitQuiet ==
  ASSUME NEW e \in Experiments
  PROVE  Quiet(e, InitQueues(e))
<1> DEFINE ls == LinksOf(e)
           seqs == [i \in 1..Len(ls) |-> Ends(ls[i], "config")]
<1>1. InitQueues(e) = FlattenSeq(seqs)
  BY DEF InitQueues, ForEach
<1>2. Len(ls) \in Nat /\ \A i \in 1..Len(ls) : ls[i].a \in Nodes(e) /\ ls[i].b \in Nodes(e)
  BY LinkTypes, LinkEnds
<1> HIDE DEF ls
<1> QED  BY <1>1, <1>2, EachEnds

\* LinkUpdate configures links.
LEMMA UpdateQuiet ==
  ASSUME NEW e \in Experiments
  PROVE  Quiet(e, LinkUpdateRound(e))
<1> DEFINE n == Len(e.varBw)
           ls == [i \in 1..n |-> LinksOf(e)[e.varBw[i]]]
           seqs == [i \in 1..n |-> Ends(LinksOf(e)[e.varBw[i]], "config")]
<1>1. CASE e.dynamic \/ e.varBw = <<>>
  <2>1. LinkUpdateRound(e) = <<>>
    BY <1>1 DEF LinkUpdateRound
  <2> QED  BY <2>1, AllEmpty DEF Quiet
<1>2. CASE ~(e.dynamic \/ e.varBw = <<>>)
  <2>1. LinkUpdateRound(e) = <<WhileLatch>> \o FlattenSeq(seqs) \o <<Caution>>
    BY <1>2 DEF LinkUpdateRound, ForEach
  <2>2. seqs = [i \in 1..n |-> Ends(ls[i], "config")]
    OBVIOUS
  <2>3. n \in Nat
    BY LinkTypes
  <2>4. \A i \in 1..n : ls[i].a \in Nodes(e) /\ ls[i].b \in Nodes(e)
    <3> SUFFICES ASSUME NEW i \in 1..n  PROVE ls[i].a \in Nodes(e) /\ ls[i].b \in Nodes(e)
      OBVIOUS
    <3>1. e.varBw \in Seq(Nat) /\ ToSet(e.varBw) \subseteq DOMAIN e.links
      BY <1>2, ExperimentsAssumption DEF TestParams
    <3>2. e.varBw[i] \in DOMAIN LinksOf(e)
      BY <3>1, <1>2, LinkTypes DEF ToSet
    <3> QED  BY <3>2, LinkEnds
  <2> HIDE DEF seqs, ls, n
  <2>5. Quiet(e, FlattenSeq(seqs))
    BY <2>2, <2>3, <2>4, EachEnds
  <2>6. Quiet(e, <<WhileLatch>> \o FlattenSeq(seqs))
    BY <2>5, WaitQuiet, AllJoin DEF Quiet
  <2> QED  BY <2>1, <2>6, WaitQuiet, AllJoin DEF Quiet
<1> QED  BY <1>1, <1>2

\* MakeItm takes links down and up, and lays routes.
LEMMA ItmQuiet ==
  ASSUME NEW e \in Experiments
  PROVE  Quiet(e, MakeItmRound(e))
<1> DEFINE n == Len(e.itmDown)
           ls == [i \in 1..n |-> LinksOf(e)[e.itmDown[i]]]
           off == [i \in 1..n |-> Ends(LinksOf(e)[e.itmDown[i]], "down")]
           on == [i \in 1..n |-> Ends(LinksOf(e)[e.itmDown[i]], "up")]
           routes == BareRoutes(routeReset(e.nodes))
           x == Bare("ping", H1, H2)
           y == Bare("ping", H2, H1)
           pings == <<x, y>>
<1>1. CASE e.dynamic \/ e.itmDown = <<>>
  <2>1. MakeItmRound(e) = <<>>
    BY <1>1 DEF MakeItmRound
  <2> QED  BY <2>1, AllEmpty DEF Quiet
<1>2. CASE ~(e.dynamic \/ e.itmDown = <<>>)
  <2>1. MakeItmRound(e) = <<WhileLatch, Caution>> \o FlattenSeq(off) \o <<Caution>>
                            \o FlattenSeq(on) \o routes \o pings
    BY <1>2 DEF MakeItmRound, ForEach
  <2>2. off = [i \in 1..n |-> Ends(ls[i], "down")] /\ on = [i \in 1..n |-> Ends(ls[i], "up")]
    OBVIOUS
  <2>3. n \in Nat
    BY LinkTypes
  <2>0. ~AtomicOnly(e)
    BY <1>2 DEF AtomicOnly
  <2>4. Quiet(e, pings)
    <3>0. x.do = "ping" /\ y.do = "ping"
      BY DEF Bare, Cmd
    <3>1. Fits(e, "network", x) /\ Fits(e, "network", y)
      BY <2>0, <3>0 DEF Fits
    <3>2. pings = <<x>> \o <<y>>
      OBVIOUS
    <3> HIDE DEF x, y, pings
    <3> QED  BY <3>1, <3>2, AllOne, AllJoin DEF Quiet
  <2>5. Quiet(e, routes)
    <3>1. Len(e.nodes) \in Nat \ {0}
      <4>1. e.nodes \in Seq(Names) /\ e.nodes # <<>>
        BY <1>2, ExperimentsAssumption DEF TestParams
      <4> QED  BY <4>1
    <3>2. All(e, "any", routeReset(e.nodes))
      BY <3>1, ResetIsSeq
    <3>3. Len(routeReset(e.nodes)) \in Nat
      BY <3>2, AllLen
    <3> QED  BY <3>3, <2>0, BareAll DEF Quiet
  <2> HIDE DEF off, on, ls, n, routes, pings
  <2>6. Quiet(e, FlattenSeq(off)) /\ Quiet(e, FlattenSeq(on))
    BY <2>0, <2>2, <2>3, EachEnds
  <2>7. Quiet(e, <<WhileLatch, Caution>> \o FlattenSeq(off))
    BY <2>6, WaitQuiet, AllJoin DEF Quiet
  <2>8. Quiet(e, <<WhileLatch, Caution>> \o FlattenSeq(off) \o <<Caution>>)
    BY <2>7, WaitQuiet, AllJoin DEF Quiet
  <2>9. Quiet(e, <<WhileLatch, Caution>> \o FlattenSeq(off) \o <<Caution>> \o FlattenSeq(on))
    BY <2>6, <2>8, AllJoin DEF Quiet
  <2>10. Quiet(e, <<WhileLatch, Caution>> \o FlattenSeq(off) \o <<Caution>> \o FlattenSeq(on) \o routes)
    BY <2>5, <2>9, AllJoin DEF Quiet
  <2> QED  BY <2>1, <2>4, <2>10, AllJoin DEF Quiet
<1> QED  BY <1>1, <1>2

\* DynamicLinkUpdate configures links, and lifts and lays routes.
LEMMA DynamicQuiet ==
  ASSUME NEW e \in Experiments, e.dynamic, NEW prev \in Seq(Nat), NEW topo \in Seq(Nat)
  PROVE  Quiet(e, DynamicStep(e, prev, topo))
<1>1. ASSUME NEW t \in Seq(Nat)
      PROVE  Chain(t) \in Seq(Names) /\ Len(Chain(t)) = Len(t) + 4
  <2> DEFINE mids == [i \in 1..Len(t) |-> Mid(t[i])]
  <2>1. mids \in Seq(Names) /\ Len(mids) = Len(t)
    BY PlaceNames
  <2>2. <<H1, GS1>> \in Seq(Names) /\ <<GS2, H2>> \in Seq(Names)
    BY PlaceNames
  <2>3. Chain(t) = <<H1, GS1>> \o mids \o <<GS2, H2>>
    BY DEF Chain
  <2> HIDE DEF mids
  <2> QED  BY <2>1, <2>2, <2>3
<1>2. ASSUME NEW t \in Seq(Nat)
      PROVE  Len(setRoute(e.isls, t)) \in Nat /\ Len(clearRoute(e.isls, t)) \in Nat
  <2>1. Len(Chain(t)) \in Nat \ {0}
    BY <1>1
  <2>2. \A verb, segs : Len(PathCommands(verb, Chain(t), segs)) \in Nat
    BY <2>1, PathIsSeq, AllLen
  <2>3. Len(<<>>) \in Nat
    OBVIOUS
  <2> QED  BY <2>2, <2>3 DEF setRoute, clearRoute
<1>3. Quiet(e, ConfigChain(e, topo))
  <2> DEFINE nodes == Chain(topo)
             n == Len(nodes) - 1
             ls == [i \in 1..n |-> LinkOfHop(e, nodes[i], nodes[i + 1])]
             seqs == [i \in 1..n |-> Ends(LinkOfHop(e, nodes[i], nodes[i + 1]), "config")]
  <2>1. ConfigChain(e, topo) = FlattenSeq(seqs)
    BY DEF ConfigChain
  <2>2. seqs = [i \in 1..n |-> Ends(ls[i], "config")]
    OBVIOUS
  <2>3. n \in Nat /\ ~AtomicOnly(e)
    BY <1>1 DEF AtomicOnly
  <2> HIDE DEF seqs, ls, n
  <2> QED  BY <2>1, <2>2, <2>3, EachEnds
<1>4. Quiet(e, BareRoutes(clearRoute(e.isls, prev))) /\ Quiet(e, BareRoutes(setRoute(e.isls, topo)))
  BY <1>2, BareAll DEF Quiet, AtomicOnly
<1> DEFINE routes == IF topo = prev THEN <<>>
                     ELSE BareRoutes(clearRoute(e.isls, prev)) \o BareRoutes(setRoute(e.isls, topo))
<1>5. Quiet(e, routes)
  BY <1>4, AllJoin, AllEmpty DEF Quiet
<1>6. DynamicStep(e, prev, topo) = ConfigChain(e, topo) \o routes \o <<Caution>>
  BY DEF DynamicStep
<1> HIDE DEF routes
<1>7. Quiet(e, ConfigChain(e, topo) \o routes)
  BY <1>3, <1>5, AllJoin DEF Quiet
<1> QED  BY <1>6, <1>7, WaitQuiet, AllJoin DEF Quiet

\* No thread that changes the network starts or ends a program.
LEMMA RoundQuiet ==
  ASSUME NEW e \in Experiments, NEW t \in Normals, NEW prev \in Turns(e), NEW cur \in Turns(e)
  PROVE  Quiet(e, Rounds[e][t][prev][cur])
<1>1. Rounds[e][t][prev][cur] = Round(t, e, prev, cur)
  BY DEF Rounds
<1>3. CASE t = "Init"
  BY <1>1, <1>3, InitQuiet DEF Round
<1>4. CASE t = "LinkUpdate"
  BY <1>1, <1>4, UpdateQuiet DEF Round
<1>5. CASE t = "MakeItm"
  BY <1>1, <1>5, ItmQuiet DEF Round
<1>6. CASE t = "DynamicLinkUpdate"
  <2>1. CASE e.dynamic
    <3>1. e.topos[prev] \in Seq(Nat) /\ e.topos[cur] \in Seq(Nat)
      BY <2>1, LinkTypes DEF Turns
    <3>2. Round(t, e, prev, cur) = DynamicStep(e, e.topos[prev], e.topos[cur])
      BY <1>6, <2>1 DEF Round
    <3> QED  BY <1>1, <2>1, <3>1, <3>2, DynamicQuiet
  <2>2. CASE ~e.dynamic
    <3>1. Round(t, e, prev, cur) = <<>>
      BY <1>6, <2>2 DEF Round
    <3> QED  BY <1>1, <3>1, AllEmpty DEF Quiet
  <2> QED  BY <2>1, <2>2
<1> QED  BY <1>3, <1>4, <1>5, <1>6 DEF Normals

----------------------------------------------------------------------------
(* The theorem: servers before clients. *)

\* What is left of every thread's function: no programs in the threads that change
\* the network, and in a test, whatever runs now, servers before clients.
TodoInv ==
  /\ exp \in Experiments /\ turn \in Turns(exp)
  /\ todo = [t \in Threads |-> todo[t]]
  /\ \A t \in Normals : Quiet(exp, todo[t])
  /\ \A t \in Tests : /\ todo[t] \in Seq(Steps(exp)) /\ Meets(exp, procs, todo[t])
                      /\ TestOf(exp.testType) # t => todo[t] = <<>>

\* A dynamic network has a first topo.
LEMMA FirstTurn ==
  ASSUME NEW e \in Experiments
  PROVE  1 \in Turns(e)
<1>1. CASE e.dynamic
  <2>1. e.topos \in Seq(Seq(Nat)) /\ e.topos # <<>>
    BY <1>1, ExperimentsAssumption, LinkTypes
  <2> QED  BY <2>1, <1>1 DEF Turns
<1> QED  BY <1>1 DEF Turns

\* Nobody has anything to do at first.
LEMMA InitTodo == Init => TodoInv
<1> SUFFICES ASSUME Init  PROVE TodoInv
  OBVIOUS
<1>1. exp \in Experiments /\ turn = 1 /\ todo = [t \in Threads |-> <<>>]
  BY DEF Init
<1>2. turn \in Turns(exp)
  BY <1>1, FirstTurn
<1>3. \A t \in Normals : Quiet(exp, todo[t])
  BY <1>1, AllEmpty DEF Quiet, Threads
<1>4. \A t \in Tests : todo[t] \in Seq(Steps(exp)) /\ Meets(exp, procs, todo[t]) /\ todo[t] = <<>>
  BY <1>1 DEF Threads, Meets
<1> QED  BY <1>1, <1>2, <1>3, <1>4 DEF TodoInv

\* A test begins with its whole function, another with nothing.
LEMMA BeginTodo ==
  ASSUME TodoInv, NEW t \in Tests, Begin(t)
  PROVE  TodoInv'
<1>1. /\ todo' = [todo EXCEPT ![t] = Bodies[exp][t]] /\ Bodies[exp][t] = Body(t, exp)
      /\ exp' = exp /\ turn' = turn /\ procs' = procs
  BY DEF Begin, TodoInv, Bodies, netVars
<1>2. Ready(exp, Body(t, exp), {}) /\ (TestOf(exp.testType) # t => Body(t, exp) = <<>>)
  BY BodyReady DEF TodoInv
<1>3. Body(t, exp) \in Seq(Steps(exp)) /\ Meets(exp, procs, Body(t, exp))
  BY <1>2, MeetsMore DEF Ready
<1>4. t \in Threads /\ t \notin Normals
  BY TestsAssumption DEF Threads
<1>5. \A u \in Threads : todo'[u] = IF u = t THEN Body(t, exp) ELSE todo[u]
  BY <1>1, <1>4 DEF TodoInv
<1>6. todo' = [u \in Threads |-> todo'[u]]
  BY <1>1, <1>4 DEF TodoInv
<1>7. \A u \in Normals : Quiet(exp, todo'[u])
  BY <1>4, <1>5 DEF TodoInv, Threads
<1>8. \A u \in Tests : /\ todo'[u] \in Seq(Steps(exp)) /\ Meets(exp, procs, todo'[u])
                       /\ TestOf(exp.testType) # u => todo'[u] = <<>>
  BY <1>2, <1>3, <1>5 DEF TodoInv, Threads
<1> QED  BY <1>1, <1>6, <1>7, <1>8 DEF TodoInv

\* The next of m, in a ring
LEMMA NextInRing ==
  ASSUME NEW m \in Nat, m > 0, NEW a \in 1..m
  PROVE  (a % m) + 1 \in 1..m
OBVIOUS

\* The rounds of the other threads
LEMMA RoundTodo ==
  ASSUME TodoInv, NEW t \in Normals, Wake(t) \/ Again(t)
  PROVE  TodoInv'
<1> DEFINE next == IF t = "DynamicLinkUpdate" /\ exp.dynamic
                   THEN (turn % Len(exp.topos)) + 1 ELSE turn
<1>0. exp \in Experiments /\ turn \in Turns(exp)
  BY DEF TodoInv
<1>1. next \in Turns(exp)
  <2>1. CASE t = "DynamicLinkUpdate" /\ exp.dynamic
    <3>1. exp.topos \in Seq(Seq(Nat)) /\ exp.topos # <<>>
      BY <1>0, <2>1, ExperimentsAssumption, LinkTypes
    <3>2. Len(exp.topos) \in Nat /\ Len(exp.topos) > 0 /\ turn \in 1..Len(exp.topos)
      BY <3>1, <1>0, <2>1 DEF Turns
    <3>3. (turn % Len(exp.topos)) + 1 \in 1..Len(exp.topos)
      BY <3>2, NextInRing
    <3>4. DOMAIN exp.topos = 1..Len(exp.topos)
      BY <3>1
    <3> QED  BY <2>1, <3>3, <3>4 DEF Turns
  <2>2. CASE ~(t = "DynamicLinkUpdate" /\ exp.dynamic)
    BY <2>2, <1>0
  <2> QED  BY <2>1, <2>2
<1> HIDE DEF next
<1>2. PICK n \in Turns(exp) : /\ todo' = [todo EXCEPT ![t] = Rounds[exp][t][turn][n]]
                              /\ turn' \in Turns(exp)
  BY <1>0, <1>1 DEF Wake, Again, RoundAt, next
<1>3. exp' = exp /\ procs' = procs
  BY DEF Wake, Again, netVars
<1>4. Quiet(exp, Rounds[exp][t][turn][n])
  BY <1>0, RoundQuiet
<1>5. t \in Threads /\ t \notin Tests
  BY TestsAssumption DEF Threads
<1>6. \A u \in Threads : todo'[u] = IF u = t THEN Rounds[exp][t][turn][n] ELSE todo[u]
  BY <1>2, <1>5 DEF TodoInv
<1>7. todo' = [u \in Threads |-> todo'[u]]
  BY <1>2, <1>5 DEF TodoInv
<1>8. \A u \in Normals : Quiet(exp, todo'[u])
  BY <1>4, <1>6 DEF TodoInv, Threads
<1>9. \A u \in Tests : /\ todo'[u] \in Seq(Steps(exp)) /\ Meets(exp, procs, todo'[u])
                       /\ TestOf(exp.testType) # u => todo'[u] = <<>>
  BY <1>5, <1>6 DEF TodoInv, Threads
<1> QED  BY <1>0, <1>2, <1>3, <1>7, <1>8, <1>9 DEF TodoInv

\* What the step of a thread does to the programs: none of a thread that changes the
\* network, and at most those of its step of a test.
LEMMA ProcsAfter ==
  ASSUME TodoInv, NEW t \in Threads, Busy(t), Effect(Op(t))
  PROVE  procs' = After(procs, Op(t)) /\ (t \in Normals => procs' = procs)
<1>1. procs' = After(procs, Op(t))
  BY DEF Effect, After
<1>2. ASSUME t \in Normals  PROVE procs' = procs
  <2>1. Op(t).do \notin {"run", "kill"}
    BY <1>2, AllTail DEF TodoInv, Busy, Op, Quiet, Fits
  <2> QED  BY <1>1, <2>1 DEF After
<1> QED  BY <1>1, <1>2

\* A step of a thread's function: the rest meets its needs, and so do the others',
\* that have nothing to do.
LEMMA StepTodo ==
  ASSUME TodoInv, NEW t \in Threads, Busy(t),
         todo' = [todo EXCEPT ![t] = Tail(todo[t])], exp' = exp, turn' = turn,
         procs' = After(procs, Op(t)), t \in Normals => procs' = procs
  PROVE  TodoInv'
<1>1. todo[t] # <<>> /\ Op(t) = Head(todo[t])
  BY DEF Busy, Op
<1>2. \A u \in Threads : todo'[u] = IF u = t THEN Tail(todo[t]) ELSE todo[u]
  BY DEF TodoInv
<1>3. todo' = [u \in Threads |-> todo'[u]]
  BY DEF TodoInv
<1>4. \A u \in Normals : Quiet(exp, todo'[u])
  <2> SUFFICES ASSUME NEW u \in Normals  PROVE Quiet(exp, todo'[u])
    OBVIOUS
  <2>1. u = t => Quiet(exp, Tail(todo[t]))
    BY <1>1, AllTail DEF TodoInv, Quiet
  <2> QED  BY <2>1, <1>2 DEF TodoInv, Threads
<1>5. ASSUME NEW u \in Tests
      PROVE  /\ todo'[u] \in Seq(Steps(exp)) /\ Meets(exp, procs', todo'[u])
             /\ TestOf(exp.testType) # u => todo'[u] = <<>>
  <2>0. /\ todo[u] \in Seq(Steps(exp)) /\ Meets(exp, procs, todo[u])
        /\ TestOf(exp.testType) # u => todo[u] = <<>>
    BY DEF TodoInv
  <2>1. CASE u = t
    <3>1. Tail(todo[t]) \in Seq(Steps(exp)) /\ Meets(exp, After(procs, Op(t)), Tail(todo[t]))
      BY <1>1, <2>0, <2>1, TailMeets
    <3>2. TestOf(exp.testType) = u
      BY <1>1, <2>0, <2>1
    <3> QED  BY <1>2, <2>1, <3>1, <3>2
  <2>2. CASE u # t /\ t \in Normals
    BY <1>2, <2>0, <2>2 DEF Threads
  <2>3. CASE u # t /\ t \in Tests
    <3>1. TestOf(exp.testType) = t
      BY <1>1, <2>3 DEF TodoInv
    <3>2. todo'[u] = <<>>
      BY <1>2, <2>0, <2>3, <3>1 DEF Threads
    <3> QED  BY <2>0, <3>2, <2>3, <3>1 DEF Meets
  <2> QED  BY <2>1, <2>2, <2>3 DEF Threads
<1> QED  BY <1>3, <1>4, <1>5 DEF TodoInv

\* Every step keeps what is left in order.
LEMMA TodoStep ==
  ASSUME TodoInv, [Next]_vars
  PROVE  TodoInv'
<1>1. CASE UNCHANGED <<exp, turn, todo, procs>>
  BY <1>1 DEF TodoInv
<1>2. CASE UNCHANGED vars
  BY <1>1, <1>2 DEF vars, threadVars, netVars
<1>3. CASE MainStep
  BY <1>1, <1>3 DEF MainStep, CreateNet, HoldLatch, StartThread, LeaveCli, Join, threadVars, netVars
<1>4. ASSUME NEW t \in Threads, Proceed(t) \/ Acquire(t)  PROVE TodoInv'
  <2>1. CASE Begin(t)
    BY <2>1, BeginTodo DEF Begin
  <2>2. CASE Wake(t) \/ Again(t)
    <3>1. t \in Normals  BY <2>2 DEF Wake, Again
    <3> QED  BY <2>2, <3>1, RoundTodo
  <2>3. CASE Finish(t) \/ Return(t) \/ Call(t) \/ Die(t) \/ Acquire(t)
    BY <1>1, <2>3 DEF Finish, Return, Call, Die, Acquire, netVars
  <2>4. CASE Pause(t) \/ GoOn(t)
    <3>1. /\ Busy(t) /\ todo' = [todo EXCEPT ![t] = Tail(todo[t])] /\ exp' = exp /\ turn' = turn
          /\ procs' = procs /\ Op(t).do \in {"sleep", "while", "caution"}
      BY <2>4 DEF Pause, GoOn, netVars
    <3>2. After(procs, Op(t)) = procs
      BY <3>1 DEF After
    <3> QED  BY <3>1, <3>2, StepTodo
  <2>5. CASE Leave(t)
    <3>1. /\ todo' = [todo EXCEPT ![t] = <<>>] /\ exp' = exp /\ turn' = turn
          /\ procs' = procs /\ t \in Normals /\ t \notin Tests
      BY <2>5, TestsAssumption DEF Leave, netVars
    <3>2. \A u \in Threads : todo'[u] = IF u = t THEN <<>> ELSE todo[u]
      BY <3>1 DEF TodoInv
    <3>3. todo' = [u \in Threads |-> todo'[u]]
      BY <3>1 DEF TodoInv
    <3>4. \A u \in Normals : Quiet(exp, todo'[u])
      BY <3>2, AllEmpty DEF TodoInv, Threads, Quiet
    <3>5. \A u \in Tests : todo'[u] = todo[u]
      BY <3>1, <3>2 DEF Threads
    <3> QED  BY <3>1, <3>3, <3>4, <3>5 DEF TodoInv
  <2>6. CASE CallReturns(t)
    <3>1. /\ Busy(t) /\ todo' = [todo EXCEPT ![t] = Tail(todo[t])] /\ exp' = exp /\ turn' = turn
          /\ Effect(Op(t))
      BY <2>6 DEF CallReturns
    <3>2. procs' = After(procs, Op(t)) /\ (t \in Normals => procs' = procs)
      BY <3>1, ProcsAfter
    <3> QED  BY <3>1, <3>2, StepTodo
  <2> QED  BY <1>4, <2>1, <2>2, <2>3, <2>4, <2>5, <2>6 DEF Proceed
<1> QED  BY <1>2, <1>3, <1>4 DEF Next

\* What a step starts finds what it needs.
LEMMA StartsServed ==
  ASSUME TodoInv, [Next]_vars, NEW p \in procs' \ procs
  PROVE  /\ Needs(p[2]) \subseteq procs
         /\ exp.pep /\ p[1] \in {H1, H2} => <<GS2, "intcpts">> \in procs
<1>1. procs' # procs
  OBVIOUS
<1>2. PICK t \in Threads : CallReturns(t)
  <2>1. ~UNCHANGED vars /\ ~MainStep
    BY <1>1 DEF vars, netVars, MainStep, CreateNet, HoldLatch, StartThread, LeaveCli, Join
  <2>2. PICK t \in Threads : Proceed(t) \/ Acquire(t)
    BY <2>1 DEF Next
  <2>3. ~(Begin(t) \/ Finish(t) \/ Wake(t) \/ Again(t) \/ Return(t))
    BY <1>1 DEF Begin, Finish, Wake, Again, Return, netVars
  <2>4. ~(Pause(t) \/ GoOn(t) \/ Leave(t) \/ Call(t) \/ Die(t) \/ Acquire(t))
    BY <1>1 DEF Pause, GoOn, Leave, Call, Die, Acquire, netVars
  <2> QED  BY <2>2, <2>3, <2>4 DEF Proceed
<1>3. Busy(t) /\ Effect(Op(t))
  BY <1>2 DEF CallReturns
<1>4. procs' = After(procs, Op(t)) /\ t \notin Normals
  BY <1>1, <1>3, ProcsAfter
<1>5. Op(t).do = "run" /\ p = <<Op(t).at, Op(t).arg>>
  BY <1>4 DEF After
<1>6. /\ t \in Tests /\ todo[t] \in Seq(Steps(exp)) /\ Meets(exp, procs, todo[t])
      /\ todo[t] # <<>> /\ Op(t) = Head(todo[t])
  BY <1>3, <1>4 DEF TodoInv, Threads, Busy, Op
<1>7. NeedsOf(exp, Op(t)) \subseteq procs
  BY <1>5, <1>6, HeadMeets
<1>8. p[1] = Op(t).at /\ p[2] = Op(t).arg
  BY <1>5
<1> QED  BY <1>7, <1>8 DEF NeedsOf, Proxy

(***************************************************************************)
(* In every experiment a client is started when its server is running, and *)
(* a program in a host after the proxies: no other thread ends what a test *)
(* has started, and a test ends it, between rounds, before it starts it    *)
(* again (the order of the commands of each test).                         *)
(***************************************************************************)
THEOREM TestbedServedFirst == Spec => ServedFirst
<1>1. TodoInv /\ [Next]_vars =>
        [\A p \in procs' \ procs :
           /\ Needs(p[2]) \subseteq procs
           /\ exp.pep /\ p[1] \in {H1, H2} => <<GS2, "intcpts">> \in procs]_vars
  BY StartsServed
<1>2. TodoInv /\ [Next]_vars => TodoInv'
  BY TodoStep
<1> QED  BY <1>1, <1>2, InitTodo, PTL DEF Spec, ServedFirst

----------------------------------------------------------------------------
(* Nobody dies: atomicLock and the shells *)

\* A thread in a command holds atomicLock.
Holds(t) ==
  /\ call[t] \in {"out", "lock", "shell"}
  /\ call[t] # "out" => Busy(t) /\ IsCommand(Op(t)) /\ atomicLock = t
  /\ phase[t] # "dead"

\* A shell that runs a command runs the one that its thread is in.
Serves(n) ==
  shell[n] # NoOne => shell[n] \in Threads /\ call[shell[n]] = "shell" /\ Op(shell[n]).at = n

ShellInv ==
  /\ phase = [t \in Threads \cup {Main} |-> phase[t]]
  /\ call = [t \in Threads |-> call[t]]
  /\ shell = [n \in Nodes(exp) |-> shell[n]]
  /\ \A t \in Threads : Holds(t)
  /\ \A n \in Nodes(exp) : Serves(n)

SafeInv == TodoInv /\ (AllAtomic => ShellInv)

\* The lock that nobody holds
LEMMA NoOneNoThread == NoOne \notin Threads
BY TestsAssumption DEF Threads, Normals, NoOne

\* Every command is given under atomicLock, in a node of the network.
LEMMA CommandsLawful ==
  ASSUME TodoInv, AllAtomic, NEW t \in Threads, Busy(t), IsCommand(Op(t))
  PROVE  Op(t).atomic = TRUE /\ Op(t).at \in Nodes(exp)
<1>1. todo[t] # <<>> /\ Op(t) = Head(todo[t])
  BY DEF Busy, Op
<1>2. CASE t \in Normals
  <2>1. Fits(exp, "network", Op(t))
    BY <1>1, <1>2, AllTail DEF TodoInv, Quiet
  <2> QED  BY <2>1 DEF Fits, Lawful, AtomicOnly, AllAtomic
<1>3. CASE t \in Tests
  <2>0. todo[t] \in Seq(Steps(exp))
    BY <1>3 DEF TodoInv
  <2>1. Op(t) \in Steps(exp)
    BY <1>1, <2>0
  <2>2. Op(t) # Sleep
    BY DEF IsCommand, Sleep, Wait
  <2>3. Places(exp) = Nodes(exp)
    BY DEF Places, AllAtomic
  <2> QED  BY <2>1, <2>2, <2>3 DEF Steps
<1> QED  BY <1>2, <1>3 DEF Threads

\* A step of a thread that is not in a command leaves the commands of the others alone.
LEMMA OutsideKeeps ==
  ASSUME ShellInv, NEW t \in Threads, call[t] = "out",
         NEW S, todo' = [todo EXCEPT ![t] = S], todo = [u \in Threads |-> todo[u]],
         phase' = [phase EXCEPT ![t] = phase'[t]], phase'[t] # "dead",
         UNCHANGED <<exp, call, atomicLock, shell>>
  PROVE  ShellInv'
<1>1. \A u \in Threads : u # t => todo'[u] = todo[u] /\ phase'[u] = phase[u]
  BY DEF ShellInv
<1>2. ASSUME NEW u \in Threads, call[u] # "out"
      PROVE  Busy(u)' /\ Op(u)' = Op(u) /\ (IsCommand(Op(u)))'
  BY <1>1, <1>2 DEF ShellInv, Holds, Busy, Op, IsCommand
<1>3. Nodes(exp)' = Nodes(exp)
  BY DEF Nodes
<1>4. phase' = [u \in Threads \cup {Main} |-> phase'[u]]
  BY DEF ShellInv
<1>5. ASSUME NEW u \in Threads  PROVE Holds(u)'
  BY <1>1, <1>2 DEF ShellInv, Holds
<1>6. ASSUME NEW n \in Nodes(exp)  PROVE Serves(n)'
  <2>1. Serves(n)
    BY DEF ShellInv
  <2>2. CASE shell[n] # NoOne
    <3>1. shell[n] \in Threads /\ call[shell[n]] = "shell" /\ Op(shell[n]).at = n
      BY <2>1, <2>2 DEF Serves
    <3>2. Op(shell[n])' = Op(shell[n])
      BY <1>2, <3>1
    <3> QED  BY <3>1, <3>2 DEF Serves
  <2>3. CASE shell[n] = NoOne
    BY <2>3 DEF Serves
  <2> QED  BY <2>2, <2>3
<1>7. call' = [u \in Threads |-> call'[u]] /\ shell' = [n \in Nodes(exp) |-> shell'[n]]
  BY DEF ShellInv
<1> QED  BY <1>3, <1>4, <1>5, <1>6, <1>7 DEF ShellInv

\* Who takes the lock finds nobody in a command.
LEMMA AcquireKeeps ==
  ASSUME ShellInv, NEW t \in Threads, Acquire(t)
  PROVE  ShellInv'
<1>1. /\ atomicLock = NoOne /\ atomicLock' = t /\ call' = [call EXCEPT ![t] = "lock"]
      /\ Busy(t) /\ IsCommand(Op(t))
      /\ UNCHANGED <<exp, phase, todo, shell>>
  BY DEF Acquire
<1>2. \A u \in Threads : call[u] = "out"
  BY <1>1, NoOneNoThread DEF ShellInv, Holds
<1>3. \A u \in Threads : call'[u] = IF u = t THEN "lock" ELSE "out"
  BY <1>1, <1>2 DEF ShellInv
<1>4. Nodes(exp)' = Nodes(exp)
  BY <1>1 DEF Nodes
<1>5. ASSUME NEW u \in Threads  PROVE Holds(u)'
  BY <1>1, <1>3 DEF ShellInv, Holds, Busy, Op, IsCommand
<1>6. ASSUME NEW n \in Nodes(exp)  PROVE Serves(n)'
  <2>1. shell[n] = NoOne
    BY <1>2 DEF ShellInv, Serves
  <2> QED  BY <1>1, <2>1 DEF Serves
<1>7. /\ phase' = [u \in Threads \cup {Main} |-> phase'[u]]
      /\ call' = [u \in Threads |-> call'[u]]
      /\ shell' = [n \in Nodes(exp) |-> shell'[n]]
  BY <1>1 DEF ShellInv
<1> QED  BY <1>4, <1>5, <1>6, <1>7 DEF ShellInv

\* Who holds the lock and is not in a shell yet finds every shell free.
LEMMA ShellsFree ==
  ASSUME ShellInv, NEW t \in Threads, atomicLock = t, NEW n \in Nodes(exp),
         call[t] # "shell" \/ Op(t).at # n
  PROVE  shell[n] = NoOne
<1> SUFFICES ASSUME shell[n] # NoOne  PROVE FALSE
  OBVIOUS
<1>1. shell[n] \in Threads /\ call[shell[n]] = "shell" /\ Op(shell[n]).at = n
  BY DEF ShellInv, Serves
<1>2. atomicLock = shell[n]
  BY <1>1 DEF ShellInv, Holds
<1> QED  BY <1>1, <1>2

\* Who calls holds the lock, so every shell is free.
LEMMA CallKeeps ==
  ASSUME TodoInv, AllAtomic, ShellInv, NEW t \in Threads, Call(t)
  PROVE  ShellInv'
<1>1. /\ Busy(t) /\ IsCommand(Op(t)) /\ MayCall(t)
      /\ shell' = [shell EXCEPT ![Op(t).at] = t] /\ call' = [call EXCEPT ![t] = "shell"]
      /\ UNCHANGED <<exp, phase, todo, atomicLock>>
  BY DEF Call, MayCall
<1>2. Op(t).atomic = TRUE /\ Op(t).at \in Nodes(exp)
  BY <1>1, CommandsLawful
<1>3. atomicLock = t /\ call[t] = "lock"
  BY <1>1, <1>2 DEF MayCall, ShellInv, Holds
<1>4. \A u \in Threads : call'[u] = IF u = t THEN "shell" ELSE call[u]
  BY <1>1 DEF ShellInv
<1>5. \A n \in Nodes(exp) : shell'[n] = IF n = Op(t).at THEN t ELSE shell[n]
  BY <1>1 DEF ShellInv
<1>6. Nodes(exp)' = Nodes(exp)
  BY <1>1 DEF Nodes
<1>7. ASSUME NEW u \in Threads  PROVE Holds(u)'
  BY <1>1, <1>3, <1>4 DEF ShellInv, Holds, Busy, Op, IsCommand
<1>8. ASSUME NEW n \in Nodes(exp)  PROVE Serves(n)'
  <2>1. CASE n = Op(t).at
    BY <1>1, <1>4, <1>5, <2>1 DEF Serves, Op
  <2>2. CASE n # Op(t).at
    <3>1. shell[n] = NoOne
      BY <1>3, ShellsFree
    <3> QED  BY <1>5, <2>2, <3>1 DEF Serves
  <2> QED  BY <2>1, <2>2
<1>9. /\ phase' = [u \in Threads \cup {Main} |-> phase'[u]]
      /\ call' = [u \in Threads |-> call'[u]]
      /\ shell' = [n \in Nodes(exp) |-> shell'[n]]
  BY <1>1 DEF ShellInv
<1> QED  BY <1>6, <1>7, <1>8, <1>9 DEF ShellInv

\* The shell of a command is free when its thread holds the lock.
LEMMA NobodyMeets ==
  ASSUME TodoInv, AllAtomic, ShellInv, NEW t \in Threads
  PROVE  ~Die(t)
<1> SUFFICES ASSUME Die(t)  PROVE FALSE
  OBVIOUS
<1>1. Busy(t) /\ IsCommand(Op(t)) /\ MayCall(t) /\ shell[Op(t).at] # NoOne
  BY DEF Die, MayCall
<1>2. Op(t).atomic = TRUE /\ Op(t).at \in Nodes(exp)
  BY <1>1, CommandsLawful
<1>3. atomicLock = t /\ call[t] = "lock"
  BY <1>1, <1>2 DEF MayCall, ShellInv, Holds
<1> QED  BY <1>1, <1>2, <1>3, ShellsFree

\* A command that ends gives back its shell and the lock.
LEMMA ReturnKeeps ==
  ASSUME TodoInv, AllAtomic, ShellInv, NEW t \in Threads, CallReturns(t)
  PROVE  ShellInv'
<1>1. /\ Busy(t) /\ call[t] = "shell"
      /\ shell' = [shell EXCEPT ![Op(t).at] = NoOne]
      /\ call' = [call EXCEPT ![t] = "out"]
      /\ UNCHANGED <<exp, phase>>
  BY DEF CallReturns
<1>2. IsCommand(Op(t)) /\ atomicLock = t
  BY <1>1 DEF ShellInv, Holds
<1>3. \A u \in Threads : u # t => call[u] = "out"
  BY <1>2 DEF ShellInv, Holds
<1>4. \A u \in Threads : call'[u] = "out"
  BY <1>1, <1>3 DEF ShellInv
<1>5. Op(t).at \in Nodes(exp)
  BY <1>1, <1>2, CommandsLawful
<1>6. \A n \in Nodes(exp) : shell'[n] = NoOne
  <2> SUFFICES ASSUME NEW n \in Nodes(exp)  PROVE shell'[n] = NoOne
    OBVIOUS
  <2>1. n # Op(t).at => shell[n] = NoOne
    BY <1>2, ShellsFree
  <2> QED  BY <1>1, <2>1 DEF ShellInv
<1>7. Nodes(exp)' = Nodes(exp)
  BY <1>1 DEF Nodes
<1>8. (\A u \in Threads : Holds(u)') /\ \A n \in Nodes(exp) : Serves(n)'
  BY <1>1, <1>4, <1>6 DEF ShellInv, Holds, Serves
<1>9. /\ phase' = [u \in Threads \cup {Main} |-> phase'[u]]
      /\ call' = [u \in Threads |-> call'[u]]
      /\ shell' = [n \in Nodes(exp) |-> shell'[n]]
  BY <1>1 DEF ShellInv
<1> QED  BY <1>7, <1>8, <1>9 DEF ShellInv

\* Every other step of a thread is one outside commands.
LEMMA OtherKeeps ==
  ASSUME TodoInv, ShellInv, NEW t \in Threads,
         Begin(t) \/ Finish(t) \/ Wake(t) \/ Again(t) \/ Return(t) \/ Pause(t) \/ GoOn(t) \/ Leave(t)
  PROVE  ShellInv'
<1>1. call[t] = "out"
  <2>1. ~Busy(t) \/ ~IsCommand(Op(t))
    BY DEF Begin, Finish, Wake, Again, Return, Pause, GoOn, Leave, Busy, IsCommand
  <2> QED  BY <2>1 DEF ShellInv, Holds
<1>2. UNCHANGED <<exp, call, atomicLock, shell>>
  BY DEF Begin, Finish, Wake, Again, Return, Pause, GoOn, Leave, netVars
<1>3. todo = [u \in Threads |-> todo[u]] /\ todo = [todo EXCEPT ![t] = todo[t]]
  BY DEF TodoInv
<1>4. \E S : todo' = [todo EXCEPT ![t] = S]
  BY <1>3 DEF Begin, Finish, Wake, Again, Return, Pause, GoOn, Leave
<1>5. phase' = [phase EXCEPT ![t] = phase'[t]] /\ phase'[t] # "dead"
  <2>1. phase = [phase EXCEPT ![t] = phase[t]] /\ phase[t] # "dead"
    BY DEF ShellInv, Holds
  <2>2. \E p \in {phase[t], "working", "over", "left"} : phase' = [phase EXCEPT ![t] = p]
    BY <2>1 DEF Begin, Finish, Wake, Again, Return, Pause, GoOn, Leave
  <2>3. t \in Threads \cup {Main}
    OBVIOUS
  <2> QED  BY <2>1, <2>2, <2>3 DEF ShellInv
<1> QED  BY <1>1, <1>2, <1>3, <1>4, <1>5, OutsideKeeps

\* The main thread gives no commands.
LEMMA MainKeeps ==
  ASSUME ShellInv, MainStep
  PROVE  ShellInv'
<1>1. UNCHANGED <<exp, todo, call, atomicLock, shell>>
  BY DEF MainStep, CreateNet, HoldLatch, StartThread, LeaveCli, Join, threadVars, netVars
<1>2. phase' = phase \/ \E p : phase' = [phase EXCEPT ![Main] = p]
  BY DEF MainStep, CreateNet, HoldLatch, StartThread, LeaveCli, Join, threadVars
<1>3. Main \notin Threads
  BY TestsAssumption DEF Threads
<1>4. /\ \A u \in Threads : phase'[u] = phase[u]
      /\ phase' = [u \in Threads \cup {Main} |-> phase'[u]]
  BY <1>2, <1>3 DEF ShellInv
<1>5. Nodes(exp)' = Nodes(exp)
  BY <1>1 DEF Nodes
<1>6. \A u \in Threads : Holds(u)'
  BY <1>1, <1>4 DEF ShellInv, Holds, Busy, Op, IsCommand
<1>7. ASSUME NEW n \in Nodes(exp)  PROVE Serves(n)'
  BY <1>1 DEF ShellInv, Serves, Op
<1> QED  BY <1>1, <1>4, <1>5, <1>6, <1>7 DEF ShellInv

\* All shells are free at first.
LEMMA InitShells == Init => ShellInv
<1> SUFFICES ASSUME Init  PROVE ShellInv
  OBVIOUS
<1>1. /\ phase = [t \in Threads \cup {Main} |->
                    IF t \in ThreadsOf(exp) \cup {x \in {Main} : exp.manual} THEN "new" ELSE "over"]
      /\ call = [t \in Threads |-> "out"] /\ shell = [n \in Nodes(exp) |-> NoOne]
  BY DEF Init
<1>2. \A t \in Threads : Holds(t)
  BY <1>1 DEF Holds
<1>3. \A n \in Nodes(exp) : Serves(n)
  BY <1>1 DEF Serves
<1> QED  BY <1>1, <1>2, <1>3 DEF ShellInv

\* Every step keeps the shells and the lock in order.
LEMMA ShellStep ==
  ASSUME TodoInv, AllAtomic, ShellInv, [Next]_vars
  PROVE  ShellInv'
<1>1. CASE UNCHANGED vars
  <2>1. UNCHANGED <<exp, phase, todo, call, atomicLock, shell>>
    BY <1>1 DEF vars, threadVars, netVars
  <2>2. Nodes(exp)' = Nodes(exp)
    BY <2>1 DEF Nodes
  <2>3. \A u \in Threads : Holds(u)'
    BY <2>1 DEF ShellInv, Holds, Busy, Op, IsCommand
  <2>4. \A n \in Nodes(exp) : Serves(n)'
    BY <2>1 DEF ShellInv, Serves, Op
  <2> QED  BY <2>1, <2>2, <2>3, <2>4 DEF ShellInv
<1>2. CASE MainStep
  BY <1>2, MainKeeps
<1>3. ASSUME NEW t \in Threads, Proceed(t) \/ Acquire(t)  PROVE ShellInv'
  <2>1. CASE Acquire(t)
    BY <2>1, AcquireKeeps
  <2>2. CASE Call(t)
    BY <2>2, CallKeeps
  <2>3. CASE CallReturns(t)
    BY <2>3, ReturnKeeps
  <2>4. ~Die(t)
    BY NobodyMeets
  <2> QED  BY <1>3, <2>1, <2>2, <2>3, <2>4, OtherKeeps DEF Proceed
<1> QED  BY <1>1, <1>2, <1>3 DEF Next

(***************************************************************************)
(* In a static network without interrupted links no thread dies: every     *)
(* command is wrapped in atomic(), so whoever gives one finds the shell    *)
(* waiting for nobody (atomicLock, and the assertion of Node.sendCmd).     *)
(***************************************************************************)
THEOREM TestbedNobodyDies == Spec => []NobodyDies
<1>1. Init => SafeInv
  BY InitTodo, InitShells DEF SafeInv
<1>2. SafeInv /\ [Next]_vars => SafeInv'
  <2> SUFFICES ASSUME SafeInv, [Next]_vars  PROVE SafeInv'
    OBVIOUS
  <2>1. TodoInv'
    BY TodoStep DEF SafeInv
  <2>2. AllAtomic' <=> AllAtomic
    <3>1. exp' = exp
      BY DEF Next, MainStep, CreateNet, HoldLatch, StartThread, LeaveCli, Join, Proceed, Begin, Finish,
         Wake, Again, Return, Pause, GoOn, Leave, Acquire, Call, Die, CallReturns, vars
    <3> QED  BY <3>1 DEF AllAtomic
  <2>3. AllAtomic => ShellInv'
    BY ShellStep DEF SafeInv
  <2> QED  BY <2>1, <2>2, <2>3 DEF SafeInv
<1>3. SafeInv => NobodyDies
  BY DEF SafeInv, NobodyDies, ShellInv, Holds
<1> QED  BY <1>1, <1>2, <1>3, PTL DEF Spec

=============================================================================
