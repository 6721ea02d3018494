------------------------------ MODULE Testbed ------------------------------
(***************************************************************************)
(* One experiment (Instance.run): the main thread builds the network and   *)
(* starts the threads; the test runs programs in the nodes while other     *)
(* threads reconfigure links and lay routes, until the latch is released.  *)
(* A node's shell runs one command at a time: Mininet asserts that it is   *)
(* not waiting for another.  Only the calls wrapped in atomic() exclude    *)
(* each other.                                                             *)
(***************************************************************************)
EXTENDS UserThreads

CONSTANTS
  Experiments,    \* test parameters, with manual (--m)
  Tests           \* the latch threads

Main == "main"
NoOne == "nobody"
Normals == {"LinkUpdate", "DynamicLinkUpdate", "MakeItm", "Init"}

\* A thread is of one kind.
ASSUME TestsAssumption ==
  /\ IsFiniteSet(Tests) /\ (Tests \cup {Main}) \cap Normals = {}
  /\ {"none", NoOne, Main} \cap Tests = {}

VARIABLES
  exp,
  main,           \* "clear", "start", "joined"
  started,        \* how many threads of Order have been started
  LatchNum,
  phase,          \* see Latch
  todo,           \* what is left of a thread's function, or of its round
  call,           \* where a thread is in a command: "out", "lock", "shell"
  atomicLock,     \* the thread that holds it
  shell,          \* the thread whose command each node's shell runs
  table,          \* routing tables
  down,           \* interfaces <<subnet, node>> that are down
  turn,           \* the links_param DynamicLinkUpdate has come to
  procs           \* programs running in the nodes, <<node, program>>

threadVars == <<started, LatchNum, phase, todo, call, turn>>
netVars == <<atomicLock, shell, table, down, procs>>
vars == <<exp, main, threadVars, netVars>>

\* TbThread.Threads, without the latch threads in manual mode.  To keep instances
\* small an experiment names the threads it considers beside its test.
ThreadsOf(e) ==
  (e.threads \cup {TestOf(e.testType)}) \ (IF e.manual THEN Tests ELSE {})
Orders == [e \in Experiments |->
  SelectSeq(<<"LinkUpdate", "DynamicLinkUpdate", "MakeItm", "Init">> \o SetToSeq(Tests),
            LAMBDA t : t \in ThreadsOf(e))]
Order == Orders[exp]
Threads == Normals \cup Tests

\* What depends on the experiment only
AllLinks == [e \in Experiments |-> LinksOf(e)]
Bodies == [e \in Experiments |-> [t \in Tests |-> Body(t, e)]]

\* What a thread does in one round; nothing: its function has returned.
Round(t, e, prev, cur) ==
  CASE t = "Init" -> InitQueues(e)
    [] t = "LinkUpdate" -> LinkUpdateRound(e)
    [] t = "MakeItm" -> MakeItmRound(e)
    [] t = "DynamicLinkUpdate" ->
         IF e.dynamic THEN DynamicStep(e, e.topos[prev], e.topos[cur]) ELSE <<>>

Turns(e) == IF e.dynamic THEN DOMAIN e.topos ELSE {1}
Rounds == [e \in Experiments |-> [t \in Normals |->
             [prev \in Turns(e) |-> [cur \in Turns(e) |-> Round(t, e, prev, cur)]]]]

RoundAt(t, prev, cur) == Rounds[exp][t][prev][cur]

Links == AllLinks[exp]
Nodes(e) == LET ls == AllLinks[e] IN UNION {{ls[i].a, ls[i].b} : i \in DOMAIN ls}

\* Every topology has two hosts with a ground station each; what is configured is one
\* of its links.
ASSUME ExperimentsAssumption ==
  \A e \in Experiments :
    /\ e \in TestParams
    /\ IF e.dynamic THEN e.topos # <<>>
       ELSE /\ e.nodes # <<>>
            /\ ({H1, H2, GS1, GS2} \cup ToSet(e.nodes)) \subseteq Nodes(e)
            /\ ToSet(e.varBw) \subseteq DOMAIN e.links

StartedThreads == {Order[i] : i \in 1..started}

UpLinks(n) == SelectSeq(Links, LAMBDA l : <<l.seg, n>> \notin down)
NoRoutes(e) == [n \in Nodes(e) |-> <<>>]

\* The routes createNet and create_dynamic_net lay
Lay(e, table0, cmds) == FoldLeft(LAMBDA t, c : Apply(AllLinks[e], t, c), table0, cmds)
FirstRoutes == [e \in Experiments |->
  IF e.dynamic THEN Lay(e, NoRoutes(e), setRoute(e.isls, e.topos[1]))
  ELSE FoldLeft(LAMBDA t, p : Lay(e, t, setStaticRoute(e.links, p)),
                NoRoutes(e), e.pathes)]

Init ==
  /\ exp \in Experiments
  /\ main = "clear"
  /\ started = 0
  /\ LatchNum = 0
  /\ phase = [t \in Threads \cup {Main} |->
                IF t \in ThreadsOf(exp) \cup {x \in {Main} : exp.manual}
                THEN "new" ELSE "over"]
  /\ todo = [t \in Threads |-> <<>>]
  /\ call = [t \in Threads |-> "out"]
  /\ atomicLock = NoOne
  /\ shell = [n \in Nodes(exp) |-> NoOne]
  /\ table = NoRoutes(exp)
  /\ down = {}
  /\ turn = 1
  /\ procs = {}

----------------------------------------------------------------------------
(* The main thread *)

\* createNet or create_dynamic_net
CreateNet ==
  /\ main = "clear"
  /\ main' = "start"
  /\ table' = FirstRoutes[exp]
  /\ UNCHANGED <<exp, threadVars, atomicLock, shell, down, procs>>

\* Manual mode: latchNumInc before the threads start
HoldLatch ==
  /\ main = "start"
  /\ phase[Main] = "new"
  /\ phase' = [phase EXCEPT ![Main] = "working"]
  /\ LatchNum' = LatchNum + 1
  /\ UNCHANGED <<exp, main, started, todo, call, turn, netVars>>

StartThread ==
  /\ main = "start"
  /\ phase[Main] # "new"
  /\ started < Len(Order)
  /\ started' = started + 1
  /\ UNCHANGED <<exp, main, LatchNum, phase, todo, call, turn, netVars>>

\* enterCli returns, latchNumDec
LeaveCli ==
  /\ started = Len(Order)
  /\ phase[Main] = "working"
  /\ phase' = [phase EXCEPT ![Main] = "over"]
  /\ LatchNum' = LatchNum - 1
  /\ UNCHANGED <<exp, main, started, todo, call, turn, netVars>>

Join ==
  /\ main = "start"
  /\ started = Len(Order)
  /\ \A t \in Threads \cup {Main} : phase[t] \notin {"new", "working"}
  /\ main' = "joined"
  /\ UNCHANGED <<exp, threadVars, netVars>>

MainStep == CreateNet \/ HoldLatch \/ StartThread \/ LeaveCli \/ Join

----------------------------------------------------------------------------
(* Begin and end of a thread's function *)

\* Faulty: the function runs uncounted.
BeginUncounted(t) ==
  /\ t \in Tests /\ t \in StartedThreads
  /\ phase[t] = "new"
  /\ phase' = [phase EXCEPT ![t] = "working"]
  /\ todo' = [todo EXCEPT ![t] = Bodies[exp][t]]
  /\ UNCHANGED <<exp, main, started, LatchNum, call, turn, netVars>>

Begin(t) ==
  /\ t \in Tests /\ t \in StartedThreads
  /\ phase[t] = "new"
  /\ phase' = [phase EXCEPT ![t] = "working"]
  /\ LatchNum' = LatchNum + 1
  /\ todo' = [todo EXCEPT ![t] = Bodies[exp][t]]
  /\ UNCHANGED <<exp, main, started, call, turn, netVars>>

Finish(t) ==
  /\ t \in Tests
  /\ phase[t] = "working" /\ todo[t] = <<>>
  /\ phase' = [phase EXCEPT ![t] = "over"]
  /\ LatchNum' = LatchNum - 1
  /\ UNCHANGED <<exp, main, started, todo, call, turn, netVars>>

\* NormalFunc: half a second after its start, all threads have been started
Wake(t) ==
  /\ t \in Normals /\ t \in StartedThreads
  /\ phase[t] = "new"
  /\ \A l \in Tests \cup {Main} : phase[l] # "new"
  /\ phase' = [phase EXCEPT ![t] = "working"]
  /\ todo' = [todo EXCEPT ![t] = RoundAt(t, turn, turn)]
  /\ UNCHANGED <<exp, main, started, LatchNum, call, turn, netVars>>

Again(t) ==
  LET next == IF t = "DynamicLinkUpdate" /\ exp.dynamic
              THEN (turn % Len(exp.topos)) + 1 ELSE turn
  IN  /\ t \in Normals \ {"Init"}
      /\ phase[t] = "working" /\ todo[t] = <<>>
      /\ RoundAt(t, turn, next) # <<>>
      /\ todo' = [todo EXCEPT ![t] = RoundAt(t, turn, next)]
      /\ turn' = next
      /\ UNCHANGED <<exp, main, started, LatchNum, phase, call, netVars>>

Return(t) ==
  /\ t \in Normals
  /\ phase[t] = "working" /\ todo[t] = <<>>
  /\ t = "Init" \/ RoundAt(t, turn, turn) = <<>>
  /\ phase' = [phase EXCEPT ![t] = "over"]
  /\ UNCHANGED <<exp, main, started, LatchNum, todo, call, turn, netVars>>

----------------------------------------------------------------------------
(* A thread's function, step by step *)

Op(t) == Head(todo[t])
Busy(t) == phase[t] = "working" /\ todo[t] # <<>>

Pause(t) ==
  /\ Busy(t) /\ Op(t).do = "sleep"
  /\ todo' = [todo EXCEPT ![t] = Tail(@)]
  /\ UNCHANGED <<exp, main, started, LatchNum, phase, call, turn, netVars>>

\* while latchRunning(), or sleepWithCaution after a tenth of a second.  A test waits
\* with time.sleep only.
GoOn(t) ==
  /\ t \in Normals
  /\ Busy(t) /\ Op(t).do \in {"while", "caution"}
  /\ LatchNum > 0
  /\ todo' = [todo EXCEPT ![t] = Tail(@)]
  /\ UNCHANGED <<exp, main, started, LatchNum, phase, call, turn, netVars>>

Leave(t) ==
  /\ t \in Normals
  /\ Busy(t) /\ Op(t).do \in {"while", "caution"}
  /\ ~(LatchNum > 0)
  /\ phase' = [phase EXCEPT ![t] = "left"]
  /\ todo' = [todo EXCEPT ![t] = <<>>]
  /\ UNCHANGED <<exp, main, started, LatchNum, call, turn, netVars>>

IsCommand(op) == op.do \notin {"sleep", "while", "caution"}

\* atomic: atomicLock.acquire()
Acquire(t) ==
  /\ Busy(t) /\ call[t] = "out"
  /\ IsCommand(Op(t)) /\ Op(t).atomic
  /\ atomicLock = NoOne
  /\ atomicLock' = t
  /\ call' = [call EXCEPT ![t] = "lock"]
  /\ UNCHANGED <<exp, main, started, LatchNum, phase, todo, turn, shell, table, down,
                 procs>>

MayCall(t) ==
  /\ Busy(t) /\ IsCommand(Op(t))
  /\ call[t] = IF Op(t).atomic THEN "lock" ELSE "out"

Call(t) ==
  /\ MayCall(t)
  /\ shell[Op(t).at] = NoOne
  /\ shell' = [shell EXCEPT ![Op(t).at] = t]
  /\ call' = [call EXCEPT ![t] = "shell"]
  /\ UNCHANGED <<exp, main, started, LatchNum, phase, todo, turn, atomicLock, table, down,
                 procs>>

\* Node.sendCmd asserts that the shell is not waiting.  Nobody catches the
\* AssertionError: the thread is dead, and atomicLock stays taken.
Die(t) ==
  /\ MayCall(t)
  /\ shell[Op(t).at] # NoOne
  /\ phase' = [phase EXCEPT ![t] = "dead"]
  /\ UNCHANGED <<exp, main, started, LatchNum, todo, call, turn, netVars>>

\* An interface that goes down takes its routes with it.
Effect(op) ==
  /\ table' = CASE op.do = "route" -> Apply(UpLinks(op.at), table, op.arg)
                [] op.do = "down" -> [table EXCEPT ![op.at] =
                                        SelectSeq(@, LAMBDA e : e[2][1] # op.arg)]
                [] OTHER -> table
  /\ down' = CASE op.do = "down" -> down \cup {<<op.arg, op.at>>}
               [] op.do = "up" -> down \ {<<op.arg, op.at>>}
               [] OTHER -> down
  /\ procs' = CASE op.do = "run" -> procs \cup {<<op.at, op.arg>>}
                [] op.do = "kill" -> procs \ {<<op.at, op.arg>>}
                [] OTHER -> procs

CallReturns(t) ==
  /\ Busy(t) /\ call[t] = "shell"
  /\ Effect(Op(t))
  /\ shell' = [shell EXCEPT ![Op(t).at] = NoOne]
  /\ atomicLock' = IF Op(t).atomic THEN NoOne ELSE atomicLock
  /\ call' = [call EXCEPT ![t] = "out"]
  /\ todo' = [todo EXCEPT ![t] = Tail(@)]
  /\ UNCHANGED <<exp, main, started, LatchNum, phase, turn>>

Proceed(t) ==
  \/ Begin(t) \/ Finish(t) \/ Wake(t) \/ Again(t) \/ Return(t)
  \/ Pause(t) \/ GoOn(t) \/ Leave(t)
  \/ Call(t) \/ Die(t) \/ CallReturns(t)

Next == MainStep \/ \E t \in Threads : Proceed(t) \/ Acquire(t)

Spec == Init /\ [][Next]_vars

\* Threads are scheduled and commands end.  LinkUpdate may take atomicLock again
\* and again, but it sleeps in every round: a test and Init get it while it does.
Fairness ==
  /\ WF_vars(MainStep)
  /\ \A t \in Normals : WF_vars(Proceed(t) \/ Acquire(t))
  /\ WF_vars(\E t \in Tests : Proceed(t) \/ Acquire(t))
  /\ SF_vars(\E t \in Tests : Acquire(t))
  /\ SF_vars(Acquire("Init"))

FairSpec == Spec /\ Fairness

----------------------------------------------------------------------------
(* Properties *)

TypeOK ==
  /\ main \in {"clear", "start", "joined"}
  /\ started \in 0..Len(Order)
  /\ LatchNum \in Nat
  /\ phase \in [Threads \cup {Main} -> {"new", "working", "over", "left", "dead"}]
  /\ call \in [Threads -> {"out", "lock", "shell"}]
  /\ atomicLock \in Threads \cup {NoOne}
  /\ shell \in [Nodes(exp) -> Threads \cup {NoOne}]
  /\ turn \in 1..Len(exp.topos) \/ ~exp.dynamic

\* The threads implement the promise of Latch: the counter counts the tests at
\* work, and what changes the network outlasts them.
L == INSTANCE Latch WITH
       LatchThreads <- Tests \cup {Main}, NormalThreads <- Normals
ImplementsLatch == L!Spec

Hops(dst) == [n \in Nodes(exp) |-> NextHop(UpLinks(n), table, n, dst)]

\* A host has one link.
AddressOf(host) ==
  LET l == Links[CHOOSE i \in DOMAIN Links : host \in {Links[i].a, Links[i].b}]
  IN  <<l.seg, IF host = l.a THEN 1 ELSE 2>>

Paths == IF exp.dynamic THEN <<Chain(exp.topos[turn])>> ELSE exp.pathes

\* No thread is in the middle of changing links or routes.
AtRest ==
  /\ main # "clear" /\ down = {}
  /\ \A t \in {"DynamicLinkUpdate", "MakeItm"} :
       /\ phase[t] # "dead"
       /\ todo[t] = <<>> \/ Op(t).do \in {"while", "caution", "ping"}

\* Between changes, packets between the ends of each path follow it both ways,
\* and no route of an earlier topo is left (setRoute after clearRoute,
\* routeReset after a link was down, setStaticRoute of paths that share nodes).
Routed ==
  AtRest =>
    /\ \A i \in DOMAIN Paths :
         LET p == Paths[i]
         IN  /\ Follows(Hops(AddressOf(Last(p))), p)
             /\ Follows(Hops(AddressOf(Head(p))), Reverse(p))
    /\ \A n \in Nodes(exp) :
         (\A i \in DOMAIN Paths : n \notin ToSet(Paths[i])) => table[n] = <<>>

\* At no moment of a change do packets for h2 go round in a circle, or back to
\* where they came from (the order of clearRoute and setRoute).
NoForwardLoop == main # "clear" => ~Loops(Hops(AddressOf(H2)))

\* A client is started when its server is running, and what measures a flow runs
\* before it starts (the order of the commands of each test, in every round).
Needs(prog) ==
  CASE prog = "intcpc" -> {<<H2, "intcps">>}
    [] prog = "iperf3-c" -> {<<H1, "iperf3-s">>}
    [] prog = "client.py" -> {<<H1, "server.py">>}
    [] prog = "appclient" -> {<<H2, "appserver">>}
    [] prog = "intcpts" -> {<<GS1, "intcptc">>}
    [] OTHER -> {}
ServedFirst ==
  [][\A p \in procs' \ procs :
       /\ Needs(p[2]) \subseteq procs
       /\ exp.pep /\ p[1] \in {H1, H2} => <<GS2, "intcpts">> \in procs]_vars

\* Nobody finds a shell waiting for another command when all commands given to
\* shells are wrapped in atomic().
AllAtomic == ~exp.dynamic /\ exp.itmDown = <<>>
NobodyDies == AllAtomic => \A t \in Threads : phase[t] # "dead"

\* The experiment ends (Instance.run joins every thread it has started).
Returns == <>(main = "joined")

\* ... when no command to a shell is bare.
AtomicReturns == AllAtomic => Returns

=============================================================================
