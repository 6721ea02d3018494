---------------------------- MODULE UserThreads ----------------------------
(***************************************************************************)
(* The functions of the threads (userThreads.py, linkDnmcThreads.py) as    *)
(* sequences of what they do: commands in the shell of a node, most of     *)
(* them under atomicLock, and waits.  A test parameter is a record:        *)
(* dynamic, testType, protocol, pep (midCC is not nopep), sendRound,       *)
(* flowNum, and the network it runs on (nodes, links, pathes of a static   *)
(* one; isls, mids and topos, one topo per links_param, of a dynamic one;  *)
(* varBw and itmDown are the indices of the links so configured), manual   *)
(* (--m) and threads (see Testbed).                                        *)
(***************************************************************************)
EXTENDS Routes

Names == {"h", "gs", "m", "dummy"} \X Nat

TestParams ==
  [dynamic : BOOLEAN, manual : BOOLEAN, testType : STRING, threads : SUBSET STRING,
   protocol : STRING, pep : BOOLEAN, sendRound : Nat, flowNum : Nat,
   nodes : Seq(Names), links : Seq(Names \X Names), pathes : Seq(Seq(Names)),
   isls : Seq(Int \X Int), mids : Nat, topos : Seq(Seq(Nat)),
   varBw : Seq(Nat), itmDown : Seq(Nat)]

\* A command: what it does, where, to what, and whether atomic() wraps it.
Cmd(do, at, arg) == [do |-> do, at |-> at, arg |-> arg, atomic |-> TRUE]
Bare(do, at, arg) == [Cmd(do, at, arg) EXCEPT !.atomic = FALSE]
Run(at, prog) == Cmd("run", at, prog)
Kill(at, prog) == Cmd("kill", at, prog)
Note(at) == Cmd("note", at, "counters")

\* Not a command: time.sleep, sleepWithCaution, the test of a while loop.
Wait(do) == [do |-> do, at |-> Nowhere, arg |-> do, atomic |-> FALSE]
Sleep == Wait("sleep")
Caution == Wait("caution")
WhileLatch == Wait("while")

ForEach(seq, Op(_)) == FlattenSeq([i \in 1..Len(seq) |-> Op(seq[i])])
Times(n, ops) == FlattenSeq([i \in 1..n |-> ops])

----------------------------------------------------------------------------
(* Tests *)

MidNodes(tp) == [i \in 1..tp.mids |-> Mid(i)]

start_midnode_processes(tp) ==
  CASE tp.pep -> <<Run(GS1, "intcptc"), Sleep, Run(GS2, "intcpts"), Sleep>>
    [] ~tp.pep /\ tp.dynamic -> <<Sleep>>
    [] OTHER -> <<>>

\* killall in the nodes between the hosts
KillInside(nodes, prog) ==
  ForEach(nodes, LAMBDA n : IF n \in {H1, H2} THEN <<>> ELSE <<Kill(n, prog)>>)

kill_intcp_processes(tp) ==
  <<Kill(H2, "intcps"), Kill(H1, "intcpc")>>
    \o IF ~tp.pep THEN <<>>
       ELSE KillInside(IF tp.dynamic THEN MidNodes(tp) \o <<GS1, GS2>> ELSE tp.nodes, "intcpm")

\* killall iperf3: the client runs in h2, the server in h1.
kill_pep_processes(tp) ==
  <<Kill(H2, "iperf3-c"), Kill(H1, "iperf3-s")>>
    \o IF ~tp.pep THEN <<>>
       ELSE KillInside(IF tp.dynamic THEN <<GS1, GS2>> ELSE tp.nodes, "pepsal")

\* Faulty: the client first.
ClientFirst == <<Run(H2, "iperf3-c"), Sleep, Run(H1, "iperf3-s")>>

Iperf == <<Run(H1, "iperf3-s"), Sleep, Run(H2, "iperf3-c")>>
Intcp == <<Run(H2, "intcps"), Sleep, Run(H1, "intcpc")>>

\* The byte counters are read at the sender when it has a dummy neighbour.
DummyNode == <<"dummy", 0>>
Counters(tp) ==
  IF tp.testType # "throughputWithTraffic" THEN <<>>
  ELSE IF ~tp.dynamic /\ Contains(tp.nodes, DummyNode)
  THEN <<Note(H2), Note(H2)>>
  ELSE <<Note(H1), Note(H1), Note(H1), Note(H1)>>

ThroughputTest(tp) ==
  LET flow == CASE tp.protocol = "TCP" -> Iperf
                [] tp.protocol = "udt" -> <<Run(H2, "appserver"), Sleep, Run(H1, "appclient")>>
                [] OTHER -> Intcp
      end == IF tp.sendRound <= 1 THEN <<>>
             ELSE IF tp.protocol = "TCP" THEN kill_pep_processes(tp)
             ELSE kill_intcp_processes(tp)
  IN  Times(tp.sendRound,
            start_midnode_processes(tp) \o Counters(tp) \o flow \o <<Sleep>>
              \o Counters(tp) \o end \o <<Sleep>>)

OwdTest(tp) ==
  start_midnode_processes(tp)
    \o (IF tp.protocol = "TCP"
        THEN <<Run(H1, "server.py"), Run(H2, "client.py")>>
        ELSE <<Run(H2, "sniff.py"), Run(H1, "sniff.py"), Sleep,
               Run(H2, "intcps"), Run(H1, "intcpc")>>)
    \o <<Sleep>>

TrafficTest(tp) ==
  start_midnode_processes(tp) \o <<Note(H2)>>
    \o (IF tp.protocol = "TCP"
        THEN <<Run(H1, "server.py"), Run(H2, "client.py")>>
        ELSE <<Run(H2, "intcps"), Run(H1, "intcpc")>>)
    \o <<Sleep, Note(H2)>>

ThrpWithOwdTest(tp) ==
  start_midnode_processes(tp) \o <<Run(H2, "sniff.py"), Run(H1, "sniff.py"), Sleep>>
    \o (IF tp.protocol = "TCP" THEN Iperf ELSE Intcp) \o <<Sleep>>

FairnessTest(tp) ==
  start_midnode_processes(tp)
    \o (IF tp.protocol = "TCP"
        THEN Times(tp.flowNum, <<Run(H1, "iperf3-s")>>) \o <<Sleep>>
               \o Times(tp.flowNum, <<Run(H2, "iperf3-c"), Sleep>>)
        ELSE <<Run(H2, "intcps"), Sleep>>
               \o Times(tp.flowNum, <<Run(H1, "intcpc"), Sleep>>))
    \o <<Sleep>>

cpuTest(tp) ==
  IF tp.protocol = "TCP" THEN <<>>
  ELSE start_midnode_processes(tp)
         \o <<Sleep, Run(H2, "intcps"), Sleep, Run(H1, "intcpc"), Sleep>>

\* Each latch thread returns at once unless the test is its own.
TestOf(testType) ==
  CASE testType \in {"throughputTest", "throughputWithTraffic"} -> "ThroughputTest"
    [] testType = "owdTest" -> "OwdTest"
    [] testType = "trafficTest" -> "TrafficTest"
    [] testType \in {"owdThroughputBalance", "throughputWithOwd", "all"} -> "ThrpWithOwdTest"
    [] testType = "fairnessTest" -> "FairnessTest"
    [] testType = "cpuTest" -> "cpuTest"
    [] OTHER -> "none"

Body(test, tp) ==
  IF TestOf(tp.testType) # test THEN <<>>
  ELSE CASE test = "ThroughputTest" -> ThroughputTest(tp)
         [] test = "OwdTest" -> OwdTest(tp)
         [] test = "TrafficTest" -> TrafficTest(tp)
         [] test = "ThrpWithOwdTest" -> ThrpWithOwdTest(tp)
         [] test = "FairnessTest" -> FairnessTest(tp)
         [] test = "cpuTest" -> cpuTest(tp)

----------------------------------------------------------------------------
(* Threads that change the network *)

LinksOf(tp) == IF tp.dynamic THEN DynamicLinks(tp.isls) ELSE StaticLinks(tp.links)

\* Faulty: changeLinkConfig without atomic().
UnguardedEnds(link, do) == <<Bare(do, link.a, link.seg), Bare(do, link.b, link.seg)>>

\* Both ends of a link (changeLinkConfig)
Ends(link, do) == <<Cmd(do, link.a, link.seg), Cmd(do, link.b, link.seg)>>

\* Init sets the queue lengths of every link.
InitQueues(tp) == ForEach(LinksOf(tp), LAMBDA l : Ends(l, "config"))

\* One round of LinkUpdate over the links with varBw > 0
LinkUpdateRound(tp) ==
  IF tp.dynamic \/ tp.varBw = <<>> THEN <<>>
  ELSE <<WhileLatch>>
         \o ForEach(tp.varBw, LAMBDA i : Ends(LinksOf(tp)[i], "config")) \o <<Caution>>

\* One links_param of DynamicLinkUpdate, after the topo of the one before
LinkOfHop(tp, a, b) ==
  LET ls == LinksOf(tp)
  IN  ls[CHOOSE i \in DOMAIN ls : {ls[i].a, ls[i].b} = {a, b}]

ConfigChain(tp, topo) ==
  LET nodes == Chain(topo)
  IN  FlattenSeq([i \in 1..(Len(nodes) - 1) |->
                    Ends(LinkOfHop(tp, nodes[i], nodes[i + 1]), "config")])

BareRoutes(cmds) == ForEach(cmds, LAMBDA c : <<Bare("route", c.at, c)>>)

\* Faulty: the new routes are laid before the old ones are lifted.
LayThenLift(tp, prev, topo) ==
  ConfigChain(tp, topo)
    \o (IF topo = prev THEN <<>>
        ELSE BareRoutes(setRoute(tp.isls, topo)) \o BareRoutes(clearRoute(tp.isls, prev)))
    \o <<Caution>>

DynamicStep(tp, prev, topo) ==
  ConfigChain(tp, topo)
    \o (IF topo = prev THEN <<>>
        ELSE BareRoutes(clearRoute(tp.isls, prev)) \o BareRoutes(setRoute(tp.isls, topo)))
    \o <<Caution>>

\* One round of MakeItm over the links with itmDown > 0
MakeItmRound(tp) ==
  IF tp.dynamic \/ tp.itmDown = <<>> THEN <<>>
  ELSE LET all(do) == ForEach(tp.itmDown, LAMBDA i : Ends(LinksOf(tp)[i], do))
       IN  <<WhileLatch, Caution>> \o all("down") \o <<Caution>> \o all("up")
             \o BareRoutes(routeReset(tp.nodes))
             \o <<Bare("ping", H1, H2), Bare("ping", H2, H1)>>

=============================================================================
