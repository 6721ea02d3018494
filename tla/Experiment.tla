----------------------------- MODULE Experiment -----------------------------
(***************************************************************************)
(* The experiment script (run.py with Instance.run and autoAnlz.anlz).  It *)
(* is invoked again and again by hand: each time it generates its sets one *)
(* after the other, runs their tests unless only the analysis is wanted    *)
(* (--a), and analyses the logs unless the tests are manual (--m).  The    *)
(* logs stay from one invocation to the next; the defaults of the test     *)
(* parameters stay from one set to the next of an invocation.              *)
(***************************************************************************)
EXTENDS Analysis

CONSTANT Sessions     \* sequences of invocations: names of sets, isAnlz, isManual

VARIABLES
  session,
  inv,          \* how many have been started
  pc,           \* "shell", "next", "tests", "running", "joining", "anlz"
  names,        \* tpSetNames still to do
  DefaultLP, DefaultAP,
  given,        \* the sets this invocation has generated
  tpSet,
  done,         \* tests run of tpSet
  net,          \* what createNet or create_dynamic_net was given for the last one
  logs,         \* per set, its log files
  read,         \* the contents the last analysis was made from
  ended         \* how the last invocation ended: "" while it runs

paramVars == <<names, DefaultLP, DefaultAP, given>>
vars == <<session, inv, pc, paramVars, tpSet, done, net, logs, read, ended>>

args == session[inv]
NoSet == [name |-> "", tests |-> <<>>]
NoNet == [kind |-> "None"]

----------------------------------------------------------------------------
(* Sets *)

\* The set as getTestParamSet makes it from the defaults it has just changed
TestParamSet(name, lp, ap) ==
  LET set == Sets[name]
      links == IF set.lp = <<>> THEN <<>> ELSE [defaultLP |-> lp] @@ set.links
      template == [name |-> <<"nameless">>, topo |-> TopoParam(set.topo),
                   links |-> links, app |-> ap]
  IN  [name |-> name, keyX |-> set.keyX, keysCurveDiff |-> set.keysCurveDiff,
       template |-> template, tests |-> add(template, set.segs, set.groups)]

----------------------------------------------------------------------------
(* The network of a test (Instance.run) *)

IslArgs(app) ==
  [uplink_bw |-> app.dynamic_uplink_bw, downlink_bw |-> app.dynamic_downlink_bw,
   isl_bw |-> app.dynamic_isl_bw, ground_link_bw |-> app.dynamic_ground_link_bw,
   uplink_loss |-> app.dynamic_gsl_loss, downlink_loss |-> app.dynamic_gsl_loss,
   isl_loss |-> app.dynamic_isl_loss, ground_link_loss |-> app.dynamic_ground_link_loss,
   ground_link_rtt |-> app.dynamic_ground_link_rtt, bw_fluctuation |-> app.dynamic_bw_fluct]

RelayArgs(app) ==
  [IslArgs(app) EXCEPT !.uplink_loss = app.dynamic_isl_loss,
                       !.downlink_loss = app.dynamic_isl_loss]

StaticNet(tp) ==
  CASE tp.topo.kind = "topo" -> tp.topo
    [] tp.topo.kind = "empty" -> gen_linear_topo(tp.topo.numMidNode, FALSE)
    [] OTHER -> NoNet

OriginTrace(tp) ==
  IF tp.app.src = -1 \/ tp.app.dst = -1 THEN tp.topo
  ELSE get_trace(tp.app.src, tp.app.dst, tp.app.route_algorithm)

DynamicNet(tp) ==
  LET origin == OriginTrace(tp)
  IN  CASE tp.app.dynamic_complete -> IF tp.topo.kind = "trace" THEN tp.topo ELSE NoNet
        [] origin.kind # "trace" -> NoNet
        [] tp.app.route_algorithm = "with_isl" ->
             get_complete_trace(origin, IslArgs(tp.app))
        [] tp.app.route_algorithm = "relay_only" ->
             get_complete_relay_only_trace(origin, RelayArgs(tp.app))

\* NoNet: it raises.
NetOf(tp) == IF tp.app.dynamic = 0 THEN StaticNet(tp) ELSE DynamicNet(tp)

----------------------------------------------------------------------------
Init ==
  /\ session \in Sessions
  /\ inv = 0 /\ pc = "shell"
  /\ names = <<>> /\ given = <<>>
  /\ DefaultLP = DefaultLP0 /\ DefaultAP = DefaultAP0
  /\ tpSet = NoSet /\ done = 0 /\ net = NoNet
  /\ logs = [n \in DOMAIN Sets |-> <<>>]
  /\ read = {} /\ ended = ""

\* A new process: the defaults are what MyParam.py says.
Invoke ==
  /\ pc = "shell" /\ inv < Len(session)
  /\ inv' = inv + 1 /\ pc' = "next"
  /\ names' = session[inv + 1].names /\ given' = <<>>
  /\ DefaultLP' = DefaultLP0 /\ DefaultAP' = DefaultAP0
  /\ tpSet' = NoSet /\ done' = 0 /\ net' = NoNet /\ read' = {} /\ ended' = ""
  /\ UNCHANGED <<session, logs>>

Ends(how) == pc' = "shell" /\ ended' = how

Finish ==
  /\ pc = "next" /\ names = <<>>
  /\ Ends("finished")
  /\ UNCHANGED <<session, inv, paramVars, tpSet, done, net, logs, read>>

AfterTests == IF args.isManual THEN "next" ELSE "anlz"

\* A name no branch knows gives None, which fails when it is used; a topology that
\* is not assigned fails at once.
NoTestParamSet ==
  /\ pc = "next" /\ names # <<>>
  /\ \/ /\ Head(names) \notin DOMAIN Sets
        /\ IF args.isAnlz /\ args.isManual
           THEN pc' = "next" /\ names' = Tail(names) /\ UNCHANGED ended
           ELSE Ends("noset") /\ UNCHANGED names
     \/ /\ Head(names) \in DOMAIN Sets /\ Sets[Head(names)].topo = Unbound
        /\ Ends("noset") /\ UNCHANGED names
  /\ UNCHANGED <<session, inv, DefaultLP, DefaultAP, given, tpSet, done, net, logs, read>>

getTestParamSet ==
  /\ pc = "next" /\ names # <<>>
  /\ Head(names) \in DOMAIN Sets /\ Sets[Head(names)].topo # Unbound
  /\ LET set == Sets[Head(names)]
     IN  /\ DefaultLP' = set.lp @@ DefaultLP
         /\ DefaultAP' = set.ap @@ DefaultAP
  /\ tpSet' = TestParamSet(Head(names), DefaultLP', DefaultAP')
  /\ names' = Tail(names) /\ given' = Append(given, Head(names))
  /\ done' = 0 /\ net' = NoNet /\ read' = {}
  /\ pc' = IF args.isAnlz THEN AfterTests ELSE "tests"
  /\ UNCHANGED <<session, inv, logs, ended>>

----------------------------------------------------------------------------
(* Tests *)

Test == tpSet.tests[done + 1]
Logs == logs[tpSet.name]
Piece(whole) == [by |-> inv, whole |-> whole]

\* Instance.run to the start of the latch thread of the test, which deletes its old
\* logs; a manual test has none.
StartTest ==
  /\ pc = "tests" /\ done < Len(tpSet.tests)
  /\ net' = NetOf(Test)
  /\ IF net' = NoNet
     THEN Ends("run") /\ UNCHANGED <<tpSet, logs>>
     ELSE /\ pc' = "running"
          /\ tpSet' = [tpSet EXCEPT !.tests[done + 1].topo = net']
          /\ logs' = IF args.isManual THEN logs
                     ELSE [logs EXCEPT ![tpSet.name] = Delete(@, Test)]
          /\ UNCHANGED ended
  /\ UNCHANGED <<session, inv, paramVars, done, read>>

Over(writes, whole) ==
  logs' = IF args.isManual THEN logs
          ELSE [logs EXCEPT ![tpSet.name] = Write(@, Test, writes, Piece(whole))]

EndTest ==
  /\ pc = "running"
  /\ Over(Written(Test), TRUE)
  /\ done' = done + 1 /\ pc' = "tests"
  /\ UNCHANGED <<session, inv, paramVars, tpSet, net, read, ended>>

AllTested ==
  /\ pc = "tests" /\ done = Len(tpSet.tests)
  /\ pc' = AfterTests
  /\ UNCHANGED <<session, inv, paramVars, tpSet, done, net, logs, read, ended>>

\* ^C: the main thread stops, but the process waits for a test that is running.
\* (In manual mode the command line of the network takes it.)
Interrupt ==
  /\ \/ pc \in {"next", "tests", "anlz"} /\ Ends("stopped")
     \/ pc = "running" /\ ~args.isManual /\ pc' = "joining" /\ UNCHANGED ended
  /\ UNCHANGED <<session, inv, paramVars, tpSet, done, net, logs, read>>

\* The latch thread ends by itself, or ^C ends it in the middle.
Joined ==
  /\ pc = "joining"
  /\ \/ Over(Written(Test), TRUE)
     \/ \E k \in 0..Len(Written(Test)) : Over(SubSeq(Written(Test), 1, k), FALSE)
  /\ Ends("stopped")
  /\ UNCHANGED <<session, inv, paramVars, tpSet, done, net, read>>

----------------------------------------------------------------------------
(* Analysis.  A log of half a test may hold nothing to average. *)

Anlz ==
  /\ pc = "anlz"
  /\ \E result \in {anlz(tpSet, Logs)} :
       LET part == \E content \in result.read : \E i \in DOMAIN content : ~content[i].whole
       IN  /\ logs' = [logs EXCEPT ![tpSet.name] = result.logs]
           /\ \/ ~result.raised /\ read' = result.read /\ pc' = "next" /\ UNCHANGED ended
              \/ (result.raised \/ part) /\ read' = {} /\ Ends("anlz")
  /\ UNCHANGED <<session, inv, paramVars, tpSet, done, net>>

Next ==
  \/ Invoke \/ Finish \/ NoTestParamSet \/ getTestParamSet
  \/ StartTest \/ EndTest \/ AllTested \/ Interrupt \/ Joined \/ Anlz

Spec == Init /\ [][Next]_vars

----------------------------------------------------------------------------
(* Properties *)

Ran == inv > 0 /\ ~args.isAnlz /\ ~args.isManual

\* TestParamSet.add makes one test for every combination of its values and
\* dictionaries, in the order of nested loops with the last innermost, each with a
\* name of its own (its log files have no other), and where two of them give the same
\* key the later one counts.
Enumerates ==
  pc = "tests" /\ done = 0 =>
    LET set == Sets[tpSet.name]
        tests == tpSet.tests
        dims == Dims(set.segs, set.groups)
        after(i) == FoldLeft(LAMBDA n, d : n * d, 1, SubSeq(dims, i + 1, Len(dims)))
        choice(k, i) ==
          Choice(set.segs, set.groups,
                 [j \in DOMAIN dims |-> (((k - 1) \div after(j)) % dims[j]) + 1], i)
    IN  /\ Len(tests) = after(0)
        /\ Cardinality({tests[k].name : k \in DOMAIN tests}) = Len(tests)
        /\ \A k \in DOMAIN tests, i \in DOMAIN dims :
             \A key \in DOMAIN choice(k, i) :
               \/ \E j \in (i + 1)..Len(dims) : key \in DOMAIN choice(k, j)
               \/ Get(tests[k], key) = choice(k, i)[key]

\* What Instance.run builds fits what the test says of it.  Every link of its own
\* that a static test configures exists (getLP would not miss it), but for one that
\* loss_test_1 keeps from a shorter topology; every second of a dynamic one is a path
\* without a loop, each hop of which is listed once as a link in one direction or the
\* other (a link made twice, or not at all, fails when it is configured) and has an
\* rtt, a loss and a rate; satellites keep their number.
PathFits(trace, l) ==
  LET nodes == <<0>> \o l.topo \o <<-1>>
  IN  /\ Len(l.rtt) = Len(nodes) + 1 /\ Len(l.loss) = Len(nodes) + 1
      /\ Len(l.bw) = Len(nodes) + 1 /\ \A h \in DOMAIN l.bw : l.bw[h] > 0
      /\ ToSet(l.topo) \subseteq 1..trace.total_midnodes
      /\ IsInjective(l.topo) /\ Len(l.topo) <= trace.max_midnodes
      /\ \A h \in 1..(Len(nodes) - 1) :
           Cardinality({k \in DOMAIN trace.isls :
             ToSet(trace.isls[k]) = {nodes[h], nodes[h + 1]}}) = 1

KeepsNumbers(trace, app) ==
  LET path(t) == get_path(app.src + SatelliteNum, app.dst + SatelliteNum,
                          FstateAt(app.route_algorithm, t))
      topo(t) == trace.links_params[t].topo
  IN  \A t1, t2 \in DOMAIN trace.links_params :
        \A a \in DOMAIN topo(t1), b \in DOMAIN topo(t2) :
          topo(t1)[a] = topo(t2)[b] <=> path(t1)[a + 1] = path(t2)[b + 1]

NetFits ==
  pc = "running" =>
    CASE net.kind = "topo" ->
           DOMAIN Test.links \ {"defaultLP"} \subseteq
             ToSet(net.links) \cup (IF tpSet.name = "loss_test_1" THEN {"m2_gs2"} ELSE {})
      [] net.kind = "trace" ->
           /\ \A t \in DOMAIN net.links_params : PathFits(net, net.links_params[t])
           /\ Test.app.src # -1 => KeepsNumbers(net, Test.app)

\* plotByGroup: every test is a point of one curve, the tests of a curve agree in the
\* keys curves differ in and two curves do not, and along a curve x grows: the curve
\* is a function of it.  Two sets do not keep the last: they vary something else than
\* their x.
NotFunctions == {"ablation_test", "owd_thrp_balance_varbw_test"}

CurvesSound ==
  LET lines == /\ pc = "anlz" /\ Ran
               /\ tpSet.template.app.analyse_callback \in {"lineChart", "lineChart_with_loss"}
               /\ tpSet.template.app.test_type # "owdTest" /\ tpSet.keyX # "nokeyx"
  IN  lines /\ ~plotRaises(tpSet) =>
        LET curves == Curves(tpSet)
            x(tp) == Get(tp, tpSet.keyX)
            alike(tp1, tp2) == \A i \in DOMAIN tpSet.keysCurveDiff :
              Get(tp1, tpSet.keysCurveDiff[i]) = Get(tp2, tpSet.keysCurveDiff[i])
            points == {<<c, i>> \in (DOMAIN curves) \X (DOMAIN tpSet.tests) :
                         i \in DOMAIN curves[c]}
        IN  /\ Cardinality(points) = Len(tpSet.tests)
            /\ {curves[p[1]][p[2]].name : p \in points} =
                 {tpSet.tests[i].name : i \in DOMAIN tpSet.tests}
            /\ \A p, q \in points :
                 p[1] = q[1] <=> alike(curves[p[1]][p[2]], curves[q[1]][q[2]])
            /\ tpSet.name \notin NotFunctions <=>
                 \A p, q \in points :
                   p[1] = q[1] /\ p[2] < q[2] => x(curves[p[1]][p[2]]) < x(curves[q[1]][q[2]])

\* An analysis that follows its tests is made from whole logs of these tests only,
\* whatever earlier invocations left, stopped half way or not.
OwnLogs ==
  Ran => \A content \in read : \A i \in DOMAIN content :
           content[i] = [by |-> inv, whole |-> TRUE]

\* A set that is the first of its process gets through: its tests all find a network,
\* and its analysis finds the logs and draws them, but for seven sets: those whose x
\* is configured nowhere, whose losses have no colour, whose summary formats a list
\* as a number, whose test leaves no log.  A later set fails to run only when it is a
\* static one and inherits from a dynamic one.
Undrawable == {"large_hop_num", "owd_thrp_balance_itm_test", "retran_test_2",
               "big_rtt_retran_test", "big_rtt_retran_test_2", "throughput_with_traffic",
               "cpuTest"}

FailsAsKnown ==
  /\ ended = "run" =>
       /\ "dynamic" \notin DOMAIN Sets[tpSet.name].ap
       /\ \E i \in 1..(Len(given) - 1) : "dynamic" \in DOMAIN Sets[given[i]].ap
  /\ Ran /\ Len(given) = 1 =>
       /\ ended = "anlz" => tpSet.name \in Undrawable
       /\ read # {} => tpSet.name \notin Undrawable

=============================================================================
