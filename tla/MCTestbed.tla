----------------------------- MODULE MCTestbed -----------------------------
(***************************************************************************)
(* Experiments to check: a linear, a fairness and three dynamic networks.  *)
(***************************************************************************)
EXTENDS Testbed

Plain == [dynamic |-> FALSE, manual |-> FALSE, testType |-> "throughputTest",
          threads |-> {"LinkUpdate", "Init", "cpuTest"},
          protocol |-> "TCP", pep |-> FALSE, sendRound |-> 1, flowNum |-> 2,
          nodes |-> <<>>, links |-> <<>>, pathes |-> <<>>,
          isls |-> <<>>, mids |-> 0, topos |-> <<>>,
          varBw |-> <<>>, itmDown |-> <<>>]

\* gen_linear_topo
Linear(n, dummy) ==
  LET nodes == <<H1, GS1>> \o [i \in 1..n |-> Mid(i)] \o <<GS2>>
                 \o (IF dummy THEN <<DummyNode>> ELSE <<>>) \o <<H2>>
  IN  [Plain EXCEPT !.nodes = nodes,
                    !.links = [i \in 1..(Len(nodes) - 1) |-> <<nodes[i], nodes[i + 1]>>],
                    !.pathes = <<nodes>>]

\* gen_fairness_topo
Fair ==
  LET m == Mid(1)
  IN  [Plain EXCEPT
        !.nodes = [i \in 1..3 |-> Host(i)] \o [i \in 1..3 |-> Ground(i)]
                    \o [i \in 1..3 |-> Mid(i)],
        !.links = << <<H1, GS1>>, <<Host(3), Ground(3)>>, <<GS1, m>>, <<m, GS2>>,
                     <<Ground(3), Mid(2)>>, <<Mid(2), Mid(3)>>, <<Mid(3), m>>, <<GS2, H2>> >>,
        !.pathes = << <<H1, GS1, m, GS2, H2>>,
                      <<Host(3), Ground(3), Mid(2), Mid(3), m, GS2, H2>> >>]

\* Two satellites used in both orders, so that one topo uses their link backwards
Swapped ==
  [Plain EXCEPT !.dynamic = TRUE, !.mids = 2,
                !.threads = {"LinkUpdate", "DynamicLinkUpdate"},
                !.isls = << <<0, 1>>, <<1, 2>>, <<2, -1>>, <<0, 2>>, <<1, -1>> >>,
                !.topos = << <<1, 2>>, <<2, 1>>, <<2>> >>]

MCExperiments ==
  { [Linear(1, FALSE) EXCEPT !.testType = "throughputWithOwd", !.protocol = "INTCP",
                             !.pep = TRUE, !.varBw = <<2>>],
    [Linear(0, TRUE) EXCEPT !.testType = "throughputWithTraffic", !.sendRound = 2],
    [Linear(0, FALSE) EXCEPT !.manual = TRUE, !.varBw = <<1>>],
    [Linear(1, FALSE) EXCEPT !.itmDown = <<2>>,
                             !.threads = {"MakeItm", "LinkUpdate"}, !.testType = "cpuTest", !.protocol = "INTCP"],
    [Fair EXCEPT !.testType = "fairnessTest"],
    [Swapped EXCEPT !.testType = "owdTest", !.protocol = "INTCP", !.pep = TRUE],
    [Swapped EXCEPT !.testType = "trafficTest"] }

MCTests == {"ThroughputTest", "OwdTest", "TrafficTest", "ThrpWithOwdTest",
            "FairnessTest", "cpuTest"}

=============================================================================
