---------------------------- MODULE MCExperiment ----------------------------
(***************************************************************************)
(* Experiment with a constellation of twelve satellites watched for four   *)
(* seconds, and sessions of one or two invocations.                        *)
(***************************************************************************)
EXTENDS Experiment

\* The path to a city in each second: satellites are 0..11, the city c is 12 + c, and
\* ground stations that relay are 100 and more.
MCSatelliteNum == 12
Beijing == 6 + 12

IslPaths(city) ==
  LET s == city % 4
  IN  << <<s, s + 1, s + 2>>, <<s, s + 1, s + 2>>, <<s + 3, s + 1, s + 2, s + 4>>,
        <<s + 3, s + 2, s + 1>> >>
RelayPaths(city) ==
  LET s == city % 4
  IN  << <<s, 100, s + 1>>, <<s, 100, s + 1>>, <<s, 101, s + 3, 100, s + 1>>,
        <<s + 3, 100, s + 1>> >>

MCPaths(algorithm, city, t) ==
  <<Beijing>> \o (IF algorithm = "with_isl" THEN IslPaths(city) ELSE RelayPaths(city))[t]
    \o <<city + 12>>

\* The entries along the path; none when it is the same as the second before
Entries(algorithm, city, t) ==
  IF t > 1 /\ MCPaths(algorithm, city, t) = MCPaths(algorithm, city, t - 1) THEN <<>>
  ELSE LET path == MCPaths(algorithm, city, t)
           node(n) == CHOOSE i \in 1..(Len(path) - 1) : path[i] = n
       IN  [e \in {<<path[i], city + 12>> : i \in 1..(Len(path) - 1)} |->
              path[node(e[1]) + 1]]

MCFstates ==
  [algorithm \in {"with_isl", "relay_only"} |->
     [t \in 1..4 |-> FoldLeft(LAMBDA fstate, city : Entries(algorithm, city, t) @@ fstate,
                              <<>>, <<2, 9, 24, 25, 45>>)]]

MCHopRtt(a, b) == 2 + ((a + b) % 5)

----------------------------------------------------------------------------
Run(ns) == [names |-> ns, isAnlz |-> FALSE, isManual |-> FALSE]
Again(ns) == [Run(ns) EXCEPT !.isAnlz = TRUE]
Manual(ns) == [Run(ns) EXCEPT !.isManual = TRUE]

\* Each set alone, analysed again afterwards
Alone == {<<Run(<<n>>), Again(<<n>>)>> : n \in DOMAIN Sets}

\* Sets of every kind of test, run again after they were run or stopped
Kinds == {"coverage_test", "cpuTest", "dynamic_test", "flow_test", "final_itm_test_1",
          "retran_test", "static_test"}
Reruns == {<<Run(<<n>>), Run(<<n>>)>> : n \in Kinds}
Manuals == {<<Manual(<<n>>), Run(<<n>>)>> : n \in {"cpuTest", "flow_test"}}

\* The later set inherits from the earlier.
Mixed == {"coverage_test", "distance_test_with_isl_backup", "retran_test", "rtt_fluct_test",
          "flow_test", "delay_ack_test", "motivation_split_test",
          "delay_feedback_distance_backup", "dynamic_sim_test_3"}
Pairs == {<<Run(<<n, m>>)>> : n, m \in Mixed}

\* With both flags nothing is done, not even for a name that is unknown.
Dry == <<[Again(<<"dynamic_sim_test_3", "flow_test">>) EXCEPT !.isManual = TRUE]>>

MCSessions == Alone \cup Reruns \cup Manuals \cup Pairs \cup {Dry}

=============================================================================
