------------------------------ MODULE Analysis ------------------------------
(***************************************************************************)
(* What the tests leave in the log files of a set (userThreads.py) and     *)
(* what autoAnlz.py makes of them.  A log file is named by its test and a  *)
(* suffix; its content is the sequence of what was written to it, each     *)
(* piece with the invocation that wrote it and whether the test was over.  *)
(* The figures in a log are left out: a whole log is taken to hold enough  *)
(* of them to average.                                                     *)
(***************************************************************************)
EXTENDS TpSets

File(tp, suffix) == <<tp.name, suffix>>
Files(tp, suffixes) == {File(tp, s) : s \in suffixes}
Flows(tp) == {ToString(i) : i \in 1..tp.app.flowNum}
IsTcp(tp) == tp.app.protocol = "TCP"
WithOwd == {"owdThroughputBalance", "throughputWithOwd", "all"}

\* Faulty: nothing is deleted.
DeletedNever(tp) == {}

\* delFile, before a test starts its programs
Deleted(tp) ==
  LET type == tp.app.test_type
  IN  CASE type = "owdTest" -> {"", "send", "recv"}
        [] type \in WithOwd -> {"", "thrp", "send", "recv", "sendSummary"}
        [] type = "fairnessTest" -> Flows(tp)
        [] OTHER -> {""}

\* What the commands of a test redirect to log files, in order.  iperf3 appends to
\* its log file, like >>.
Truncate(suffix) == [suffix |-> suffix, append |-> FALSE]
Extend(suffix) == [suffix |-> suffix, append |-> TRUE]

\* Faulty: the client of LEOTP logs where the delays go.
ThrpWithOwdLogsMixed(tp) ==
  <<Truncate("send"), Truncate("recv")>>
    \o (IF IsTcp(tp) THEN <<Extend("thrp"), Extend("sendSummary")>> ELSE <<Truncate("")>>)

ThrpWithOwdLogs(tp) ==
  <<Truncate("send"), Truncate("recv")>>
    \o (IF IsTcp(tp) THEN <<Extend("thrp"), Extend("sendSummary")>>
        ELSE <<Truncate("thrp")>>)

Written(tp) ==
  LET type == tp.app.test_type
  IN  CASE type = "throughputTest" -> <<Extend("")>>
        [] type \in {"throughputWithTraffic", "trafficTest"} -> <<Truncate(""), Extend("")>>
        [] type = "owdTest" -> IF IsTcp(tp) THEN <<Truncate("")>>
                               ELSE <<Truncate("send"), Truncate("recv")>>
        [] type \in WithOwd -> ThrpWithOwdLogs(tp)
        [] type = "fairnessTest" ->
             [i \in 1..tp.app.flowNum |->
                IF IsTcp(tp) THEN Extend(ToString(i)) ELSE Truncate(ToString(i))]
        [] OTHER -> <<>>        \* cpuTest

Delete(logs, tp) == [f \in DOMAIN logs \ Files(tp, Deleted(tp)) |-> logs[f]]

Write(logs, tp, writes, piece) ==
  FoldLeft(LAMBDA ls, w :
             LET f == File(tp, w.suffix)
             IN  (f :> IF w.append /\ f \in DOMAIN ls THEN Append(ls[f], piece)
                       ELSE <<piece>>) @@ ls,
           logs, writes)

----------------------------------------------------------------------------
(* Reading *)

\* Not measured in this kind of test
Skipped(tp) ==
  tp.app.test_type = "owdThroughputBalance" /\ (IsTcp(tp) <=> tp.app.sendq_length # 0)

\* getTCDelay and getOwdTotal need the links of a static topology.
HasLinks(tp) == tp.topo.kind = "topo"

\* The one way delays, from the times of sending and receiving
Generated(tp) == ~Skipped(tp) /\ ~(IsTcp(tp) /\ tp.app.test_type = "owdTest")

generateLog(logs, tests) ==
  LET gen(acc, tp) ==
        LET from == {File(tp, "send"), File(tp, "recv")}
        IN  IF acc.raised \/ ~Generated(tp) THEN acc
            ELSE IF (tp.app.dynamic = 0 /\ ~HasLinks(tp)) \/ ~(from \subseteq DOMAIN acc.logs)
            THEN [acc EXCEPT !.raised = TRUE]
            ELSE [acc EXCEPT !.logs = (File(tp, "") :> acc.logs[File(tp, "send")]
                                                        \o acc.logs[File(tp, "recv")]) @@ @]
  IN  FoldLeft(gen, [logs |-> logs, raised |-> FALSE], tests)

\* The files loadLog reads for one metric
Reads(tp, metric) ==
  LET type == tp.app.test_type
      rate == IF IsTcp(tp) THEN "recv" ELSE "thrp"
  IN  CASE Skipped(tp) -> {}
        [] type = "owdThroughputBalance" -> {"", rate}
        [] type = "throughputWithOwd" ->
             {CASE metric = "thrp" -> rate
                [] metric = "owd" -> ""
                [] metric = "loss" -> IF IsTcp(tp) THEN "send" ELSE "recv"}
        [] type = "fairnessTest" -> Flows(tp)
        [] OTHER -> {""}

LoadRaises(logs, tests, metric) ==
  \E i \in DOMAIN tests :
    \/ ~(Files(tests[i], Reads(tests[i], metric)) \subseteq DOMAIN logs)
    \/ tests[i].app.test_type = "owdTest" /\ ~HasLinks(tests[i])

----------------------------------------------------------------------------
(* Drawing *)

\* Tests that agree in the keys are one group, in the order they are met.
GroupBy(tests, keys) ==
  LET join(groups, tp) ==
        LET fits == {i \in DOMAIN groups : compareKeys(tp, Head(groups[i]), keys)}
        IN  IF fits = {} THEN Append(groups, <<tp>>)
            ELSE LET i == CHOOSE j \in fits : \A k \in fits : j <= k
                 IN  [groups EXCEPT ![i] = Append(@, tp)]
  IN  FoldLeft(join, <<>>, tests)

\* sorted is stable.
SortByX(group, keyX) ==
  LET x(i) == Get(group[i], keyX)
      order == SortSeq([i \in DOMAIN group |-> i],
                       LAMBDA i, j : x(i) < x(j) \/ (x(i) = x(j) /\ i < j))
  IN  [i \in DOMAIN group |-> group[order[i]]]

Unsorted == {"bar", "scatter"}

\* No set gives keysPlotDiff: all curves are in one figure.
Curves(tpSet) ==
  LET groups == GroupBy(tpSet.tests, tpSet.keysCurveDiff)
  IN  [i \in DOMAIN groups |->
         IF Len(groups[i]) < 2 \/ tpSet.template.app.analyse_callback \in Unsorted
         THEN groups[i] ELSE SortByX(groups[i], tpSet.keyX)]

\* getPlotParam knows colours for some losses only.
NoColour(tp) ==
  LET type == tp.app.test_type
      coloured == CASE type = "owdTest" -> {20, 100, 200}
                    [] type = "cpuTest" -> {0, 100, 200}
  IN  type \in {"owdTest", "cpuTest"}
        /\ (tp.links = <<>> \/ tp.links.defaultLP.loss \notin coloured)

cdfRaises(tpSet) == \E i \in DOMAIN tpSet.tests : NoColour(tpSet.tests[i])

\* drawBarChart has six hatches and a tick for each bar of the first group.
barRaises(tpSet, groups) ==
  \/ Len(groups) > 6
  \/ \E i \in DOMAIN groups : NoColour(Head(groups[i])) \/ Len(groups[i]) # Len(groups[1])
  \/ LET middle == groups[Len(groups) \div 2 + 1]        \* the ticks are named once
     IN  \E i \in DOMAIN middle : ~Has(middle[i], tpSet.keyX)

\* getScatterParam has no colour for vegas.
scatterRaises(groups) ==
  \E i \in DOMAIN groups : IsTcp(Head(groups[i])) /\ Head(groups[i]).app.e2eCC = "vegas"

lineRaises(tpSet, groups) ==
  \/ Len(groups) > 1 /\ \E i \in DOMAIN groups : NoColour(Head(groups[i]))
  \/ \E i \in DOMAIN tpSet.tests : ~Has(tpSet.tests[i], tpSet.keyX)
  \/ tpSet.keyX = "h1_gs1.rtt" /\ Len(groups) > 1       \* getOwdTotal
       /\ \E i \in DOMAIN tpSet.tests : ~HasLinks(tpSet.tests[i])

plotRaises(tpSet) ==
  LET groups == GroupBy(tpSet.tests, tpSet.keysCurveDiff)
      callback == tpSet.template.app.analyse_callback
  IN  CASE callback = "bar" -> barRaises(tpSet, groups)
        [] callback = "scatter" -> scatterRaises(groups)
        [] OTHER -> lineRaises(tpSet, groups)

----------------------------------------------------------------------------
(* anlz: the metrics it loads, and how it draws them *)

LineTypes == {"throughputTest", "trafficTest", "throughputWithTraffic"}

Metrics(app) ==
  LET type == app.test_type
      callback == app.analyse_callback
  IN  CASE type \in LineTypes ->
             IF callback \in {"lineChart", "cdf"} THEN {"thrp"} ELSE {}
        [] type = "throughputWithOwd" ->
             (CASE callback \in {"cdf", "lineChart", "bar"} -> {"thrp", "owd"}
                [] callback = "lineChart_with_loss" -> {"thrp", "owd", "loss"}
                [] OTHER -> {})
        [] type = "all" -> {}
        [] OTHER -> {"thrp"}

Generates(app) == app.test_type \in {"owdTest", "owdThroughputBalance", "throughputWithOwd"}

DrawRaises(tpSet) ==
  LET app == tpSet.template.app
      type == app.test_type
  IN  CASE type \in LineTypes ->
             (CASE app.analyse_callback = "lineChart" ->
                     \/ tpSet.keyX # "nokeyx" /\ plotRaises(tpSet)
                     \/ type = "throughputWithTraffic"  \* '%.3f' of a list of two
                [] app.analyse_callback = "cdf" -> cdfRaises(tpSet)
                [] OTHER -> FALSE)
        [] type = "owdTest" -> cdfRaises(tpSet)
        [] type \in {"owdThroughputBalance", "cpuTest"} -> plotRaises(tpSet)
        [] type = "throughputWithOwd" ->
             IF app.analyse_callback = "cdf" THEN cdfRaises(tpSet)
             ELSE Metrics(app) # {} /\ plotRaises(tpSet)
        [] OTHER -> FALSE

\* The logs afterwards, what was read, and whether it raises
anlz(tpSet, logs) ==
  LET app == tpSet.template.app
      gen == IF Generates(app) THEN generateLog(logs, tpSet.tests)
             ELSE [logs |-> logs, raised |-> FALSE]
      metrics == Metrics(app)
      raised == \/ gen.raised
                \/ \E m \in metrics : LoadRaises(gen.logs, tpSet.tests, m)
                \/ DrawRaises(tpSet)
      files == UNION {Files(tpSet.tests[i], Reads(tpSet.tests[i], m)) :
                        i \in DOMAIN tpSet.tests, m \in metrics}
  IN  [logs |-> gen.logs, raised |-> raised,
       read |-> IF raised THEN {} ELSE {gen.logs[f] : f \in files}]

=============================================================================
