------------------------------- MODULE TpSets -------------------------------
(***************************************************************************)
(* The sets of tests (getTestParamSet of MyParam.py).  A set is its        *)
(* topology, what it gives of the defaults and of single links, the key of *)
(* the x axis with the keys its curves differ in, and the arguments of     *)
(* add.  Losses, variations, intervals and ratios are in hundredths.       *)
(***************************************************************************)
EXTENDS ParamSets

Static(topo, lp, links, ap) == [topo |-> topo, lp |-> lp, links |-> links, ap |-> ap]
Dynamic(topo, ap) == Static(topo, <<>>, <<>>, ap)       \* its linksParam is None
Figure(keyX, curves) == [keyX |-> keyX, keysCurveDiff |-> curves]
Add(segs, groups) == [segs |-> segs, groups |-> groups]

\* Choices many sets have
PME == <<"protocol", "midCC", "e2eCC">>
Pep(name, extra) == <<name, [midCC |-> "pep", protocol |-> "INTCP"] @@ extra>>
InPep == Pep("in_pep", <<>>)
InNopep == <<"in_nopep", [midCC |-> "nopep", protocol |-> "INTCP"]>>
Tcp(cc) == <<cc, [midCC |-> "nopep", e2eCC |-> cc, protocol |-> "TCP"]>>
Split(name, cc) == <<name, [midCC |-> cc, e2eCC |-> cc, protocol |-> "TCP"]>>
City(name, dst) == <<name, [src |-> 6, dst |-> dst]>>
Cities == <<City("beijing_hangkong", 45), City("beijing_paris", 24),
            City("beijing_newyork", 9)>>

\* A trace is given by the call that makes it; all paths start in Beijing.
MadeBy(make) == [kind |-> "call", make |-> make, dst |-> -1, algorithm |-> "", args |-> <<>>]
TraceTo(dst, algorithm) == [MadeBy("get_trace") EXCEPT !.dst = dst, !.algorithm = algorithm]
Lossy(dst) ==
  [TraceTo(dst, "relay_only") EXCEPT
     !.make = "get_complete_relay_only_trace",
     !.args = [bw_fluctuation |-> TRUE, uplink_loss |-> 100, downlink_loss |-> 100]
                @@ RelayDefaults]

\* The topoParam of a set
TopoParam(topo) ==
  LET origin == get_trace(6, topo.dst, topo.algorithm)
  IN  CASE topo.kind # "call" -> topo
        [] topo.kind = "call" ->
             CASE topo.make = "get_trace" -> origin
               [] topo.make = "get_complete_trace" -> get_complete_trace(origin, topo.args)
               [] topo.make = "get_complete_relay_only_trace" ->
                    get_complete_relay_only_trace(origin, topo.args)
               [] topo.make = "gen_link_change_trace" -> gen_link_change_trace
               [] topo.make = "gen_extreme_trace" -> gen_extreme_trace
               [] topo.make = "gen_delay_ack_trace" ->
                    gen_delay_ack_trace(topo.args[1], topo.args[2])

----------------------------------------------------------------------------


static_test ==
  Static(gen_linear_topo(1, FALSE), [bw |-> 40, loss |-> 100, rtt |-> 10],
         [h1_gs1 |-> [loss |-> 0], gs2_h2 |-> [loss |-> 0]],
         [sendTime |-> 60, test_type |-> "throughputWithOwd", protocol |-> "TCP",
          analyse_callback |-> "lineChart_with_loss"])
  @@ Figure("defaultLP.loss", <<"midCC", "e2eCC">>)
  @@ Add(<< <<"defaultLP.loss", <<0, 10, 50, 100>> >>,
            <<"e2eCC", <<"cubic", "bbr">> >> >>,
         << << <<"notunnel", [midCC |-> "nopep"]>>, <<"tunnel", [midCC |-> "pep"]>> >> >>)

large_hop_num ==
  Static(gen_linear_topo(12, FALSE), [bw |-> 20, loss |-> 100, rtt |-> 10],
         [m12_gs2 |-> [bw |-> 5]],
         [sendTime |-> 60, test_type |-> "throughputWithOwd"])
  @@ Figure("gs1_m1.varBw", PME)
  @@ Add(<<>>, << <<InPep>> >>)

dynamic_test ==
  Dynamic(Unbound,
          [dynamic |-> 1, dynamic_complete |-> FALSE, sendTime |-> 600])
  @@ Figure("dynamic_isl_loss", PME)
  @@ Add(<< <<"dynamic_isl_loss", <<0, 100>> >> >>, << <<InPep, InNopep, Tcp("bbr")>> >>)

dynamic_complex_test ==
  Dynamic(Unbound,
          [dynamic |-> 1, dynamic_complete |-> FALSE, sendTime |-> 600,
           dynamic_intv |-> 100])
  @@ Figure("nokeyx", PME)
  @@ Add(<<>>,
         << <<InPep, InNopep, Tcp("cubic"), Split("cubic_pep", "cubic"),
              Tcp("westwood"), Split("westwood_pep", "westwood"), Tcp("hybla"),
              Split("hybla_pep", "hybla"), Tcp("bbr"), Tcp("pcc")>> >>)

dynamic_sim_test_1 ==
  Dynamic(Unbound,
          [dynamic |-> 1, dynamic_complete |-> FALSE, sendTime |-> 600])
  @@ Figure("dynamic_isl_loss", PME)
  @@ Add(<< <<"dynamic_isl_loss", <<1, 10, 20, 40, 60, 80, 100>> >> >>,
         << <<InPep, InNopep, Tcp("bbr"), Tcp("pcc")>> >>)

dynamic_sim_test_2 ==
  Dynamic(Unbound,
          [dynamic |-> 1, dynamic_complete |-> FALSE, dynamic_bw_fluct |-> TRUE,
           sendTime |-> 600, analyse_callback |-> "cdf"])
  @@ Figure("dynamic_isl_loss", PME)
  @@ Add(<< <<"dynamic_isl_loss", <<100>> >> >>,
         << <<InPep, InNopep, Tcp("bbr"), Tcp("pcc")>> >>)

beijing_newyork_cdf ==
  Dynamic(TraceTo(9, "with_isl"),
          [dynamic |-> 1, dynamic_complete |-> FALSE, dynamic_bw_fluct |-> TRUE,
           dynamic_intv |-> 100, sendTime |-> 600, test_type |-> "throughputWithOwd",
           analyse_callback |-> "cdf"])
  @@ Figure("dynamic_isl_loss", PME \o <<"dynamic_isl_loss">>)
  @@ Add(<< <<"dynamic_isl_loss", <<100>> >> >>,
         << <<InPep, Tcp("bbr"), Tcp("pcc"), Tcp("hybla")>> >>)

beijing_newyork_cdf_backup ==
  Dynamic(TraceTo(9, "with_isl"),
          [dynamic |-> 1, dynamic_complete |-> FALSE, dynamic_bw_fluct |-> TRUE,
           sendTime |-> 600, test_type |-> "throughputWithOwd"])
  @@ Figure("dynamic_isl_loss", PME \o <<"dynamic_isl_loss">>)
  @@ Add(<< <<"dynamic_isl_loss", <<100>> >> >>, << <<InPep>> >>)

distance_test_with_isl ==
  Dynamic(NoTopoParam,
          [dynamic |-> 1, dynamic_complete |-> FALSE, dynamic_bw_fluct |-> TRUE,
           sendTime |-> 600, test_type |-> "throughputWithOwd",
           analyse_callback |-> "bar"])
  @@ Figure("dst", PME \o <<"dynamic_isl_loss", "coverage">>)
  @@ Add(<< <<"dynamic_isl_loss", <<100>> >> >>,
         << <<InPep, Pep("in_pep_25", [coverage |-> 25]), Tcp("bbr"), Tcp("pcc")>>,
            Cities >>)

distance_test_with_isl_backup ==
  Dynamic(NoTopoParam,
          [dynamic |-> 1, dynamic_complete |-> FALSE, dynamic_bw_fluct |-> TRUE,
           sendTime |-> 600, test_type |-> "throughputWithOwd"])
  @@ Figure("dst", PME \o <<"dynamic_isl_loss", "coverage">>)
  @@ Add(<< <<"dynamic_isl_loss", <<100>> >> >>,
         << <<Pep("in_pep_25", [coverage |-> 25])>>,
            Cities >>)

distance_test_with_isl_bw_flunct ==
  Dynamic(NoTopoParam,
          [dynamic |-> 1, dynamic_complete |-> FALSE, dynamic_bw_fluct |-> TRUE,
           sendTime |-> 600, test_type |-> "throughputWithOwd",
           dynamic_ground_link_rtt |-> 20, dynamic_uplink_bw |-> 10,
           analyse_callback |-> "lineChart", txqueuelen |-> 100, max_queue_size |-> 150])
  @@ Figure("dst", PME \o <<"coverage">>)
  @@ Add(<< <<"dynamic_isl_loss", <<10>> >> >>,
         << <<InPep, Pep("in_pep_25_5000_7", [coverage |-> 25]), Tcp("bbr"),
              Tcp("pcc"), Tcp("hybla")>>,
            Cities >>)

coverage_test ==
  Dynamic(NoTopoParam,
          [dynamic |-> 1, dynamic_complete |-> FALSE, dynamic_bw_fluct |-> TRUE,
           sendTime |-> 300, test_type |-> "throughputWithOwd"])
  @@ Figure("dynamic_isl_loss", PME \o <<"dynamic_isl_loss", "coverage">>)
  @@ Add(<< <<"dynamic_isl_loss", <<100>> >>, <<"coverage", <<100>> >> >>,
         << <<InPep>>,
            <<City("beijing_newyork", 9)>> >>)

ablation_test ==
  Dynamic(NoTopoParam,
          [dynamic |-> 1, dynamic_complete |-> FALSE, dynamic_bw_fluct |-> TRUE,
           sendTime |-> 600, test_type |-> "throughputWithOwd",
           dynamic_ground_link_rtt |-> 20, dynamic_uplink_bw |-> 10,
           analyse_callback |-> "lineChart", txqueuelen |-> 100, max_queue_size |-> 150])
  @@ Figure("dynamic_isl_loss", PME \o <<"dynamic_isl_loss", "coverage">>)
  @@ Add(<< <<"dynamic_isl_loss", <<10>> >> >>,
         << <<InPep, Pep("in_pep_hopCC", <<>>), Pep("in_pep_cache_10000", <<>>),
              Pep("in_pep_none_10000", <<>>)>>,
            Cities >>)

relay_only_test ==
  Dynamic(TraceTo(25, "relay_only"),
          [dynamic |-> 1, dynamic_complete |-> FALSE, dynamic_bw_fluct |-> TRUE,
           sendTime |-> 600, analyse_callback |-> "cdf"])
  @@ Figure("dynamic_isl_loss", PME)
  @@ Add(<< <<"dynamic_isl_loss", <<100>> >> >>, << <<InPep, Tcp("bbr")>> >>)

relay_only_cdf_1 ==
  Dynamic(Lossy(25),
          [dynamic |-> 1, dynamic_complete |-> TRUE, sendTime |-> 600,
           test_type |-> "throughputWithOwd", analyse_callback |-> "cdf"])
  @@ Figure("dynamic_isl_loss", PME)
  @@ Add(<<>>, << <<InPep, Tcp("bbr"), Tcp("pcc")>> >>)

beijing_shanghai_cdf ==
  Dynamic(Lossy(2),
          [dynamic |-> 1, dynamic_complete |-> TRUE, sendTime |-> 600,
           test_type |-> "throughputWithOwd", analyse_callback |-> "cdf"])
  @@ Figure("dynamic_isl_loss", PME)
  @@ Add(<<>>, << <<InPep, Tcp("bbr"), Tcp("pcc"), Tcp("hybla")>> >>)

beijing_shanghai_cdf_backup ==
  Dynamic(Lossy(2),
          [dynamic |-> 1, dynamic_complete |-> TRUE, sendTime |-> 600,
           test_type |-> "throughputWithOwd"])
  @@ Figure("dynamic_isl_loss", PME)
  @@ Add(<<>>, << <<InPep>> >>)

beijing_shanghai_cdf_2 ==
  Dynamic([TraceTo(2, "relay_only") EXCEPT
             !.make = "get_complete_trace",
             !.args = [bw_fluctuation |-> TRUE, ground_link_rtt |-> 10, uplink_loss |-> 100,
                       downlink_loss |-> 100, uplink_bw |-> 10] @@ IslDefaults],
          [dynamic |-> 1, dynamic_complete |-> TRUE, sendTime |-> 600,
           test_type |-> "throughputWithOwd", analyse_callback |-> "cdf"])
  @@ Figure("dynamic_isl_loss", PME)
  @@ Add(<<>>, << <<InPep, Tcp("bbr"), Tcp("pcc"), Tcp("hybla")>> >>)

dynamic_exp_2 ==
  Dynamic(MadeBy("gen_link_change_trace"),
          [dynamic |-> 1, sendTime |-> 120])
  @@ Figure("dynamic_intv", PME)
  @@ Add(<< <<"dynamic_intv", <<500, 1000, 1500, 2000>> >> >>,
         << <<InPep, InNopep, Tcp("cubic"), Split("cubic_pep", "cubic"),
              Tcp("westwood"), Split("westwood_pep", "westwood"), Tcp("hybla"),
              Split("hybla_pep", "hybla"), Tcp("bbr"), Tcp("pcc")>> >>)

dynamic_exp_4 ==
  Dynamic(MadeBy("gen_link_change_trace"),
          [dynamic |-> 1, dynamic_complete |-> FALSE, dynamic_ground_link_rtt |-> 20,
           dynamic_uplink_bw |-> 20, sendTime |-> 120, dynamic_gsl_loss |-> 0])
  @@ Figure("dynamic_intv", PME \o <<"dynamic_isl_loss">>)
  @@ Add(<< <<"dynamic_isl_loss", <<5>> >>,
            <<"dynamic_intv", <<100, 200, 500, 1000, 1500, 2000>> >> >>,
         << <<InPep, Tcp("cubic"), Tcp("vegas"), Tcp("hybla"), Tcp("bbr"),
              Tcp("pcc")>> >>)

rtt_fluct_test ==
  Dynamic(MadeBy("gen_link_change_trace"),
          [dynamic |-> 1, dynamic_complete |-> FALSE, dynamic_ground_link_rtt |-> 10,
           dynamic_uplink_bw |-> 20, sendTime |-> 120, dynamic_gsl_loss |-> 0])
  @@ Figure("dynamic_intv", PME)
  @@ Add(<< <<"dynamic_isl_loss", <<1>> >>,
            <<"dynamic_intv", <<100, 200, 500, 1000, 1500, 2000>> >> >>,
         << <<InPep, Tcp("bbr"), Tcp("pcc"), Tcp("hybla"), Tcp("cubic"),
              <<"vegas", [midCC |-> "nopep", e2eCC |-> "vegas", protocol |-> "TCP",
                          sendTime |-> 240]>> >> >>)

dynamic_exp_3 ==
  Dynamic(MadeBy("gen_extreme_trace"),
          [dynamic |-> 1, sendTime |-> 120])
  @@ Figure("dynamic_intv", PME)
  @@ Add(<< <<"dynamic_intv", <<100, 200, 500, 1000>> >> >>,
         << <<InPep, Tcp("bbr"), Tcp("pcc")>> >>)

pure ==
  Static(Unbound, [bw |-> 40, rtt |-> 100],
         [pep1_h2 |-> [bw |-> 40, itmDown |-> 0, itmTotal |-> 20]],
         <<>>)
  @@ Figure("nokeyx", <<>>)
  @@ Add(<<>>, <<>>)

bp_itm_test_1 ==
  Static(Unbound, [rtt |-> 6, bw |-> 20, loss |-> 0],
         [h1_pep1 |-> [bw |-> 40, itmTotal |-> 40]],
         [sendTime |-> 120])
  @@ Figure("h1_pep1.itmDown", <<"protocol">>)
  @@ Add(<< <<"h1_pep1.itmDown", <<3, 0>> >> >>, << <<InPep>> >>)

bp_varbw_test_1 ==
  Static(Unbound, [bw |-> 20, loss |-> 0],
         [h1_pep1 |-> [rtt |-> 6, varBw |-> 1600], pep1_h2 |-> [rtt |-> 6]],
         [sendTime |-> 30])
  @@ Figure("h1_pep1.varIntv", <<"protocol">>)
  @@ Add(<< <<"h1_pep1.varIntv", <<8>> >> >>, << <<InPep>> >>)

bp_varbw_test_2 ==
  Static(Unbound, [bw |-> 20, loss |-> 0],
         [h1_pep1 |-> [rtt |-> 50, varIntv |-> 8], pep1_h2 |-> [rtt |-> 100]],
         [sendTime |-> 30])
  @@ Figure("h1_pep1.varBw", <<"protocol">>)
  @@ Add(<< <<"h1_pep1.varBw", <<0, 400, 800, 1200, 1600>> >> >>,
         << <<InPep, Tcp("cubic")>> >>)

expr ==
  Static(Unbound, [rtt |-> 5, bw |-> 50, loss |-> 10],
         [h1_pep1 |-> [rtt |-> 100, loss |-> 0], pep1_pep2 |-> [bw |-> 20]],
         [sendTime |-> 30])
  @@ Figure("defaultLP.loss", <<"protocol">>)
  @@ Add(<< <<"defaultLP.loss", <<0, 10, 1>> >> >>, << <<InPep>> >>)

expr0 ==
  Static(Unbound, [loss |-> 0],
         [h1_pep1 |-> [bw |-> 20, rtt |-> 6, varBw |-> 500],
          pep1_h2 |-> [bw |-> 20, rtt |-> 6]],
         [sendTime |-> 60])
  @@ Figure("h1_pep1.varIntv", <<"protocol">>)
  @@ Add(<< <<"h1_pep1.varIntv", <<10>> >> >>, << <<InPep>> >>)

expr3 ==
  Static(Unbound, [varIntv |-> 20, loss |-> 10],
         [h1_pep1 |-> [bw |-> 40], pep3_h2 |-> [bw |-> 40],
          pep2_pep3 |-> [bw |-> 40, varBw |-> 1500]],
         [sendTime |-> 360])
  @@ Figure("pep2_pep3.varIntv", <<"midCC">>)
  @@ Add(<< <<"pep2_pep3.varIntv", <<2, 4, 6, 8>> >> >>,
         << << <<"in_nopep", [midCC |-> "nopep"]>>, <<"in_pep", [midCC |-> "pep"]>> >> >>)

retran_test ==
  Static(gen_linear_topo(2, FALSE), [rtt |-> 20, bw |-> 40, loss |-> 100],
         <<>>,
         [sendTime |-> 300, test_type |-> "owdTest"])
  @@ Figure("h1_pep1.itmDown", PME \o <<"defaultLP.loss">>)
  @@ Add(<< <<"defaultLP.loss", <<20, 100, 200>> >> >>, << <<InPep, Tcp("bbr")>> >>)

retran_test_2 ==
  Static(gen_linear_topo(2, FALSE), [rtt |-> 20, bw |-> 40, loss |-> 100],
         [h1_gs1 |-> [loss |-> 0], gs2_h2 |-> [loss |-> 0]],
         [sendTime |-> 300, test_type |-> "owdTest"])
  @@ Figure("h1_pep1.itmDown", <<"protocol", "midCC", "defaultLP.loss">>)
  @@ Add(<< <<"defaultLP.loss", <<10, 20, 50, 100>> >> >>,
         << <<InPep, Tcp("cubic"), Split("cubic_pep", "cubic")>> >>)

big_rtt_retran_test ==
  Static(gen_linear_topo(0, FALSE), [rtt |-> 50, bw |-> 40, loss |-> 100],
         <<>>,
         [sendTime |-> 300, test_type |-> "owdTest"])
  @@ Figure("h1_pep1.itmDown", <<"protocol", "midCC", "defaultLP.loss">>)
  @@ Add(<< <<"defaultLP.loss", <<10, 20, 50, 100>> >> >>, << <<InPep, Tcp("cubic")>> >>)

big_rtt_retran_test_2 ==
  Static(gen_linear_topo(0, FALSE), [rtt |-> 50, bw |-> 40, loss |-> 100],
         <<>>,
         [sendTime |-> 300, test_type |-> "owdTest"])
  @@ Figure("h1_pep1.itmDown", <<"protocol", "midCC", "defaultLP.loss">>)
  @@ Add(<< <<"defaultLP.loss", <<0, 100, 50, 10, 20>> >> >>,
         << <<InPep, Tcp("cubic"), Split("cubic_pep", "cubic")>> >>)

final_varbw_test_1 ==
  Static(gen_linear_topo(2, FALSE), [bw |-> 20, loss |-> 0, rtt |-> 20],
         [gs1_m1 |-> [rtt |-> 10, varIntv |-> 8], m2_gs2 |-> [rtt |-> 10]],
         [sendTime |-> 120])
  @@ Figure("gs1_m1.varBw", PME)
  @@ Add(<< <<"gs1_m1.varBw", <<0, 400, 800, 1200, 1600>> >> >>,
         << <<InPep, Tcp("bbr"), Tcp("pcc")>> >>)

owd_thrp_balance_varbw_test ==
  Static(gen_linear_topo(2, FALSE), [bw |-> 20, loss |-> 0, rtt |-> 20],
         [gs1_m1 |-> [rtt |-> 10, varIntv |-> 8, varBw |-> 1200],
          m2_gs2 |-> [rtt |-> 10]],
         [sendTime |-> 120, test_type |-> "owdThroughputBalance"])
  @@ Figure("gs1_m1.varBw", PME)
  @@ Add(<< <<"sendq_length", <<0, 20, 200, 500, 1000, 2000, 4000, 6000, 8000>> >> >>,
         << <<InPep, Tcp("bbr"), Tcp("pcc")>> >>)

owd_thrp_balance_itm_test ==
  Static(gen_linear_topo(2, FALSE), [bw |-> 20, loss |-> 0, rtt |-> 20],
         [gs1_m1 |-> [rtt |-> 10, bw |-> 40, itmTotal |-> 20, itmDown |-> 2],
          m2_gs2 |-> [rtt |-> 10]],
         [sendTime |-> 120, test_type |-> "owdThroughputBalance"])
  @@ Figure("gs1_m1.varBw", PME)
  @@ Add(<< <<"sendq_length", <<0, 20, 400, 600, 750, 1000, 2000, 4000, 10000>> >> >>,
         << <<InPep, Tcp("bbr"), Tcp("pcc")>> >>)

final_itm_test_1 ==
  Static(gen_linear_topo(2, FALSE), [bw |-> 20, loss |-> 0, rtt |-> 20],
         [gs1_m1 |-> [rtt |-> 10, bw |-> 40, itmTotal |-> 20], m2_gs2 |-> [rtt |-> 10]],
         [sendTime |-> 120])
  @@ Figure("gs1_m1.itmDown", PME)
  @@ Add(<< <<"gs1_m1.itmDown", <<0, 1, 2, 3, 4>> >> >>,
         << <<InPep, Tcp("bbr"), Tcp("pcc")>> >>)

loss_test_1 ==
  Static(gen_linear_topo(5, FALSE), [bw |-> 20, loss |-> 0, rtt |-> 20],
         [gs1_m1 |-> [rtt |-> 10], m2_gs2 |-> [rtt |-> 10], h1_gs1 |-> [loss |-> 0],
          gs2_h2 |-> [loss |-> 0]],
         [sendTime |-> 120])
  @@ Figure("defaultLP.loss", PME)
  @@ Add(<< <<"defaultLP.loss", <<0, 1, 10, 20, 40, 60, 80, 100>> >> >>,
         << <<InPep, Tcp("bbr"), Tcp("pcc"), Tcp("hybla"), Tcp("cubic"),
              Tcp("westwood")>> >>)

flow_test ==
  Static(gen_linear_topo(2, TRUE), [rtt |-> 20, bw |-> 20],
         [gs2_dummy |-> [rtt |-> 10], dummy_h2 |-> [loss |-> 0, rtt |-> 10]],
         [sendTime |-> 60, test_type |-> "trafficTest", data_size |-> 20])
  @@ Figure("defaultLP.loss", PME)
  @@ Add(<< <<"defaultLP.loss", <<0, 100, 200>> >> >>, << <<Tcp("cubic")>> >>)

flow_test_2 ==
  Static(gen_linear_topo(2, TRUE), [rtt |-> 20, bw |-> 20],
         [gs2_dummy |-> [rtt |-> 10], dummy_h2 |-> [loss |-> 0, rtt |-> 10]],
         [sendTime |-> 120, test_type |-> "trafficTest", data_size |-> 100])
  @@ Figure("defaultLP.loss", PME)
  @@ Add(<< <<"defaultLP.loss", <<0, 40, 80, 120, 160, 200>> >> >>,
         << <<InPep,
              <<"cubic", [midCC |-> "nopep", e2eCC |-> "bbr", protocol |-> "TCP"]>> >> >>)

throughput_with_traffic ==
  Static(gen_linear_topo(2, TRUE), [rtt |-> 20, bw |-> 20],
         [gs2_dummy |-> [rtt |-> 10], dummy_h2 |-> [loss |-> 0, rtt |-> 10]],
         [sendTime |-> 60, test_type |-> "throughputWithTraffic"])
  @@ Figure("defaultLP.loss", PME)
  @@ Add(<< <<"defaultLP.loss", <<0, 50, 100, 150, 200>> >> >>,
         << <<InPep, Tcp("bbr")>> >>)

motivation_hop_test ==
  Static(EmptyTopo, [bw |-> 20, loss |-> 100, rtt |-> 10],
         [h1_gs1 |-> [loss |-> 0], gs2_h2 |-> [loss |-> 0]],
         [sendTime |-> 120])
  @@ Figure("numMidNode", PME)
  @@ Add(<< <<"numMidNode", <<1, 3, 5, 7, 9, 11, 13, 15>> >> >>,
         << <<Tcp("bbr"), Tcp("pcc"), Tcp("hybla"), Tcp("cubic")>> >>)

motivation_hop_test_2 ==
  Static(EmptyTopo, [bw |-> 20, loss |-> 50, rtt |-> 10],
         [h1_gs1 |-> [loss |-> 0, rtt |-> 1], gs2_h2 |-> [loss |-> 0, rtt |-> 1]],
         [sendTime |-> 120])
  @@ Figure("numMidNode", PME)
  @@ Add(<< <<"numMidNode", <<0, 1, 2, 3, 4, 5, 6, 7, 8, 9>> >> >>,
         << <<Tcp("bbr"), Tcp("pcc"), Tcp("hybla"), Tcp("cubic")>> >>)

motivation_split_test ==
  Static(gen_linear_topo(7, FALSE), [rtt |-> 10, bw |-> 20, loss |-> 100],
         <<>>,
         [sendTime |-> 60, test_type |-> "owdThroughputBalance",
          analyse_callback |-> "scatter", sendq_length |-> 0])
  @@ Figure("h1_pep1.itmDown", <<"e2eCC", "midCC">>)
  @@ Add(<<>>,
         << <<Tcp("bbr"), Tcp("pcc"), Tcp("hybla"), Tcp("cubic"),
              Split("bbr_split", "bbr"), Split("pcc_split", "pcc"),
              Split("hybla_split", "hybla"), Split("cubic_split", "cubic")>> >>)

motivation_split_test_2 ==
  Static(gen_linear_topo(7, FALSE), [rtt |-> 10, bw |-> 20, loss |-> 50],
         <<>>,
         [sendTime |-> 60, test_type |-> "owdThroughputBalance",
          analyse_callback |-> "scatter", sendq_length |-> 0])
  @@ Figure("h1_pep1.itmDown", <<"e2eCC", "midCC">>)
  @@ Add(<<>>,
         << <<Tcp("bbr"), Tcp("pcc"), Tcp("hybla"), Tcp("cubic"),
              Split("bbr_split", "bbr"), Split("pcc_split", "pcc"),
              Split("hybla_split", "hybla"), Split("cubic_split", "cubic")>> >>)

delay_feedback_test ==
  Static(gen_linear_topo(7, FALSE), [bw |-> 20, loss |-> 0, rtt |-> 20],
         [m7_gs2 |-> [rtt |-> 20, bw |-> 10, varIntv |-> 1]],
         [sendTime |-> 120, test_type |-> "throughputWithOwd",
          analyse_callback |-> "lineChart_with_loss", txqueuelen |-> 100,
          max_queue_size |-> 100])
  @@ Figure("m7_gs2.varBw", PME)
  @@ Add(<< <<"m7_gs2.varBw", <<0, 20, 40, 60, 80, 100>> >> >>,
         << <<Tcp("cubic"), Tcp("bbr"), Tcp("pcc"), Tcp("hybla")>> >>)

delay_feedback_test_2 ==
  Static(gen_linear_topo(7, FALSE), [bw |-> 20, loss |-> 0, rtt |-> 20],
         [m7_gs2 |-> [rtt |-> 20, bw |-> 10, varIntv |-> 1]],
         [sendTime |-> 120, test_type |-> "throughputWithOwd",
          analyse_callback |-> "lineChart_with_loss", txqueuelen |-> 100,
          max_queue_size |-> 150])
  @@ Figure("m7_gs2.varBw", PME)
  @@ Add(<< <<"m7_gs2.varBw", <<0, 20, 40, 60, 80, 100>> >> >>,
         << <<Tcp("cubic"), Tcp("bbr"), Tcp("pcc"), Tcp("hybla")>> >>)

delay_feedback_distance ==
  Static(gen_linear_topo(0, FALSE), [bw |-> 20, loss |-> 0, rtt |-> 10],
         [gs1_gs2 |-> [rtt |-> 10, bw |-> 10, varIntv |-> 1]],
         [sendTime |-> 120, test_type |-> "throughputWithOwd",
          analyse_callback |-> "lineChart_with_loss", txqueuelen |-> 100,
          max_queue_size |-> 150])
  @@ Figure("h1_gs1.rtt", PME)
  @@ Add(<< <<"gs1_gs2.varBw", <<100>> >>,
            <<"h1_gs1.rtt", <<20, 40, 60, 80, 100, 120, 140, 160, 180>> >> >>,
         << <<Tcp("bbr"), Tcp("hybla"), Tcp("cubic")>> >>)

delay_feedback_distance_backup ==
  Static(gen_linear_topo(0, FALSE), [bw |-> 20, loss |-> 0, rtt |-> 10],
         [gs1_gs2 |-> [rtt |-> 10, bw |-> 10, varIntv |-> 1]],
         [sendTime |-> 120, test_type |-> "throughputWithOwd",
          analyse_callback |-> "lineChart_with_loss", txqueuelen |-> 100,
          max_queue_size |-> 150])
  @@ Figure("h1_gs1.rtt", PME)
  @@ Add(<< <<"gs1_gs2.varBw", <<100>> >>, <<"h1_gs1.rtt", <<20, 40, 60>> >> >>,
         << <<Tcp("pcc")>> >>)

owdThrpBalanceNew ==
  Static(gen_linear_topo(7, FALSE), [rtt |-> 20, bw |-> 20, loss |-> 0],
         [m7_gs2 |-> [rtt |-> 20, bw |-> 10, varIntv |-> 1]],
         [sendTime |-> 120, test_type |-> "owdThroughputBalance",
          analyse_callback |-> "scatter", sendq_length |-> 0, txqueuelen |-> 100,
          max_queue_size |-> 150])
  @@ Figure("m7_gs2.varBw", <<"protocol", "e2eCC", "midCC">>)
  @@ Add(<< <<"m7_gs2.varBw", <<100>> >> >>,
         << <<Pep("in_pep", [sendq_length |-> 5]),
              Pep("in_pep_sendq_7", [sendq_length |-> 7]),
              Pep("in_pep_sendq_9", [sendq_length |-> 9]),
              Pep("in_pep_sendq_12", [sendq_length |-> 12]),
              Pep("in_pep_sendq_15", [sendq_length |-> 12]),
              <<"in_nopep", [midCC |-> "nopep", protocol |-> "INTCP",
                             sendq_length |-> 5]>>,
              Tcp("bbr"), Tcp("pcc"), Tcp("hybla"), Tcp("cubic")>> >>)

cpuTest ==
  Static(gen_linear_topo(1, FALSE), [bw |-> 100, loss |-> 200, rtt |-> 20],
         <<>>,
         [sendTime |-> 180, test_type |-> "cpuTest"])
  @@ Figure("defaultLP.bw", <<"defaultLP.loss">>)
  @@ Add(<< <<"defaultLP.loss", <<0>> >>, <<"defaultLP.bw", <<35>> >> >>,
         << <<InPep>> >>)

delay_ack_test ==
  Dynamic([MadeBy("gen_delay_ack_trace") EXCEPT !.args = <<20, 20>>],
          [dynamic |-> 1, sendTime |-> 30, test_type |-> "throughputWithOwd"])
  @@ Figure("dynamic_intv", PME)
  @@ Add(<< <<"dynamic_intv", <<10>> >> >>, << <<Tcp("cubic")>> >>)

----------------------------------------------------------------------------
(* getTestParamSet finds a set by its name. *)

Sets ==
  [static_test |-> static_test, large_hop_num |-> large_hop_num,
   dynamic_test |-> dynamic_test, dynamic_complex_test |-> dynamic_complex_test,
   dynamic_sim_test_1 |-> dynamic_sim_test_1,
   dynamic_sim_test_2 |-> dynamic_sim_test_2,
   beijing_newyork_cdf |-> beijing_newyork_cdf,
   beijing_newyork_cdf_backup |-> beijing_newyork_cdf_backup,
   distance_test_with_isl |-> distance_test_with_isl,
   distance_test_with_isl_backup |-> distance_test_with_isl_backup,
   distance_test_with_isl_bw_flunct |-> distance_test_with_isl_bw_flunct,
   coverage_test |-> coverage_test, ablation_test |-> ablation_test,
   relay_only_test |-> relay_only_test, relay_only_cdf_1 |-> relay_only_cdf_1,
   beijing_shanghai_cdf |-> beijing_shanghai_cdf,
   beijing_shanghai_cdf_backup |-> beijing_shanghai_cdf_backup,
   beijing_shanghai_cdf_2 |-> beijing_shanghai_cdf_2,
   dynamic_exp_2 |-> dynamic_exp_2, dynamic_exp_4 |-> dynamic_exp_4,
   rtt_fluct_test |-> rtt_fluct_test, dynamic_exp_3 |-> dynamic_exp_3,
   pure |-> pure, bp_itm_test_1 |-> bp_itm_test_1,
   bp_varbw_test_1 |-> bp_varbw_test_1, bp_varbw_test_2 |-> bp_varbw_test_2,
   expr |-> expr, expr0 |-> expr0, expr3 |-> expr3, retran_test |-> retran_test,
   retran_test_2 |-> retran_test_2, big_rtt_retran_test |-> big_rtt_retran_test,
   big_rtt_retran_test_2 |-> big_rtt_retran_test_2,
   final_varbw_test_1 |-> final_varbw_test_1,
   owd_thrp_balance_varbw_test |-> owd_thrp_balance_varbw_test,
   owd_thrp_balance_itm_test |-> owd_thrp_balance_itm_test,
   final_itm_test_1 |-> final_itm_test_1, loss_test_1 |-> loss_test_1,
   flow_test |-> flow_test, flow_test_2 |-> flow_test_2,
   throughput_with_traffic |-> throughput_with_traffic,
   motivation_hop_test |-> motivation_hop_test,
   motivation_hop_test_2 |-> motivation_hop_test_2,
   motivation_split_test |-> motivation_split_test,
   motivation_split_test_2 |-> motivation_split_test_2,
   delay_feedback_test |-> delay_feedback_test,
   delay_feedback_test_2 |-> delay_feedback_test_2,
   delay_feedback_distance |-> delay_feedback_distance,
   delay_feedback_distance_backup |-> delay_feedback_distance_backup,
   owdThrpBalanceNew |-> owdThrpBalanceNew, cpuTest |-> cpuTest,
   delay_ack_test |-> delay_ack_test]

=============================================================================
