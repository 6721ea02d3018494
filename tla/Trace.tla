------------------------------- MODULE Trace -------------------------------
(***************************************************************************)
(* Dynamic networks (get_trace.py and gen_*_trace of RealNetwork.py): one  *)
(* links_param a second, with the satellites on the path between two       *)
(* cities and the rtt, loss and bandwidth of each of its links.  Rates and *)
(* losses are in hundredths.  The constellation is the data files of       *)
(* hypatia_trace; two cities are assumed to be connected all the time.     *)
(***************************************************************************)
EXTENDS Integers, Sequences, SequencesExt, FiniteSets, TLC

CONSTANTS
  SatelliteNum,     \* nodes from this number on are ground stations
  Fstates,          \* per route algorithm, what the fstate file of each second
                    \* says: [<<node, destination>> -> next hop], changes only
  HopRtt(_, _)      \* the rtt between two nodes

LinksParam(topo, rtt, loss, bw) == [topo |-> topo, rtt |-> rtt, loss |-> loss, bw |-> bw]
NewTrace(mids, total, isls, params) ==
  [kind |-> "trace", max_midnodes |-> mids, total_midnodes |-> total,
   isls |-> isls, links_params |-> params]

Repeat(n, x) == [i \in 1..n |-> x]

----------------------------------------------------------------------------
(* get_trace *)

\* A file lists what changed since the second before.
FstateAt(algorithm, t) ==
  FoldLeft(LAMBDA fstate, changes : changes @@ fstate, <<>>,
           SubSeq(Fstates[algorithm], 1, t))

get_path(src, dst, fstate) ==
  LET node[n \in Nat] == IF n = 0 THEN src ELSE fstate[<<node[n - 1], dst>>]
      hops == CHOOSE n \in 1..Cardinality(DOMAIN fstate) :
                node[n] = dst /\ \A k \in 0..(n - 1) : node[k] # dst
  IN  [i \in 1..(hops + 1) |-> node[i - 1]]

\* The nodes between the cities, numbered from 1 as they are first met
Numbered(ids, path) ==
  FoldLeft(LAMBDA f, node : IF node \in DOMAIN f THEN f
                            ELSE (node :> Cardinality(DOMAIN f) + 1) @@ f,
           ids, SubSeq(path, 2, Len(path) - 1))

AddNew(isls, isl) == IF Contains(isls, isl) THEN isls ELSE Append(isls, isl)

\* Faulty: a link is listed again when it is used the other way round.
AddIslsOneWay(isls, topo) ==
  FoldLeft(LAMBDA ls, i : AddNew(ls, <<topo[i], topo[i + 1]>>),
           AddNew(AddNew(isls, <<0, Head(topo)>>), <<Last(topo), -1>>),
           [i \in 1..(Len(topo) - 1) |-> i])

\* 0 is gs1 and -1 is gs2; a link between nodes is listed in one direction.
AddIsls(isls, topo) ==
  FoldLeft(LAMBDA ls, i : IF Contains(ls, <<topo[i + 1], topo[i]>>) THEN ls
                          ELSE AddNew(ls, <<topo[i], topo[i + 1]>>),
           AddNew(AddNew(isls, <<0, Head(topo)>>), <<Last(topo), -1>>),
           [i \in 1..(Len(topo) - 1) |-> i])

\* What get_trace has gathered after one more second
Gather(acc, path) ==
  LET ids == Numbered(acc.ids, path)
      topo == [i \in 1..(Len(path) - 2) |-> ids[path[i + 1]]]
      rtts == [i \in 1..(Len(path) - 1) |-> HopRtt(path[i], path[i + 1])]
  IN  [ids |-> ids,
       isls |-> AddIsls(acc.isls, topo),
       longest |-> IF Len(path) > acc.longest THEN Len(path) ELSE acc.longest,
       params |-> Append(acc.params, LinksParam(topo, <<50>> \o rtts \o <<50>>, <<>>, <<>>))]

get_trace(city1, city2, algorithm) ==
  LET src == city1 + SatelliteNum
      dst == city2 + SatelliteNum
      acc == FoldLeft(Gather, [ids |-> <<>>, isls |-> <<>>, longest |-> 0, params |-> <<>>],
                      [t \in 1..Len(Fstates[algorithm]) |->
                         get_path(src, dst, FstateAt(algorithm, t))])
  IN  NewTrace(acc.longest - 2, Cardinality(DOMAIN acc.ids), acc.isls, acc.params)

----------------------------------------------------------------------------
(* Bandwidth that rises and falls while a satellite passes *)

\* In second t (counted from 0) of a link up from start to just before end
get_bw(bw_max, start, end, t) ==
  LET d == (end - start) * (end - start)
      n == 200 * bw_max * (end - t) * (t - start)
      mean == (2 * n + d) \div (2 * d) + 50 * bw_max
  IN  IF mean <= 500 THEN mean ELSE IF t % 2 = 0 THEN mean + 50 ELSE mean - 50

\* The seconds at which the satellite at one end of the path changes, and the end
ChangeTs(satellites) ==
  SelectSeq([i \in 1..Len(satellites) |-> i - 1],
            LAMBDA t : t = 0 \/ satellites[t + 1] # satellites[t])
    \o <<Len(satellites)>>

BwAt(changes, bw_max, t) ==
  LET i == CHOOSE k \in 1..(Len(changes) - 1) : changes[k] <= t /\ t < changes[k + 1]
  IN  get_bw(bw_max, changes[i], changes[i + 1], t)

add_bw_fluct(params, downlink_ts, downlink_bw, uplink_ts, uplink_bw) ==
  [i \in DOMAIN params |->
     [params[i] EXCEPT !.bw[2] = BwAt(downlink_ts, downlink_bw, i - 1),
                       !.bw[Len(params[i].bw) - 1] = BwAt(uplink_ts, uplink_bw, i - 1)]]

\* The rtt of the two ground links is replaced.
GroundRtt(rtt, ground) == <<ground>> \o SubSeq(rtt, 2, Len(rtt) - 1) \o <<ground>>

IslDefaults ==
  [uplink_bw |-> 5, downlink_bw |-> 20, isl_bw |-> 20, ground_link_bw |-> 20,
   uplink_loss |-> 10, downlink_loss |-> 10, isl_loss |-> 10, ground_link_loss |-> 0,
   ground_link_rtt |-> 50, bw_fluctuation |-> FALSE]

\* Faulty: losses and rates as for one satellite less.
ListsShort(l, a, x) ==
  [l EXCEPT !.loss = <<a.ground_link_loss, a.downlink_loss>> \o Repeat(x - 2, a.isl_loss)
                       \o <<a.uplink_loss, a.ground_link_loss>>,
            !.bw = <<100 * a.ground_link_bw, 100 * a.downlink_bw>>
                     \o Repeat(x - 2, 100 * a.isl_bw)
                     \o <<100 * a.uplink_bw, 100 * a.ground_link_bw>>,
            !.rtt = GroundRtt(l.rtt, a.ground_link_rtt)]

\* The lists of a links_param with x satellites
Lists(l, a, x) ==
  [l EXCEPT !.loss = <<a.ground_link_loss, a.downlink_loss>> \o Repeat(x - 1, a.isl_loss)
                       \o <<a.uplink_loss, a.ground_link_loss>>,
            !.bw = <<100 * a.ground_link_bw, 100 * a.downlink_bw>>
                     \o Repeat(x - 1, 100 * a.isl_bw)
                     \o <<100 * a.uplink_bw, 100 * a.ground_link_bw>>,
            !.rtt = GroundRtt(l.rtt, a.ground_link_rtt)]

get_complete_trace(origin, a) ==
  LET params == [i \in DOMAIN origin.links_params |->
                   LET l == origin.links_params[i] IN Lists(l, a, Len(l.topo))]
  IN  [origin EXCEPT !.links_params =
         IF a.bw_fluctuation
         THEN add_bw_fluct(params,
                ChangeTs([i \in DOMAIN params |-> Head(params[i].topo)]), a.downlink_bw,
                ChangeTs([i \in DOMAIN params |-> Last(params[i].topo)]), a.uplink_bw)
         ELSE params]

----------------------------------------------------------------------------
(* Relays on the ground: the path goes up and down between satellites and  *)
(* ground stations, and every second link leads down to a ground station.  *)

RelayDefaults ==
  [uplink_bw |-> 5, downlink_bw |-> 20, ground_link_bw |-> 20, uplink_loss |-> 10,
   downlink_loss |-> 10, ground_link_loss |-> 0, ground_link_rtt |-> 20,
   bw_fluctuation |-> FALSE]

\* The ground station and satellite of the downlinks, by the index of the link
DownlinkOf(topo, hop) == IF hop = 2 THEN <<0, topo[1]>> ELSE <<topo[hop - 2], topo[hop - 1]>>
DownHops(topo) == {2} \cup {i + 2 : i \in {j \in DOMAIN topo : j % 2 = 0}}
Downlinks(topo) == {DownlinkOf(topo, hop) : hop \in DownHops(topo)}

\* fill start_ts, fill end_ts
StartTs(params, pair) ==
  LET start[i \in 1..Len(params)] ==
        IF i = 1 \/ pair \notin Downlinks(params[i - 1].topo) THEN i - 1 ELSE start[i - 1]
  IN  start

EndTs(params, pair) ==
  LET end[i \in 1..Len(params)] ==
        IF i = Len(params) \/ pair \notin Downlinks(params[i + 1].topo) THEN i
        ELSE end[i + 1]
  IN  end

add_bw_fluct_relay_only(params, downlink_bw) ==
  [i \in DOMAIN params |->
     LET topo == params[i].topo
         bw(hop) == LET pair == DownlinkOf(topo, hop)
                    IN  get_bw(downlink_bw, StartTs(params, pair)[i],
                               EndTs(params, pair)[i], i - 1)
     IN  [params[i] EXCEPT !.bw =
            [hop \in DOMAIN @ |-> IF hop \in DownHops(topo) THEN bw(hop) ELSE @[hop]]]]

get_complete_relay_only_trace(origin, a) ==
  LET complete(l) ==
        LET sats == (Len(l.topo) + 1) \div 2
            spread(ground, down, up) ==
              <<ground>> \o FlattenSeq(Repeat(sats, <<down, up>>)) \o <<ground>>
        IN  [l EXCEPT !.loss = spread(a.ground_link_loss, a.downlink_loss, a.uplink_loss),
                      !.bw = spread(100 * a.ground_link_bw, 100 * a.downlink_bw,
                                    100 * a.uplink_bw),
                      !.rtt = GroundRtt(l.rtt, a.ground_link_rtt)]
      params == [i \in DOMAIN origin.links_params |-> complete(origin.links_params[i])]
  IN  [origin EXCEPT !.links_params =
         IF a.bw_fluctuation THEN add_bw_fluct_relay_only(params, a.downlink_bw) ELSE params]

----------------------------------------------------------------------------
(* Traces written by hand *)

Path(nodes) == <<<<0, Head(nodes)>>>>
               \o [i \in 1..(Len(nodes) - 1) |-> <<nodes[i], nodes[i + 1]>>]
               \o <<<<Last(nodes), -1>>>>

gen_extreme_trace ==
  LET upper == <<1, 2, 3, 4, 5, 6>>
      lower == <<7, 8, 9, 10, 11, 12>>
      loss == <<0>> \o Repeat(7, 100) \o <<0>>
  IN  NewTrace(6, 12, Path(upper) \o Path(lower),
        <<LinksParam(lower, <<20, 10, 20, 20, 20, 20, 20, 10, 20>>, loss, Repeat(9, 2000)),
          LinksParam(upper, <<20>> \o Repeat(7, 10) \o <<20>>, loss, Repeat(9, 2000))>>)

gen_link_change_trace ==
  LET second(topo, rtt) ==
        LinksParam(topo, <<20, 10, rtt, 10, 20>>, <<0, 10, 10, 10, 0>>, Repeat(5, 2000))
  IN  NewTrace(2, 4, Path(<<1, 2>>) \o Path(<<3, 4>>),
               <<second(<<1, 2>>, 20), second(<<3, 4>>, 60)>>)

\* The sine of its third rtt is left at the mean.
gen_delay_ack_trace(n, A) ==
  NewTrace(2, 2, Path(<<1, 2>>),
           Repeat(n, LinksParam(<<1, 2>>, <<10, 10, A + 1, 10, 10>>,
                                <<0, 10, 10, 10, 0>>, Repeat(5, 4000))))

=============================================================================
