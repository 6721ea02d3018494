----------------------------- MODULE ParamSets -----------------------------
(***************************************************************************)
(* Test parameters (Param.py, MyAppParam and the defaults of MyParam.py):  *)
(* a tree of named values whose leaves are addressed by keys, and the      *)
(* product of choices TestParamSet.add makes of a template.  Losses,       *)
(* ratios, variations of bandwidth and dynamic_intv are in hundredths.     *)
(***************************************************************************)
EXTENDS Trace

----------------------------------------------------------------------------
(* Topologies *)

LinkName(a, b) == a \o "_" \o b
Topo(name, mids, nodes) ==
  [kind |-> "topo", name |-> name, numMidNode |-> mids, nodes |-> nodes,
   links |-> [i \in 1..(Len(nodes) - 1) |-> LinkName(nodes[i], nodes[i + 1])]]

\* Faulty: satellites counted from 0.
linear_topo_from_0(n, has_dummy_node) ==
  Topo(<<n, "mid">>, n,
       <<"h1", "gs1">> \o [i \in 1..n |-> "m" \o ToString(i - 1)] \o <<"gs2">>
         \o (IF has_dummy_node THEN <<"dummy", "h2">> ELSE <<"h2">>))

gen_linear_topo(n, has_dummy_node) ==
  Topo(<<n, "mid">>, n,
       <<"h1", "gs1">> \o [i \in 1..n |-> "m" \o ToString(i)] \o <<"gs2">>
         \o (IF has_dummy_node THEN <<"dummy", "h2">> ELSE <<"h2">>))

EmptyTopo == [kind |-> "empty", name |-> <<>>, numMidNode |-> 0, nodes |-> <<>>, links |-> <<>>]
NoTopoParam == [kind |-> "None"]
Unbound == [kind |-> "unbound"]      \* a name nothing is bound to: reading it raises

----------------------------------------------------------------------------
(* Defaults *)

DefaultLP0 ==
  [loss |-> 0, rtt |-> 100, bw |-> 20, itmTotal |-> 20, itmDown |-> 0,
   varBw |-> 0, varIntv |-> 5, varMethod |-> "square"]

DefaultAP0 ==
  [max_queue_size |-> 1000, txqueuelen |-> 1000, sendTime |-> 180, sendRound |-> 1,
   e2eCC |-> "cubic", midCC |-> "nopep", protocol |-> "INTCP",
   dynamic |-> 0, dynamic_intv |-> 100, data_size |-> 0,
   dynamic_complete |-> TRUE, dynamic_gsl_loss |-> 100, dynamic_isl_loss |-> 10,
   dynamic_ground_link_loss |-> 0, dynamic_ground_link_rtt |-> 50,
   dynamic_uplink_bw |-> 5, dynamic_downlink_bw |-> 20, dynamic_ground_link_bw |-> 20,
   dynamic_isl_bw |-> 20, dynamic_bw_fluct |-> FALSE,
   analyse_callback |-> "lineChart", test_type |-> "throughputTest",
   sendq_length |-> 10000, src |-> -1, dst |-> -1, route_algorithm |-> "with_isl",
   flowNum |-> 3, flowIntv |-> 20, singlePath |-> TRUE, coverage |-> 100]

----------------------------------------------------------------------------
(* Keys.  A dotted key names a link and a value of it (rsplit at the dot). *)

Dotted ==
  [k \in {"defaultLP.bw"} |-> <<"defaultLP", "bw">>]
  @@ ("defaultLP.loss" :> <<"defaultLP", "loss">>)
  @@ ("gs1_gs2.varBw" :> <<"gs1_gs2", "varBw">>)
  @@ ("gs1_m1.itmDown" :> <<"gs1_m1", "itmDown">>)
  @@ ("gs1_m1.varBw" :> <<"gs1_m1", "varBw">>)
  @@ ("h1_gs1.rtt" :> <<"h1_gs1", "rtt">>)
  @@ ("h1_pep1.itmDown" :> <<"h1_pep1", "itmDown">>)
  @@ ("h1_pep1.varBw" :> <<"h1_pep1", "varBw">>)
  @@ ("h1_pep1.varIntv" :> <<"h1_pep1", "varIntv">>)
  @@ ("m7_gs2.varBw" :> <<"m7_gs2", "varBw">>)
  @@ ("pep2_pep3.varIntv" :> <<"pep2_pep3", "varIntv">>)

\* LinksParam.get makes up an empty PartialLinkParam for a link it has not.
Partial(links, link) == IF link \in DOMAIN links THEN links[link] ELSE <<>>

\* getLP: the default with what the link says itself
getLP(tp, link) == Partial(tp.links, link) @@ tp.links.defaultLP

\* completeKey: appParam, then topoParam, then linksParam
InApp(tp, key) == key \in DOMAIN tp.app
InTopo(tp, key) == ~InApp(tp, key) /\ key \in DOMAIN tp.topo

Set(tp, key, value) ==
  CASE InApp(tp, key) -> [tp EXCEPT !.app = (key :> value) @@ @]
    [] InTopo(tp, key) -> [tp EXCEPT !.topo = (key :> value) @@ @]
    [] key \in DOMAIN Dotted ->
         LET link == Dotted[key][1]
             own == (Dotted[key][2] :> value) @@ Partial(tp.links, link)
         IN  [tp EXCEPT !.links = (link :> own) @@ @]

\* Whether get finds the key; it raises a KeyError otherwise.
Has(tp, key) ==
  \/ InApp(tp, key) \/ InTopo(tp, key)
  \/ key \in DOMAIN Dotted /\ Dotted[key][2] \in DOMAIN Partial(tp.links, Dotted[key][1])

Get(tp, key) ==
  CASE InApp(tp, key) -> tp.app[key]
    [] InTopo(tp, key) -> tp.topo[key]
    [] key \in DOMAIN Dotted -> tp.links[Dotted[key][1]][Dotted[key][2]]

\* Faulty: returns after the first key.
compareFirstKey(tp1, tp2, keys) == Get(tp1, keys[1]) = Get(tp2, keys[1])

compareKeys(tp1, tp2, keys) ==
  \A i \in DOMAIN keys : Get(tp1, keys[i]) = Get(tp2, keys[i])

----------------------------------------------------------------------------
(* TestParamSet.add.  segs is a sequence of keys with their values, groups *)
(* a sequence of dictionaries: sequences of names with assignments.        *)

MaxTests == 50        \* bounds the loop; no set has more

Dims(segs, groups) ==
  [i \in DOMAIN segs |-> Len(segs[i][2])] \o [i \in DOMAIN groups |-> Len(groups[i])]

\* Faulty: a position that wraps does not carry.
NextPosNoCarry(pos, dims) ==
  LET p == CHOOSE i \in DOMAIN pos :
             pos[i] < dims[i] /\ \A j \in (i + 1)..Len(pos) : pos[j] = dims[j]
  IN  [i \in DOMAIN pos |-> IF i = p THEN pos[i] + 1 ELSE pos[i]]

\* The rightmost position is counted up; one that is exhausted starts again and
\* carries to its left.
NextPos(pos, dims) ==
  LET p == CHOOSE i \in DOMAIN pos :
             pos[i] < dims[i] /\ \A j \in (i + 1)..Len(pos) : pos[j] = dims[j]
  IN  [i \in DOMAIN pos |-> CASE i < p -> pos[i] [] i = p -> pos[i] + 1 [] i > p -> 1]

\* The positions of the while loop, until the leftmost is exhausted
Positions(dims) ==
  FoldLeft(LAMBDA all, k : IF Last(all) = dims THEN all
                           ELSE Append(all, NextPos(Last(all), dims)),
           <<[i \in DOMAIN dims |-> 1]>>, [k \in 1..MaxTests |-> k])

Choice(segs, groups, pos, i) ==
  IF i <= Len(segs) THEN segs[i][1] :> segs[i][2][pos[i]]
  ELSE groups[i - Len(segs)][pos[i]][2]

\* perm: what is further to the right covers what is to the left.
Perm(segs, groups, pos) ==
  FoldLeft(LAMBDA perm, i : Choice(segs, groups, pos, i) @@ perm, <<>>,
           [i \in DOMAIN pos |-> i])

Name(segs, groups, pos) ==
  [i \in DOMAIN segs |-> <<segs[i][1], segs[i][2][pos[i]]>>]
    \o [i \in DOMAIN groups |-> groups[i][pos[Len(segs) + i]][1]]

\* The template with a choice in every place
TestParam(template, segs, groups, pos) ==
  LET perm == Perm(segs, groups, pos)
  IN  FoldLeft(LAMBDA tp, key : Set(tp, key, perm[key]),
               [template EXCEPT !.name = Name(segs, groups, pos)],
               SetToSeq(DOMAIN perm))

add(template, segs, groups) ==
  LET all == Positions(Dims(segs, groups))
  IN  [k \in DOMAIN all |-> TestParam(template, segs, groups, all[k])]

=============================================================================
