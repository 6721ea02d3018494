------------------------------- MODULE Routes -------------------------------
(***************************************************************************)
(* Addresses and routes of the emulated networks (RealNetwork.py): which   *)
(* subnet a link has, and the route commands that lay or lift a path.      *)
(* A subnet 10.0.s.0 is the number s, an address 10.0.s.d is <<s, d>>.     *)
(***************************************************************************)
EXTENDS Integers, Sequences, SequencesExt, FiniteSets

Host(i) == <<"h", i>>
Ground(i) == <<"gs", i>>
Mid(i) == <<"m", i>>
H1 == Host(1)
H2 == Host(2)
GS1 == Ground(1)
GS2 == Ground(2)

GroundSeg == 100      \* the subnet of the last link, to h2
Default == 0          \* destination of a default route

FirstIndex(s, e) == SelectInSeq(s, LAMBDA x : x = e)

----------------------------------------------------------------------------
(* Links: an end with address 1, an end with address 2, a subnet. *)

Link(a, b, seg) == [a |-> a, b |-> b, seg |-> seg]

\* createNet: subnets in the order of the links, the last one apart
StaticLinks(links) ==
  [i \in 1..Len(links) |->
     Link(links[i][1], links[i][2], IF i = Len(links) THEN GroundSeg ELSE i)]

\* create_all_links: in isls 0 is gs1 and -1 is gs2
EndA(isl) == IF isl[1] = 0 THEN GS1 ELSE Mid(isl[1])
EndB(isl) == IF isl[2] = -1 THEN GS2 ELSE Mid(isl[2])

DynamicLinks(isls) ==
  [i \in 1..Len(isls) |-> Link(EndA(isls[i]), EndB(isls[i]), i + 1)]
    \o <<Link(H1, GS1, 1), Link(GS2, H2, GroundSeg)>>

----------------------------------------------------------------------------
(* Route commands.  segs[i] is the subnet of hop i and the address that    *)
(* the node before the hop has in it.                                      *)

Route(at, verb, dest, gw) == [at |-> at, verb |-> verb, dest |-> dest, gw |-> gw]

\* Default routes lead forward, and from the last node back; every node from
\* the third on also knows the way back to each subnet behind its neighbour.
PathCommands(verb, nodes, segs) ==
  LET n == Len(nodes)
      forward == [i \in 1..(n - 1) |->
                    Route(nodes[i], verb, Default, <<segs[i][1], 3 - segs[i][2]>>)]
      back(k) == [j \in 1..(k - 2) |->
                    Route(nodes[k], verb, segs[j][1], segs[k - 1])]
  IN  forward \o <<Route(nodes[n], verb, Default, segs[n - 1])>>
        \o FlattenSeq([k \in 1..(n - 1) |-> IF k < 3 THEN <<>> ELSE back(k)])

\* setStaticRoute
setStaticRoute(links, path) ==
  LET segs == [i \in 1..(Len(path) - 1) |->
                 << IF path[i + 1] = H2 THEN GroundSeg
                    ELSE FirstIndex(links, <<path[i], path[i + 1]>>), 1>>]
  IN  PathCommands("add", path, segs)

\* routeReset of MakeItm: the nodes as one chain
routeReset(nodes) ==
  LET n == Len(nodes)
      forward == [i \in 1..(n - 1) |->
                    Route(nodes[i], "add", Default,
                          <<IF i = n - 1 THEN GroundSeg ELSE i, 2>>)]
      back(k) == [j \in 1..(k - 2) |-> Route(nodes[k], "add", j, <<k - 1, 1>>)]
  IN  forward \o <<Route(nodes[n], "add", Default, <<GroundSeg, 1>>)>>
        \o FlattenSeq([k \in 1..(n - 1) |-> IF k < 3 THEN <<>> ELSE back(k)])

\* An inter-satellite link may be listed in the other direction.
SegOf(isls, a, b) ==
  IF Contains(isls, <<a, b>>)
  THEN <<FirstIndex(isls, <<a, b>>) + 1, 1>>
  ELSE <<FirstIndex(isls, <<b, a>>) + 1, 2>>

Chain(topo) == <<H1, GS1>> \o [i \in 1..Len(topo) |-> Mid(topo[i])] \o <<GS2, H2>>

ChainSegs(isls, topo) ==
  <<<<1, 1>>, <<FirstIndex(isls, <<0, topo[1]>>) + 1, 1>>>>
    \o [i \in 1..(Len(topo) - 1) |-> SegOf(isls, topo[i], topo[i + 1])]
    \o <<<<FirstIndex(isls, <<Last(topo), -1>>) + 1, 1>>, <<GroundSeg, 1>>>>

NoTopo == <<>>        \* None

setRoute(isls, topo) ==
  IF topo = NoTopo THEN <<>>
  ELSE PathCommands("add", Chain(topo), ChainSegs(isls, topo))

\* Faulty: only the default routes are lifted.
LiftDefaults(isls, topo) ==
  IF topo = NoTopo THEN <<>>
  ELSE SelectSeq(PathCommands("del", Chain(topo), ChainSegs(isls, topo)),
                 LAMBDA c : c.dest = Default)

clearRoute(isls, topo) ==
  IF topo = NoTopo THEN <<>>
  ELSE PathCommands("del", Chain(topo), ChainSegs(isls, topo))

----------------------------------------------------------------------------
(* The kernel: a routing table per node, newest route first. *)

Attached(links, node, seg) ==
  \E i \in DOMAIN links : links[i].seg = seg /\ node \in {links[i].a, links[i].b}

\* The node with an address; links earlier in the list answer first.
Owner(links, addr) ==
  LET l == links[CHOOSE i \in DOMAIN links :
                   /\ links[i].seg = addr[1]
                   /\ \A j \in 1..(i - 1) : links[j].seg # addr[1]]
  IN  IF addr[2] = 1 THEN l.a ELSE l.b

\* `route add' needs a reachable gateway and refuses a second copy; `route del'
\* of a route that is not there does nothing.
Apply(links, table, cmd) ==
  LET entry == <<cmd.dest, cmd.gw>>
      old == table[cmd.at]
  IN  CASE cmd.verb = "del" -> [table EXCEPT ![cmd.at] = RemoveFirst(old, entry)]
        [] cmd.verb = "add" /\ Attached(links, cmd.at, cmd.gw[1])
           /\ ~Contains(old, entry) -> [table EXCEPT ![cmd.at] = <<entry>> \o old]
        [] OTHER -> table

\* The next node on the way from n to an address: its own subnets first, then a
\* route to the subnet, then the default.
Nowhere == <<"nowhere", 0>>
NextHop(links, table, n, dst) ==
  LET to(dest) == SelectInSeq(table[n], LAMBDA e : e[1] = dest)
      via == IF to(dst[1]) # 0 THEN to(dst[1]) ELSE to(Default)
  IN  CASE Attached(links, n, dst[1]) -> Owner(links, dst)
        [] ~Attached(links, n, dst[1]) /\ via # 0 -> Owner(links, table[n][via][2])
        [] OTHER -> Nowhere

\* hop[n] is the next node of a packet at n.  It goes along a chain of nodes:
Follows(hop, nodes) ==
  \A i \in 1..(Len(nodes) - 1) : hop[nodes[i]] = nodes[i + 1]

\* Some nodes pass it on among themselves for ever.
Loops(hop) ==
  \E S \in SUBSET DOMAIN hop :
    /\ S # {}
    /\ \A n \in S : hop[n] \in S /\ hop[n] # n

=============================================================================
