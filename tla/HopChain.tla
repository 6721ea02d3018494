---- MODULE HopChain ----
(***************************************************************************)
(* A path of INTCP sessions, as startGSnode and startMidnode set it up:    *)
(* node 0 is the ground station that sends (INTCP_ROLE_RESPONDER), node K  *)
(* the one that receives (INTCP_ROLE_REQUESTER), the nodes between are     *)
(* midnodes.  Data flows from 0 to K without being asked for; interests    *)
(* flow back only to repair what a hop lost.  A midnode that misses data   *)
(* announces the hole downstream by a header, so that one node, the first  *)
(* after the loss, repairs it.                                             *)
(*                                                                         *)
(* Rate control is left out: a flush sends any prefix of sndQueue.  So are *)
(* keepalive interests, which carry no range, and cache eviction.  A       *)
(* segment is received in a step of its own, also when it shared its       *)
(* datagram; a lost datagram takes up to Packed segments with it.          *)
(***************************************************************************)
EXTENDS DataHoles

CONSTANTS
  K,          \* the requester; 0 is the responder
  First,      \* the values rand() % 100 gives the first packetId
  MaxByte,    \* bound: the stream ends here
  Sizes,      \* sizes of the packets read from the TUN device
  HoleWait,   \* INTCP_HOLE_WAIT, in clock steps
  Packed,     \* bound: the segments a datagram carries
  Faults,     \* what the network may do: "lose", "reorder", "duplicate"
  MaxFaults   \* bound: how often it does any of it

ASSUME HopChainAssumption ==
  /\ K \in Nat \ {0}
  /\ First \subseteq 0..MaxByte
  /\ Sizes \subseteq 1..MSS
  /\ HoleWait \in Nat \ {0}
  /\ MaxByte \in Nat
  /\ Packed \in Nat \ {0}
  /\ Faults \subseteq {"lose", "reorder", "duplicate"}

VARIABLES
  packetId,   \* GSsendFunc: where the next packet starts in the stream
  tcb,        \* per node: the session's IntcpTransCB
  cache,      \* per node: the bytes its Cache holds
  net,        \* per direction and hop: the segments under way
  delivered,  \* history: how often each byte was written to the TUN, up to 2
  faults      \* history: how often the network did what

vars == <<packetId, tcb, cache, net, delivered, faults>>

Nodes == 0..K
Bytes == 0..MaxByte
Links == {"data", "int"} \X (1..K)

IsMidnode(n) == n \in 1..(K - 1)

Seg(kind, r) == [kind |-> kind, start |-> r.start, end |-> r.end]

Segs(kind, rs) == [i \in DOMAIN rs |-> Seg(kind, rs[i])]

\* The last five fields are history: what this session covered, asked for,
\* passed on and gave up, and whether a range straddled its next.
NewSession ==
  [next |-> 0, holes |-> <<>>, sndQueue |-> <<>>, intQueue |-> <<>>,
   rcvQueue |-> <<>>, pendingInts |-> <<>>,
   seen |-> {}, asked |-> {}, forwarded |-> {}, skipped |-> {},
   straddled |-> FALSE]

Init ==
  /\ packetId \in First
  /\ tcb = [n \in Nodes |-> NewSession]
  /\ cache = [n \in Nodes |-> {}]
  /\ net = [l \in Links |-> <<>>]
  /\ delivered = [i \in Bytes |-> 0]
  /\ faults = [f \in Faults |-> 0]

-----------------------------------------------------------------------------
\* Faulty: the holes of a midnode are not announced.
AnnounceNothing(n, s, r) == s.sndQueue

(***************************************************************************)
(* detectDataHole.  The first range a session meets is never a hole.  The  *)
(* gap of 100 * INTCP_MSS is out of this module's bounds: see HoleTracker. *)
(***************************************************************************)
AnnounceHole(n, s, r) ==
  IF IsMidnode(n) THEN Append(s.sndQueue, Seg("header", r)) ELSE s.sndQueue

DetectDataHole(n, s, g) ==
  LET gap == ByteRange(s.next, g.start)
  IN CASE g.start = s.next -> [s EXCEPT !.next = g.end]
       [] g.start < s.next ->
            [s EXCEPT !.holes = DeleteDataHole(@, g.start, g.end),
                      !.straddled = @ \/ g.end > s.next]
       [] g.start > s.next /\ s.next = 0 ->
            [s EXCEPT !.next = g.end, !.skipped = @ \cup BytesOf(gap)]
       [] OTHER ->
            [s EXCEPT !.next = g.end,
                      !.holes = InsertDataHole(@, gap.start, gap.end),
                      !.sndQueue = AnnounceHole(n, s, gap)]

\* Everybody but the requester forwards; only data reaches rcvQueue.
ParseData(n, s, g) ==
  [s EXCEPT !.sndQueue = IF n = K THEN @ ELSE Append(@, g),
            !.rcvQueue = IF g.kind = "data" THEN Append(@, g) ELSE @,
            !.seen = @ \cup BytesOf(g)]

\* Faulty: a header is forwarded but does not count as received.
InputSkipsHeaders(n, s, g) ==
  IF g.kind = "header" THEN ParseData(n, s, g)
  ELSE ParseData(n, DetectDataHole(n, s, g), g)

Input(n, s, g) == ParseData(n, DetectDataHole(n, s, g), g)

\* Faulty: a midnode drops what its cache cannot answer.
ParseIntsDropRest(n, s, rs) ==
  LET answers == [i \in DOMAIN rs |-> Answer(cache[n], rs[i])]
      sent == FlattenSeq([i \in DOMAIN rs |-> answers[i].sent])
      rest == FlattenSeq([i \in DOMAIN rs |-> answers[i].rest])
  IN [s EXCEPT !.sndQueue = @ \o Segs("data", sent),
               !.pendingInts = IF n = 0 THEN @ \o rest ELSE @]

\* parseInt for the ranges rs in turn, at a node that is not the requester.
ParseInts(n, s, rs) ==
  LET answers == [i \in DOMAIN rs |-> Answer(cache[n], rs[i])]
      sent == FlattenSeq([i \in DOMAIN rs |-> answers[i].sent])
      rest == FlattenSeq([i \in DOMAIN rs |-> answers[i].rest])
  IN [s EXCEPT !.sndQueue = @ \o Segs("data", sent),
               !.pendingInts = IF n = 0 THEN @ \o rest ELSE @,
               !.intQueue = IF n = 0 THEN @ ELSE @ \o rest]

-----------------------------------------------------------------------------
\* Faulty: a packet is sent, but not cached.
TunReadUncached(size) ==
  LET g == Seg("data", ByteRange(packetId, packetId + size))
  IN /\ g.end <= MaxByte
     /\ packetId' = g.end
     /\ tcb' = [tcb EXCEPT ![0] = Input(0, @, g)]
     /\ UNCHANGED <<cache, net, delivered, faults>>

\* GSsendFunc caches a packet's segment before its own session inputs it.
TunRead(size) ==
  LET g == Seg("data", ByteRange(packetId, packetId + size))
  IN /\ g.end <= MaxByte
     /\ packetId' = g.end
     /\ cache' = [cache EXCEPT ![0] = @ \cup BytesOf(g)]
     /\ tcb' = [tcb EXCEPT ![0] = Input(0, @, g)]
     /\ UNCHANGED <<net, delivered, faults>>

ReceiveData(n) ==
  LET l == <<"data", n>>
  IN /\ net[l] # <<>>
     /\ net' = [net EXCEPT ![l] = Tail(@)]
     /\ tcb' = [tcb EXCEPT ![n] = Input(n, @, Head(net[l]))]
     /\ UNCHANGED <<packetId, cache, delivered, faults>>

ReceiveInt(n) ==
  LET l == <<"int", n + 1>>
  IN /\ net[l] # <<>>
     /\ net' = [net EXCEPT ![l] = Tail(@)]
     /\ tcb' = [tcb EXCEPT ![n] = ParseInts(n, @, <<Head(net[l])>>)]
     /\ UNCHANGED <<packetId, cache, delivered, faults>>

(***************************************************************************)
(* flush, by the session's update thread.  In the code's order: intQueue   *)
(* becomes interests, which leave and cut the holes they cover             *)
(* (flushIntQueue, flushIntBuf); a ripe hole is asked for and erased       *)
(* (flushDataHoles); the rate lets k segments of sndQueue leave            *)
(* (flushData).  The responder has only the last part, the requester only  *)
(* the hole part.                                                          *)
(***************************************************************************)
ForwardedInts(n) == FlushIntQueue(tcb[n].intQueue)

\* Faulty: a hole that was asked for stays in the list.
AskForRipeAgain(n, s) ==
  LET ripe == RipeHoles(s.holes, HoleWait)
      young == [s EXCEPT !.asked = @ \cup BytesIn(ripe)]
  IN IF n = K THEN young ELSE ParseInts(n, young, ripe)

AskForRipe(n, s) ==
  LET ripe == RipeHoles(s.holes, HoleWait)
      young == [s EXCEPT !.holes = YoungHoles(@, HoleWait),
                         !.asked = @ \cup BytesIn(ripe)]
  IN IF n = K THEN young ELSE ParseInts(n, young, ripe)

SendInts(n) ==
  LET is == ForwardedInts(n)
  IN [tcb[n] EXCEPT !.intQueue = <<>>,
                    !.holes = DeleteDataHoles(@, is),
                    !.forwarded = @ \cup BytesIn(is)]

OutputInts(n) ==
  IF n = K THEN Segs("int", RipeHoles(tcb[n].holes, HoleWait))
  ELSE Segs("int", ForwardedInts(n))

OutputTo(l, gs, nt) == [nt EXCEPT ![l] = @ \o gs]

\* The session after its interests have left: one, bound to be computed once.
Flushed(n) ==
  IF n = 0 THEN {tcb[n]} ELSE {AskForRipe(n, s) : s \in {SendInts(n)}}

Flush(n, s, k) ==
  /\ tcb' = [tcb EXCEPT ![n] = [s EXCEPT !.sndQueue = SubSeq(@, k + 1, Len(@))]]
  /\ LET asked == IF n = 0 THEN net ELSE OutputTo(<<"int", n>>, OutputInts(n), net)
     IN net' = IF n = K THEN asked
               ELSE OutputTo(<<"data", n + 1>>, SubSeq(s.sndQueue, 1, k), asked)
  /\ UNCHANGED <<packetId, cache, delivered, faults>>

FlushSome(n) == \E s \in Flushed(n) : \E k \in 0..Len(s.sndQueue) : Flush(n, s, k)

Drain(n) == \E s \in Flushed(n) : Flush(n, s, Len(s.sndQueue))

(***************************************************************************)
(* The application's turn with recvData: onNewSess of a midnode caches the *)
(* segment, GSonNewSess of the requester writes it to the TUN device.      *)
(* Nobody reads the responder's rcvQueue.                                  *)
(***************************************************************************)
TakeReceived(n) ==
  /\ tcb[n].rcvQueue # <<>>
  /\ tcb' = [tcb EXCEPT ![n].rcvQueue = Tail(@)]
  /\ UNCHANGED <<packetId, net, faults>>

CacheReceived(n) ==
  /\ TakeReceived(n)
  /\ cache' = [cache EXCEPT ![n] = @ \cup BytesOf(Head(tcb[n].rcvQueue))]
  /\ UNCHANGED delivered

AtLeastOnceMore(c) == IF c = 0 THEN 1 ELSE 2

TunWrite ==
  /\ TakeReceived(K)
  /\ delivered' = [i \in Bytes |->
                     IF i \in BytesOf(Head(tcb[K].rcvQueue))
                     THEN AtLeastOnceMore(delivered[i]) ELSE delivered[i]]
  /\ UNCHANGED cache

Older(H) == [i \in DOMAIN H |-> [H[i] EXCEPT !.age = @ + 1]]

(***************************************************************************)
(* The clock of a node's holes.  The update thread runs every millisecond, *)
(* a hole ripens in ten: the node is flushed before a ripe hole ages more. *)
(* HoleTracker has the thread that stalls.                                 *)
(***************************************************************************)
Age(n) ==
  /\ tcb[n].holes # <<>>
  /\ RipeHoles(tcb[n].holes, HoleWait) = <<>>
  /\ tcb' = [tcb EXCEPT ![n].holes = Older(@)]
  /\ UNCHANGED <<packetId, cache, net, delivered, faults>>

(***************************************************************************)
(* UDP between neighbours: a datagram is lost with all its segments,       *)
(* overtaken by the next one, or duplicated.                               *)
(***************************************************************************)
FaultCount == SumFunctionOnSet(faults, Faults)

OnlyLost == \A f \in Faults \ {"lose"} : faults[f] = 0

Fault(kind) ==
  /\ kind \in Faults
  /\ FaultCount < MaxFaults
  /\ faults' = [faults EXCEPT ![kind] = @ + 1]
  /\ UNCHANGED <<packetId, tcb, cache, delivered>>

Lose(l) ==
  /\ Fault("lose")
  /\ \E p \in 1..Packed :
       /\ p <= Len(net[l])
       /\ net' = [net EXCEPT ![l] = SubSeq(@, p + 1, Len(@))]

Reorder(l) ==
  /\ Fault("reorder")
  /\ Len(net[l]) >= 2
  /\ net' = [net EXCEPT ![l] = <<@[2], @[1]>> \o SubSeq(@, 3, Len(@))]

Duplicate(l) ==
  /\ Fault("duplicate")
  /\ net[l] # <<>>
  /\ net' = [net EXCEPT ![l] = <<Head(@)>> \o @]

Next ==
  \/ \E size \in Sizes : TunRead(size)
  \/ \E n \in Nodes \ {0} : ReceiveData(n) \/ Age(n)
  \/ \E n \in Nodes \ {K} : ReceiveInt(n)
  \/ \E n \in Nodes : FlushSome(n)
  \/ \E n \in Nodes : IsMidnode(n) /\ CacheReceived(n)
  \/ TunWrite
  \/ \E l \in Links : Lose(l) \/ Reorder(l) \/ Duplicate(l)

(***************************************************************************)
(* The receive loop and the application's loop never stop; neither does    *)
(* the update thread, whose token bucket is refilled on every flush until  *)
(* sndQueue has drained.                                                   *)
(***************************************************************************)
Fairness ==
  /\ \A n \in Nodes : WF_vars(Drain(n))
  /\ \A n \in Nodes \ {0} : WF_vars(ReceiveData(n)) /\ WF_vars(Age(n))
  /\ \A n \in Nodes \ {K} : WF_vars(ReceiveInt(n))
  /\ \A n \in Nodes : IsMidnode(n) => WF_vars(CacheReceived(n))
  /\ WF_vars(TunWrite)

Spec == Init /\ [][Next]_vars

FairSpec == Spec /\ Fairness

-----------------------------------------------------------------------------
(***************************************************************************)
(* The responder has every byte it is ever asked for: GSsendFunc caches a  *)
(* segment before its session sends it, and no node takes bytes that were  *)
(* never sent for a hole.  An interest it cannot answer would stay in      *)
(* pendingInts for good, as nothing serves them.                           *)
(***************************************************************************)
EveryInterestAnswered == tcb[0].pendingInts = <<>>

(***************************************************************************)
(* On a path that only loses datagrams, the first two sessions behind the  *)
(* ground station take no bytes they have seen for a hole, and meet no     *)
(* range that straddles their next.  From the third on they may: a midnode *)
(* joins its own interest with one from downstream, and the answer to both *)
(* arrives as one piece across the end of what a later node has seen.      *)
(***************************************************************************)
InOrderNoFalseHole ==
  OnlyLost =>
    \A n \in Nodes \cap (0..2) :
      /\ ~tcb[n].straddled
      /\ \A i \in DOMAIN tcb[n].holes : BytesOf(tcb[n].holes[i]) \cap tcb[n].seen = {}

(***************************************************************************)
(* One lost datagram is repaired once: the header of the node that found   *)
(* the hole keeps every node behind it from asking for the same bytes, so  *)
(* the TUN device of the requester sees no byte twice.                     *)
(***************************************************************************)
DeliveredOnce ==
  OnlyLost /\ (\A f \in Faults : faults[f] <= 1) =>
    \A i \in Bytes : delivered[i] <= 1

(***************************************************************************)
(* A byte the requester's stream has passed (received a later range) is    *)
(* delivered in the end when the path loses one datagram.  One attempt at  *)
(* each hole is then enough.                                               *)
(***************************************************************************)
Repaired ==
  \A i \in Bytes :
    (i < tcb[K].next /\ i \notin tcb[K].skipped) ~> delivered[i] > 0

(***************************************************************************)
(* Every session of the path keeps the promises of HoleTracker.            *)
(***************************************************************************)
MissingAt(n) ==
  UNION {BytesOf(tcb[n].holes[i]) \X {tcb[n].holes[i].age} : i \in DOMAIN tcb[n].holes}

Tracker(n) == INSTANCE HoleTracker WITH
  AbnormalGap <- MaxByte,
  SnHoleTimeout <- HoleWait + 1,
  MaxAge <- HoleWait,
  dataNextRangeStart <- tcb[n].next,
  missing <- MissingAt(n),
  up <- TRUE,
  seen <- tcb[n].seen,
  asked <- tcb[n].asked,
  forwarded <- tcb[n].forwarded,
  skipped <- tcb[n].skipped,
  straddled <- tcb[n].straddled

TracksHoles ==
  /\ \A n \in Nodes : Tracker(n)!Init
  /\ [][\A n \in Nodes : [Tracker(n)!Next]_(Tracker(n)!vars)]_vars
====
