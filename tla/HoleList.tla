---- MODULE HoleList ----
(***************************************************************************)
(* The interval algorithms of DataHoles against the sets of bytes they     *)
(* stand for, on every list of holes and every queue of interests that a   *)
(* session can build up.                                                   *)
(*                                                                         *)
(* Its names differ from those of HopChain, so that a module can extend    *)
(* both.                                                                   *)
(***************************************************************************)
EXTENDS DataHoles

CONSTANTS
  Limit,      \* bound: the stream ends here
  MaxQueue    \* bound: the interests a consumer leaves in intQueue

ASSUME HoleListAssumption == Limit \in Nat /\ MaxQueue \in Nat

VARIABLES
  next,       \* dataNextRangeStart
  holes,      \* dataHoles
  missing,    \* reference: the bytes that dataHoles stands for
  intQueue

listVars == <<next, holes, missing, intQueue>>

Ranges == {r \in [start : 0..Limit, end : 0..Limit] : r.start < r.end}

ListInit ==
  /\ next = 0
  /\ holes = <<>>
  /\ missing = {}
  /\ intQueue = <<>>

\* A range [b, c) arrives that leaves the hole [next, b).
Insert(b, c) ==
  /\ next < b /\ b < c
  /\ holes' = InsertDataHole(holes, next, b)
  /\ missing' = missing \cup BytesOf(ByteRange(next, b))
  /\ next' = c
  /\ UNCHANGED intQueue

Continue(c) ==
  /\ next < c
  /\ next' = c
  /\ UNCHANGED <<holes, missing, intQueue>>

\* A retransmission arrives, or an interest for r leaves: r may lie anywhere.
Delete(r) ==
  /\ holes' = DeleteDataHole(holes, r.start, r.end)
  /\ missing' = missing \ BytesOf(r)
  /\ UNCHANGED <<next, intQueue>>

Request(r) ==
  /\ Len(intQueue) < MaxQueue
  /\ intQueue' = Append(intQueue, r)
  /\ UNCHANGED <<next, holes, missing>>

ListNext ==
  \/ \E b, c \in 0..Limit : Insert(b, c)
  \/ \E c \in 0..Limit : Continue(c)
  \/ \E r \in Ranges : Delete(r) \/ Request(r)

ListSpec == ListInit /\ [][ListNext]_listVars

-----------------------------------------------------------------------------
(***************************************************************************)
(* deleteDataHole removes exactly the bytes of its range, whichever holes  *)
(* it trims, splits or never reaches, and leaves no empty hole; and the    *)
(* list stays sorted and disjoint, also after splits: deleteDataHole       *)
(* relies on it when it stops at the first hole past its range, and        *)
(* insertDataHole, which appends, does not check it.                       *)
(***************************************************************************)
HolesSound ==
  /\ BytesIn(holes) = missing
  /\ \A i \in DOMAIN holes : holes[i].start < holes[i].end
  /\ \A i, j \in DOMAIN holes : i < j => holes[i].end <= holes[j].start

(***************************************************************************)
(* flushIntQueue asks for exactly the bytes queued, in interests of 1 to   *)
(* INTCP_INT_RANGE_LIMIT bytes, though it joins ranges that touch and cuts *)
(* them elsewhere.                                                         *)
(***************************************************************************)
InterestsCoverQueue ==
  LET out == FlushIntQueue(intQueue)
  IN /\ BytesIn(out) = BytesIn(intQueue)
     /\ \A i \in DOMAIN out : out[i].end - out[i].start \in 1..MSS
     /\ Len(out) <= Len(FlattenSeq([i \in DOMAIN intQueue |->
                          Pieces(intQueue[i].start, intQueue[i].end)]))

(***************************************************************************)
(* parseInt answers or passes on each byte of an interest, once: what it   *)
(* sends is cached, starts at the interest's start and ends where the      *)
(* cache does.  Here the cache holds what the session is not missing.      *)
(***************************************************************************)
AnswerSplits ==
  LET held == (0..(next - 1)) \ missing
  IN \A r \in Ranges :
       LET a == Answer(held, r)
       IN /\ BytesIn(a.sent) \subseteq held
          /\ BytesIn(a.sent) \cup BytesIn(a.rest) = BytesOf(r)
          /\ \A i \in DOMAIN a.rest :
               /\ a.rest[i].start \notin held
               /\ \A b \in BytesIn(a.sent) : b < a.rest[i].start
          /\ \A i, j \in DOMAIN a.sent : i < j => a.sent[i].end = a.sent[i + 1].start
====
