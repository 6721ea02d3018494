---- MODULE DataHoles ----
(***************************************************************************)
(* The interval algorithms of IntcpTransCB (intcp/ikcp.cpp) on its lists   *)
(* of byte ranges: the list of data holes (dataHoles), and the cutting of  *)
(* ranges into segments and interests of at most INTCP_MSS bytes.          *)
(***************************************************************************)
EXTENDS Integers, Sequences, SequencesExt

CONSTANT MSS    \* INTCP_MSS, and INTCP_INT_RANGE_LIMIT, which equals it

ASSUME MSSAssumption == MSS \in Nat \ {0}

Least(x, y) == IF x < y THEN x ELSE y

ByteRange(a, b) == [start |-> a, end |-> b]

BytesOf(r) == r.start..(r.end - 1)

BytesIn(rs) == UNION {BytesOf(rs[i]) : i \in DOMAIN rs}

(***************************************************************************)
(* insertDataHole: the new hole goes to the end of the list, whatever is   *)
(* in it.                                                                  *)
(***************************************************************************)
InsertDataHole(H, a, b) == Append(H, [start |-> a, end |-> b, age |-> 0])

\* Faulty: a hole around [a, b) is cut short and its end is lost.
CutHoleNoSplit(h, a, b) ==
  IF h.end <= a THEN <<h>>
  ELSE IF h.start < a THEN <<[h EXCEPT !.end = a]>>
  ELSE IF b < h.end THEN <<[h EXCEPT !.start = b]>> ELSE <<>>

(***************************************************************************)
(* One iteration of deleteDataHole: the hole goes, is shortened at one     *)
(* end, or is split around [a, b).                                         *)
(***************************************************************************)
CutHole(h, a, b) ==
  IF h.end <= a THEN <<h>>
  ELSE (IF h.start < a THEN <<[h EXCEPT !.end = a]>> ELSE <<>>)
       \o (IF b < h.end THEN <<[h EXCEPT !.start = b]>> ELSE <<>>)

\* Faulty: stops at the first hole that the range does not touch.
DeleteDataHoleStopsEarly(H, a, b) ==
  LET unread(i) == \E j \in 1..i : H[j].start >= b \/ H[j].end <= a
  IN FlattenSeq([i \in DOMAIN H |->
                   IF unread(i) THEN <<H[i]>> ELSE CutHole(H[i], a, b)])

(***************************************************************************)
(* deleteDataHole stops at the first hole that starts at b or later: the   *)
(* rest of the list is not looked at.                                      *)
(***************************************************************************)
DeleteDataHole(H, a, b) ==
  LET unread(i) == \E j \in 1..i : H[j].start >= b
  IN FlattenSeq([i \in DOMAIN H |->
                   IF unread(i) THEN <<H[i]>> ELSE CutHole(H[i], a, b)])

DeleteDataHoles(H, rs) ==
  FoldLeft(LAMBDA acc, r : DeleteDataHole(acc, r.start, r.end), H, rs)

(***************************************************************************)
(* What flushDataHoles asks for, in list order, and what it keeps.         *)
(***************************************************************************)
RipeHoles(H, wait) ==
  FlattenSeq([i \in DOMAIN H |-> IF H[i].age >= wait THEN <<H[i]>> ELSE <<>>])

YoungHoles(H, wait) ==
  FlattenSeq([i \in DOMAIN H |-> IF H[i].age >= wait THEN <<>> ELSE <<H[i]>>])

(***************************************************************************)
(* [a, b) in pieces of MSS bytes, the last one shorter.                    *)
(***************************************************************************)
Pieces(a, b) ==
  [i \in 1..((b - a + MSS - 1) \div MSS) |->
     ByteRange(a + (i - 1) * MSS, Least(a + i * MSS, b))]

\* Faulty: neighbours are joined whether or not they touch.
JoinAnyNext(rs, r) ==
  IF rs # <<>> THEN [rs EXCEPT ![Len(rs)].end = r.end] ELSE <<r>>

(***************************************************************************)
(* flushIntQueue: neighbours in the queue that continue each other become  *)
(* one range, and every range is cut into interests.                       *)
(***************************************************************************)
JoinNext(rs, r) ==
  IF rs # <<>> /\ Last(rs).end = r.start
  THEN [rs EXCEPT ![Len(rs)].end = r.end]
  ELSE Append(rs, r)

FlushIntQueue(q) ==
  LET runs == FoldLeft(JoinNext, <<>>, q)
  IN FlattenSeq([i \in DOMAIN runs |-> Pieces(runs[i].start, runs[i].end)])

(***************************************************************************)
(* parseInt against a cache that holds the bytes `held`: the segments that *)
(* answer the cached beginning of [a, b), and the rest, if any.            *)
(***************************************************************************)
SentEnd(held, a, b) ==
  CHOOSE e \in a..b : a..(e - 1) \subseteq held /\ (e = b \/ e \notin held)

\* Faulty: the rest starts where the interest does, though part was sent.
AnswerAsksAll(held, r) ==
  LET e == SentEnd(held, r.start, r.end)
  IN [sent |-> Pieces(r.start, e),
      rest |-> IF e < r.end THEN <<r>> ELSE <<>>]

Answer(held, r) ==
  LET e == SentEnd(held, r.start, r.end)
  IN [sent |-> Pieces(r.start, e),
      rest |-> IF e < r.end THEN <<ByteRange(e, r.end)>> ELSE <<>>]
====
