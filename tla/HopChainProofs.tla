---- MODULE HopChainProofs ----
(***************************************************************************)
(* What the sessions of a path do, for every length of the path, every     *)
(* packet and whatever the network loses, reorders or duplicates.  First   *)
(* the algorithms on lists of ranges (DataHoles): deleteDataHole takes     *)
(* exactly its range out of a list that stays sorted, flushIntQueue asks   *)
(* for exactly what is queued, and an interest is answered or passed on    *)
(* byte by byte; HoleList is every list they can build.  Then the sessions *)
(* and the path they form.  Last, the order in which a path that only      *)
(* loses datagrams carries its ranges (InOrderNoFalseHole).                *)
(***************************************************************************)
EXTENDS HopChain, HoleList, FoldProofs, SequenceTheorems

-----------------------------------------------------------------------------
(***************************************************************************)
(* Cutting a range into pieces of MSS bytes.                               *)
(***************************************************************************)
LEMMA Multiple ==
  ASSUME NEW x \in Int, NEW y \in Int, NEW n \in Nat, x <= y
  PROVE  x * n \in Int /\ y * n \in Int /\ x * n <= y * n
  OBVIOUS

Rng == {r \in [start : Nat, end : Nat] : r.start < r.end}

HowMany(a, b) == (b - a + MSS - 1) \div MSS

LEMMA HowManyIs ==
  ASSUME NEW a \in Nat, NEW b \in Nat, a <= b
  PROVE  /\ HowMany(a, b) \in Nat /\ HowMany(a, b) * MSS \in Nat
         /\ b - a <= HowMany(a, b) * MSS
         /\ HowMany(a, b) * MSS < (b - a) + MSS
<1> DEFINE i == b - a + MSS - 1
           q == i \div MSS
<1>1. i \in Nat /\ MSS \in Nat /\ MSS > 0 /\ b - a \in Nat
  BY MSSAssumption
<1> HIDE DEF i
<1>2. q \in Nat /\ q * MSS \in Nat /\ q * MSS <= i /\ i < q * MSS + MSS
  BY <1>1
<1> DEFINE m == q * MSS
<1>3. m \in Nat /\ m <= i /\ i < m + MSS
  BY <1>2
<1> HIDE DEF m, q
<1>4. b - a <= m /\ m < (b - a) + MSS
  BY <1>1, <1>3 DEF i
<1> QED  BY <1>2, <1>4 DEF m, q, i, HowMany

\* Pieces needed for two ranges are enough for the range they make together.
LEMMA TogetherNoMore ==
  ASSUME NEW a \in Nat, NEW b \in Nat, NEW c \in Nat, a <= b, b <= c
  PROVE  HowMany(a, c) <= HowMany(a, b) + HowMany(b, c)
<1> DEFINE x == HowMany(a, b)
           y == HowMany(b, c)
           z == HowMany(a, c)
<1>0. MSS \in Nat /\ MSS > 0
  BY MSSAssumption
<1>1. /\ x \in Nat /\ x * MSS \in Nat /\ b - a <= x * MSS
      /\ y \in Nat /\ y * MSS \in Nat /\ c - b <= y * MSS
      /\ z \in Nat /\ z * MSS \in Nat /\ z * MSS < (c - a) + MSS
  <2>1. a <= c  OBVIOUS
  <2>2. x \in Nat /\ x * MSS \in Nat /\ b - a <= x * MSS  BY HowManyIs
  <2>3. y \in Nat /\ y * MSS \in Nat /\ c - b <= y * MSS  BY HowManyIs
  <2>4. z \in Nat /\ z * MSS \in Nat /\ z * MSS < (c - a) + MSS  BY <2>1, HowManyIs
  <2> QED  BY <2>2, <2>3, <2>4
<1> HIDE DEF x, y, z
<1> SUFFICES ASSUME x + y < z  PROVE FALSE
  BY <1>1 DEF x, y, z
<1>2. (x + y + 1) * MSS <= z * MSS
  BY <1>0, <1>1, Multiple
<1>3. (x + y + 1) * MSS = x * MSS + y * MSS + MSS
  BY <1>0, <1>1
<1> DEFINE u == x * MSS
           v == y * MSS
           w == z * MSS
<1>4. /\ u \in Nat /\ v \in Nat /\ w \in Nat
      /\ b - a <= u /\ c - b <= v /\ w < (c - a) + MSS /\ u + v + MSS <= w
  BY <1>1, <1>2, <1>3
<1> HIDE DEF u, v, w
<1> QED  BY <1>0, <1>4

LEMMA PiecesAre ==
  ASSUME NEW a \in Nat, NEW b \in Nat, a <= b
  PROVE  /\ Pieces(a, b) \in Seq(Rng) /\ Len(Pieces(a, b)) = HowMany(a, b)
         /\ \A i \in 1..HowMany(a, b) :
              /\ a <= Pieces(a, b)[i].start /\ Pieces(a, b)[i].end <= b
              /\ Pieces(a, b)[i].end - Pieces(a, b)[i].start \in 1..MSS
              /\ i + 1 \in 1..HowMany(a, b) =>
                   Pieces(a, b)[i].end = Pieces(a, b)[i + 1].start
         /\ \A x \in Nat : a <= x /\ x < b =>
              \E i \in 1..HowMany(a, b) : x \in BytesOf(Pieces(a, b)[i])
<1> DEFINE n == HowMany(a, b)
           P == Pieces(a, b)
<1>0. MSS \in Nat /\ MSS > 0
  BY MSSAssumption
<1>1. n \in Nat /\ n * MSS \in Nat /\ b - a <= n * MSS /\ n * MSS < (b - a) + MSS
  BY HowManyIs
<1>2. P = [i \in 1..n |-> ByteRange(a + (i - 1) * MSS, Least(a + i * MSS, b))]
  BY DEF Pieces, HowMany
<1> HIDE DEF P, n
<1>3. ASSUME NEW i \in 1..n
      PROVE  /\ (i - 1) * MSS \in Nat /\ i * MSS \in Nat /\ i * MSS = (i - 1) * MSS + MSS
             /\ a + (i - 1) * MSS < b
             /\ i # n => a + i * MSS < b
             /\ i = n => b <= a + i * MSS
  <2>1. (i - 1) * MSS \in Nat /\ i * MSS \in Nat /\ i * MSS = (i - 1) * MSS + MSS
    BY <1>0
  <2>2. i * MSS <= n * MSS
    BY <1>0, <1>1, Multiple
  <2>3. ASSUME i # n  PROVE i * MSS <= (n - 1) * MSS
    BY <1>0, <1>1, <2>3, Multiple
  <2>4. (n - 1) * MSS = n * MSS - MSS
    BY <1>0, <1>1
  <2> DEFINE u == (i - 1) * MSS
             v == i * MSS
             w == n * MSS
  <2>5. /\ u \in Nat /\ v \in Nat /\ w \in Nat /\ v = u + MSS /\ v <= w
        /\ b - a <= w /\ w < (b - a) + MSS /\ (i # n => v <= w - MSS)
    BY <1>1, <2>1, <2>2, <2>3, <2>4
  <2>6. i = n => v = w
    OBVIOUS
  <2> HIDE DEF u, v, w
  <2>7. a + u < b /\ (i # n => a + v < b) /\ (i = n => b <= a + v)
    BY <1>0, <2>5, <2>6
  <2> QED  BY <2>1, <2>7 DEF u, v
<1>4. ASSUME NEW i \in 1..n
      PROVE  /\ P[i] \in Rng
             /\ P[i].start = a + (i - 1) * MSS
             /\ P[i].end = IF i = n THEN b ELSE a + i * MSS
             /\ a <= P[i].start /\ P[i].end <= b
             /\ P[i].end - P[i].start \in 1..MSS
  <2> DEFINE u == (i - 1) * MSS
             v == i * MSS
  <2>1. /\ u \in Nat /\ v \in Nat /\ v = u + MSS /\ a + u < b
        /\ (i # n => a + v < b) /\ (i = n => b <= a + v)
    BY <1>3
  <2>2. P[i] = [start |-> a + u, end |-> IF a + v < b THEN a + v ELSE b]
    BY <1>2 DEF ByteRange, Least
  <2> HIDE DEF u, v
  <2>3. /\ P[i].start = a + u /\ P[i].end = IF i = n THEN b ELSE a + v
        /\ a + u \in Nat /\ P[i].end \in Nat
        /\ a <= a + u /\ P[i].end <= b /\ a + u < P[i].end /\ P[i].end <= a + u + MSS
    BY <1>0, <2>1, <2>2
  <2>4. P[i] \in Rng
    BY <2>2, <2>3 DEF Rng
  <2>5. P[i].end - P[i].start \in 1..MSS
    BY <1>0, <2>3
  <2> QED  BY <2>3, <2>4, <2>5 DEF u, v
<1>5. P \in Seq(Rng) /\ Len(P) = n
  BY <1>1, <1>2, <1>4
<1>6. ASSUME NEW i \in 1..n, i + 1 \in 1..n
      PROVE  P[i].end = P[i + 1].start
  <2>1. i # n /\ (i + 1) - 1 = i  BY <1>1, <1>6
  <2> QED  BY <1>4, <1>6, <2>1
<1>7. ASSUME NEW x \in Nat, a <= x, x < b
      PROVE  \E i \in 1..n : x \in BytesOf(P[i])
  <2> DEFINE y == x - a
             q == y \div MSS
  <2>1. y \in Nat  BY <1>7
  <2> HIDE DEF y
  <2>2. q \in Nat /\ q * MSS \in Nat /\ q * MSS <= y /\ y < q * MSS + MSS
    BY <1>0, <2>1
  <2> HIDE DEF q
  <2>3. q < n
    <3> SUFFICES ASSUME n <= q  PROVE FALSE
      BY <1>1, <2>2
    <3>1. n * MSS <= q * MSS  BY <1>0, <1>1, <2>2, Multiple
    <3> DEFINE u == n * MSS
               v == q * MSS
    <3>2. u \in Nat /\ v \in Nat /\ u <= v /\ v <= y /\ b - a <= u
      BY <1>1, <2>2, <3>1
    <3> HIDE DEF u, v
    <3> QED  BY <1>7, <3>2 DEF y
  <2> DEFINE i == q + 1
  <2>4. i \in 1..n /\ i - 1 = q  BY <1>1, <2>2, <2>3
  <2>5. i * MSS = q * MSS + MSS  BY <1>0, <2>2
  <2> HIDE DEF i
  <2>6. P[i].start = a + q * MSS /\ P[i].end = IF i = n THEN b ELSE a + (q * MSS + MSS)
    BY <1>4, <2>4, <2>5
  <2> DEFINE v == q * MSS
  <2>7. /\ v \in Nat /\ v <= y /\ y < v + MSS
        /\ P[i].start = a + v /\ P[i].end = IF i = n THEN b ELSE a + (v + MSS)
    BY <2>2, <2>6
  <2> HIDE DEF v
  <2>8. /\ P[i].start <= x /\ x < P[i].end /\ P[i].start \in Nat /\ P[i].end \in Nat
    BY <1>0, <1>7, <2>7 DEF y
  <2>9. x \in BytesOf(P[i])
    BY <2>8 DEF BytesOf
  <2> QED  BY <2>4, <2>9
<1> QED  BY <1>4, <1>5, <1>6, <1>7 DEF P, n

LEMMA PiecesBytes ==
  ASSUME NEW a \in Nat, NEW b \in Nat, a <= b
  PROVE  BytesIn(Pieces(a, b)) = a..(b - 1)
<1> DEFINE P == Pieces(a, b)
           n == HowMany(a, b)
<1>1. /\ P \in Seq(Rng) /\ Len(P) = n
      /\ \A i \in 1..n : a <= P[i].start /\ P[i].end <= b
      /\ \A x \in Nat : a <= x /\ x < b => \E i \in 1..n : x \in BytesOf(P[i])
  BY PiecesAre
<1>2. DOMAIN P = 1..n
  BY <1>1
<1> HIDE DEF P, n
<1>3. ASSUME NEW i \in 1..n, NEW x \in BytesOf(P[i])  PROVE x \in a..(b - 1)
  <2>1. P[i] \in Rng /\ a <= P[i].start /\ P[i].end <= b
    BY <1>1, <1>2
  <2>2. P[i].start \in Nat /\ P[i].end \in Nat
    BY <2>1 DEF Rng
  <2> QED  BY <2>1, <2>2 DEF BytesOf
<1>4. ASSUME NEW x \in a..(b - 1)  PROVE \E i \in 1..n : x \in BytesOf(P[i])
  BY <1>1
<1>5. BytesIn(P) = UNION {BytesOf(P[i]) : i \in 1..n}
  BY <1>2 DEF BytesIn
<1>6. BytesIn(P) = a..(b - 1)
  BY <1>3, <1>4, <1>5
<1> QED  BY <1>6 DEF P

-----------------------------------------------------------------------------
(***************************************************************************)
(* Answering an interest.                                                  *)
(***************************************************************************)
LEMMA SentEndIs ==
  ASSUME NEW held, NEW a \in Nat, NEW b \in Nat, a < b
  PROVE  /\ SentEnd(held, a, b) \in a..b
         /\ a..(SentEnd(held, a, b) - 1) \subseteq held
         /\ SentEnd(held, a, b) = b \/ SentEnd(held, a, b) \notin held
<1> DEFINE T == {x \in a..b : x = b \/ x \notin held}
<1>1. T \in SUBSET Nat /\ b \in T
  OBVIOUS
<1>2. PICK e \in T : \A x \in T : e <= x
  <2> HIDE DEF T
  <2> QED  BY <1>1, LeastNat
<1>3. a..(e - 1) \subseteq held
  <2> SUFFICES ASSUME NEW x \in a..(e - 1), x \notin held  PROVE FALSE
    OBVIOUS
  <2>1. x \in T  BY <1>2
  <2> QED  BY <1>2, <2>1
<1>4. \E y \in a..b : a..(y - 1) \subseteq held /\ (y = b \/ y \notin held)
  BY <1>2, <1>3
<1> QED  BY <1>4 DEF SentEnd

LEMMA AnswerIs ==
  ASSUME NEW held, NEW r, r.start \in Nat, r.end \in Nat, r.start < r.end, NEW i, NEW j
  PROVE  LET a == Answer(held, r)
         IN /\ BytesIn(a.sent) \subseteq held
            /\ BytesIn(a.sent) \cup BytesIn(a.rest) = BytesOf(r)
            /\ i \in DOMAIN a.rest => /\ a.rest[i].start \notin held
                                      /\ \A b \in BytesIn(a.sent) : b < a.rest[i].start
            /\ i \in DOMAIN a.sent /\ j \in DOMAIN a.sent /\ i < j =>
                 a.sent[i].end = a.sent[i + 1].start
<1> DEFINE e == SentEnd(held, r.start, r.end)
           a == Answer(held, r)
<1>0. r.start \in Nat /\ r.end \in Nat /\ r.start < r.end
  OBVIOUS
<1>1. /\ e \in r.start..r.end /\ r.start..(e - 1) \subseteq held
      /\ e = r.end \/ e \notin held
  BY <1>0, SentEndIs
<1>2. /\ a.sent = Pieces(r.start, e)
      /\ a.rest = IF e < r.end THEN <<ByteRange(e, r.end)>> ELSE <<>>
  BY DEF Answer
<1> HIDE DEF e, a
<1>3. e \in Nat /\ r.start <= e /\ e <= r.end
  BY <1>0, <1>1
<1>4. BytesIn(a.sent) = r.start..(e - 1)
  BY <1>0, <1>2, <1>3, PiecesBytes
<1>5. BytesIn(a.rest) = e..(r.end - 1)
  <2>1. CASE e < r.end
    <3>1. DOMAIN a.rest = {1} /\ a.rest[1] = ByteRange(e, r.end)
      BY <1>2, <2>1
    <3>2. BytesOf(ByteRange(e, r.end)) = e..(r.end - 1)
      BY DEF BytesOf, ByteRange
    <3> QED  BY <3>1, <3>2 DEF BytesIn
  <2>2. CASE ~(e < r.end)
    <3>1. DOMAIN a.rest = {}  BY <1>2, <2>2
    <3>2. e..(r.end - 1) = {}  BY <1>0, <1>3, <2>2
    <3> QED  BY <3>1, <3>2 DEF BytesIn
  <2> QED  BY <2>1, <2>2
<1>6. BytesIn(a.sent) \cup BytesIn(a.rest) = BytesOf(r)
  BY <1>0, <1>3, <1>4, <1>5 DEF BytesOf
<1>7. ASSUME i \in DOMAIN a.rest
      PROVE  a.rest[i].start \notin held /\ \A b \in BytesIn(a.sent) : b < a.rest[i].start
  <2>1. e < r.end /\ a.rest[i].start = e
    BY <1>2, <1>7 DEF ByteRange
  <2>2. e \notin held
    BY <1>0, <1>1, <2>1
  <2> QED  BY <1>0, <1>3, <1>4, <2>1, <2>2
<1>8. ASSUME i \in DOMAIN a.sent, j \in DOMAIN a.sent, i < j
      PROVE  a.sent[i].end = a.sent[i + 1].start
  <2> DEFINE n == HowMany(r.start, e)
  <2>1. /\ a.sent \in Seq(Rng) /\ Len(a.sent) = n
        /\ \A k \in 1..n : k + 1 \in 1..n => a.sent[k].end = a.sent[k + 1].start
    <3> DEFINE u == r.start
               P == Pieces(u, e)
    <3>1. u \in Nat /\ e \in Nat /\ u <= e /\ a.sent = P
      BY <1>0, <1>2, <1>3
    <3> HIDE DEF u, e, a
    <3>2. P \in Seq(Rng) /\ Len(P) = HowMany(u, e)
      BY <3>1, PiecesAre
    <3>3. \A k \in 1..HowMany(u, e) : k + 1 \in 1..HowMany(u, e) => P[k].end = P[k + 1].start
      BY <3>1, PiecesAre
    <3> HIDE DEF P
    <3> QED  BY <3>1, <3>2, <3>3 DEF u
  <2> HIDE DEF n
  <2>2. DOMAIN a.sent = 1..n /\ n \in Nat
    BY <2>1
  <2>3. i \in 1..n /\ i + 1 \in 1..n
    BY <1>8, <2>2
  <2> QED  BY <2>1, <2>3
<1> QED  BY <1>1, <1>4, <1>6, <1>7, <1>8 DEF a

-----------------------------------------------------------------------------
(***************************************************************************)
(* Taking a range out of the list of holes.                                *)
(***************************************************************************)
Hole == {h \in [start : Nat, end : Nat, age : Nat] : h.start < h.end}

Sorted(H) == \A i, j \in 1..Len(H) : i < j => H[i].end <= H[j].start

In(h, x) == h.start <= x /\ x < h.end

PartOf(p, h) == h.start <= p.start /\ p.end <= h.end /\ p.age = h.age

\* What is left of a hole h when [a, b) goes: parts of h in order, all the rest.
LeftOf(C, h, a, b) ==
  /\ C \in Seq(Hole) /\ Sorted(C)
  /\ \A m \in 1..Len(C) : PartOf(C[m], h)
  /\ \A x \in Nat : (\E m \in 1..Len(C) : In(C[m], x)) <=> In(h, x) /\ ~(a <= x /\ x < b)

LEMMA TwoPieces ==
  ASSUME NEW X, NEW l \in X, NEW r \in X, NEW C, C = <<l>> \o <<r>>
  PROVE  C \in Seq(X) /\ Len(C) = 2 /\ C[1] = l /\ C[2] = r
<1>1. ASSUME NEW u \in Seq(X), NEW v \in Seq(X), Len(u) = 1, Len(v) = 1, C = u \o v
      PROVE  C \in Seq(X) /\ Len(C) = 2 /\ C[1] = u[1] /\ C[2] = v[1]
  <2>1. C \in Seq(X) /\ Len(C) = 2
    BY <1>1
  <2>2. \A i \in 1..2 : C[i] = IF i <= 1 THEN u[i] ELSE v[i - 1]
    BY <1>1
  <2> QED  BY <2>1, <2>2
<1>2. /\ <<l>> \in Seq(X) /\ Len(<<l>>) = 1 /\ <<l>>[1] = l
      /\ <<r>> \in Seq(X) /\ Len(<<r>>) = 1 /\ <<r>>[1] = r
  OBVIOUS
<1> QED  BY <1>1, <1>2, Zenon

LEMMA WholeIsLeft ==
  ASSUME NEW h \in Hole, NEW a \in Nat, NEW b \in Nat, a < b, h.end <= a \/ b <= h.start
  PROVE  LeftOf(<<h>>, h, a, b)
<1> DEFINE C == <<h>>
<1>1. C \in Seq(Hole) /\ Len(C) = 1 /\ C[1] = h
  OBVIOUS
<1>2. h.start \in Nat /\ h.end \in Nat
  BY DEF Hole
<1> HIDE DEF C
<1>3. \A m \in 1..Len(C) : m = 1
  BY <1>1
<1>4. 1 \in 1..Len(C)
  BY <1>1
<1>5. ASSUME NEW x \in Nat
      PROVE  (\E m \in 1..Len(C) : In(C[m], x)) <=> In(h, x) /\ ~(a <= x /\ x < b)
  <2>1. (\E m \in 1..Len(C) : In(C[m], x)) <=> In(h, x)
    BY <1>1, <1>3, <1>4
  <2>2. In(h, x) => ~(a <= x /\ x < b)
    BY <1>2 DEF In
  <2> QED  BY <2>1, <2>2
<1>6. Sorted(C)
  BY <1>3 DEF Sorted
<1>7. \A m \in 1..Len(C) : PartOf(C[m], h)
  BY <1>1, <1>2, <1>3 DEF PartOf
<1>8. LeftOf(C, h, a, b)
  BY <1>1, <1>5, <1>6, <1>7 DEF LeftOf
<1> QED  BY <1>8 DEF C

LEMMA CutHoleIs ==
  ASSUME NEW h \in Hole, NEW a \in Nat, NEW b \in Nat, a < b, h.start < b
  PROVE  LeftOf(CutHole(h, a, b), h, a, b)
<1> DEFINE l == [h EXCEPT !.end = a]
           r == [h EXCEPT !.start = b]
           C == CutHole(h, a, b)
<1>1. h.start \in Nat /\ h.end \in Nat /\ h.start < h.end /\ h.age \in Nat
      /\ h = [start |-> h.start, end |-> h.end, age |-> h.age]
  BY DEF Hole
<1>2. l.start = h.start /\ l.end = a /\ l.age = h.age /\ (h.start < a => l \in Hole)
  BY <1>1 DEF Hole
<1>3. r.start = b /\ r.end = h.end /\ r.age = h.age /\ (b < h.end => r \in Hole)
  BY <1>1 DEF Hole
<1>4. C = IF h.end <= a THEN <<h>>
          ELSE (IF h.start < a THEN <<l>> ELSE <<>>) \o (IF b < h.end THEN <<r>> ELSE <<>>)
  BY DEF CutHole
<1> HIDE DEF l, r, C
<1>5. CASE h.end <= a
  <2>1. LeftOf(<<h>>, h, a, b)  BY <1>5, WholeIsLeft
  <2> QED  BY <1>4, <1>5, <2>1 DEF C
<1>6. CASE ~(h.end <= a)
  <2>1. CASE h.start < a /\ b < h.end
    <3>1. C = <<l>> \o <<r>>  BY <1>4, <1>6, <2>1
    <3>2. C \in Seq(Hole) /\ Len(C) = 2 /\ C[1] = l /\ C[2] = r
      <4>1. l \in Hole /\ r \in Hole  BY <1>2, <1>3, <2>1
      <4> QED  BY <3>1, <4>1, TwoPieces
    <3>3. \A m \in 1..Len(C) : m = 1 \/ m = 2
      BY <3>2
    <3>4. 1 \in 1..Len(C) /\ 2 \in 1..Len(C)
      BY <3>2
    <3>5. Sorted(C)
      BY <1>2, <1>3, <3>2, <3>3 DEF Sorted
    <3>6. \A m \in 1..Len(C) : PartOf(C[m], h)
      BY <1>1, <1>2, <1>3, <1>6, <2>1, <3>2, <3>3 DEF PartOf
    <3>7. ASSUME NEW x \in Nat
          PROVE  (\E m \in 1..Len(C) : In(C[m], x)) <=> In(h, x) /\ ~(a <= x /\ x < b)
      <4>1. (\E m \in 1..Len(C) : In(C[m], x)) <=> In(l, x) \/ In(r, x)
        BY <3>2, <3>3, <3>4
      <4>2. In(l, x) \/ In(r, x) <=> In(h, x) /\ ~(a <= x /\ x < b)
        BY <1>1, <1>2, <1>3, <1>6, <2>1 DEF In
      <4> QED  BY <4>1, <4>2
    <3> QED  BY <3>2, <3>5, <3>6, <3>7 DEF LeftOf, C
  <2>2. CASE h.start < a /\ ~(b < h.end)
    <3>1. C = <<l>>  BY <1>4, <1>6, <2>2
    <3>2. C \in Seq(Hole) /\ Len(C) = 1 /\ C[1] = l
      BY <1>2, <2>2, <3>1
    <3>3. 1 \in 1..Len(C) /\ \A m \in 1..Len(C) : m = 1
      BY <3>2
    <3>4. Sorted(C)
      BY <3>3 DEF Sorted
    <3>5. \A m \in 1..Len(C) : PartOf(C[m], h)
      BY <1>1, <1>2, <1>6, <3>2, <3>3 DEF PartOf
    <3>6. ASSUME NEW x \in Nat
          PROVE  (\E m \in 1..Len(C) : In(C[m], x)) <=> In(h, x) /\ ~(a <= x /\ x < b)
      <4>1. (\E m \in 1..Len(C) : In(C[m], x)) <=> In(l, x)
        BY <3>2, <3>3
      <4>2. In(l, x) <=> In(h, x) /\ ~(a <= x /\ x < b)
        BY <1>1, <1>2, <1>6, <2>2 DEF In
      <4> QED  BY <4>1, <4>2
    <3> QED  BY <3>2, <3>4, <3>5, <3>6 DEF LeftOf, C
  <2>3. CASE ~(h.start < a) /\ b < h.end
    <3>1. C = <<r>>  BY <1>4, <1>6, <2>3
    <3>2. C \in Seq(Hole) /\ Len(C) = 1 /\ C[1] = r
      BY <1>3, <2>3, <3>1
    <3>3. 1 \in 1..Len(C) /\ \A m \in 1..Len(C) : m = 1
      BY <3>2
    <3>4. Sorted(C)
      BY <3>3 DEF Sorted
    <3>5. \A m \in 1..Len(C) : PartOf(C[m], h)
      BY <1>1, <1>3, <3>2, <3>3 DEF PartOf
    <3>6. ASSUME NEW x \in Nat
          PROVE  (\E m \in 1..Len(C) : In(C[m], x)) <=> In(h, x) /\ ~(a <= x /\ x < b)
      <4>1. (\E m \in 1..Len(C) : In(C[m], x)) <=> In(r, x)
        BY <3>2, <3>3
      <4>2. In(r, x) <=> In(h, x) /\ ~(a <= x /\ x < b)
        BY <1>1, <1>3, <2>3 DEF In
      <4> QED  BY <4>1, <4>2
    <3> QED  BY <3>2, <3>4, <3>5, <3>6 DEF LeftOf, C
  <2>4. CASE ~(h.start < a) /\ ~(b < h.end)
    <3>1. C = <<>>  BY <1>4, <1>6, <2>4
    <3>2. C \in Seq(Hole) /\ Len(C) = 0
      BY <3>1
    <3>3. \A m \in 1..Len(C) : FALSE
      BY <3>2
    <3>4. ASSUME NEW x \in Nat, In(h, x)  PROVE a <= x /\ x < b
      BY <1>1, <2>4, <3>4 DEF In
    <3> QED  BY <3>2, <3>3, <3>4 DEF LeftOf, Sorted, C
  <2> QED  BY <2>1, <2>2, <2>3, <2>4
<1> QED  BY <1>5, <1>6

(***************************************************************************)
(* The whole list: sorted again, exactly [a, b) is gone, and nothing lies  *)
(* where nothing lay.  The early end of the loop costs nothing, as the     *)
(* list is sorted.                                                         *)
(***************************************************************************)
LEMMA DeleteIs ==
  ASSUME NEW H \in Seq(Hole), Sorted(H), NEW a \in Nat, NEW b \in Nat, a < b,
         NEW D, D = DeleteDataHole(H, a, b)
  PROVE  /\ D \in Seq(Hole) /\ Sorted(D)
         /\ \A x \in Nat : (\E i \in 1..Len(D) : In(D[i], x)) <=>
                           (\E i \in 1..Len(H) : In(H[i], x)) /\ ~(a <= x /\ x < b)
         /\ \A i \in 1..Len(D) : \E k \in 1..Len(H) : PartOf(D[i], H[k])
<1> DEFINE n == Len(H)
           unread(i) == \E j \in 1..i : H[j].start >= b
           S == [i \in DOMAIN H |-> IF unread(i) THEN <<H[i]>> ELSE CutHole(H[i], a, b)]
<1>0. /\ n \in Nat /\ DOMAIN H = 1..n
      /\ \A i \in 1..n : H[i] \in Hole /\ H[i].start \in Nat /\ H[i].end \in Nat
                         /\ H[i].start < H[i].end
  BY DEF Hole
<1>1. D = FlattenSeq(S)
  BY DEF DeleteDataHole
<1>2. ASSUME NEW i \in 1..n  PROVE LeftOf(S[i], H[i], a, b)
  <2>1. CASE unread(i)
    <3>1. PICK j \in 1..i : H[j].start >= b  BY <2>1
    <3>2. j \in 1..n  BY <1>0
    <3>3. b <= H[i].start
      <4>1. CASE j = i  BY <1>0, <3>1, <4>1
      <4>2. CASE j # i
        <5>1. j < i  BY <4>2
        <5>2. H[j].end <= H[i].start  BY <3>2, <5>1 DEF Sorted
        <5> QED  BY <1>0, <3>1, <3>2, <5>2
      <4> QED  BY <4>1, <4>2
    <3>4. S[i] = <<H[i]>>  BY <1>0, <2>1
    <3> HIDE DEF S
    <3> QED  BY <1>0, <3>3, <3>4, WholeIsLeft
  <2>2. CASE ~unread(i)
    <3>1. H[i].start < b
      <4>1. i \in 1..i  BY <1>0
      <4>2. ~(H[i].start >= b)  BY <2>2, <4>1
      <4> QED  BY <1>0, <4>2
    <3>2. S[i] = CutHole(H[i], a, b)  BY <1>0, <2>2
    <3> HIDE DEF S
    <3> QED  BY <1>0, <3>1, <3>2, CutHoleIs
  <2> QED  BY <2>1, <2>2
<1>3. DOMAIN S = 1..n
  BY <1>0
<1> HIDE DEF S
<1>4. S \in Seq(Seq(Hole)) /\ Len(S) = n
  <2>1. \A i \in 1..n : S[i] \in Seq(Hole)  BY <1>2 DEF LeftOf
  <2>2. S = [i \in 1..n |-> S[i]]  BY <1>3 DEF S
  <2>3. S \in [1..n -> Seq(Hole)]  BY <2>1, <2>2
  <2> QED  BY <1>0, <2>3
<1>5. D \in Seq(Hole) /\ InPlace(D, S, n)
  BY <1>1, <1>4, FlattenPlaces
<1>6. /\ \A i \in 1..Len(D) : \E p \in 1..n : \E m \in 1..Len(S[p]) : D[i] = S[p][m]
      /\ \A p \in 1..n : \A m \in 1..Len(S[p]) : \E i \in 1..Len(D) : D[i] = S[p][m]
      /\ \A i, j \in 1..Len(D) : i < j => Before(D[i], D[j], S, n)
  BY <1>5 DEF InPlace
<1>7. \A p \in 1..n : \A m \in 1..Len(S[p]) :
        /\ S[p][m] \in Hole /\ S[p][m].start \in Nat /\ S[p][m].end \in Nat
        /\ PartOf(S[p][m], H[p]) /\ S[p][m].end <= H[p].end
        /\ H[p].start <= S[p][m].start
  <2> SUFFICES ASSUME NEW p \in 1..n, NEW m \in 1..Len(S[p])
               PROVE  /\ S[p][m] \in Hole
                      /\ PartOf(S[p][m], H[p])
    BY DEF Hole, PartOf
  <2> QED  BY <1>2 DEF LeftOf
<1>8. Sorted(D)
  <2> SUFFICES ASSUME NEW i \in 1..Len(D), NEW j \in 1..Len(D), i < j
               PROVE  D[i].end <= D[j].start
    BY DEF Sorted
  <2>1. PICK p \in 1..n, q \in 1..n : \E m \in 1..Len(S[p]), o \in 1..Len(S[q]) :
           /\ D[i] = S[p][m] /\ D[j] = S[q][o]
           /\ p < q \/ (p = q /\ m < o)
    BY <1>6 DEF Before
  <2>2. PICK m \in 1..Len(S[p]), o \in 1..Len(S[q]) :
           /\ D[i] = S[p][m] /\ D[j] = S[q][o]
           /\ p < q \/ (p = q /\ m < o)
    BY <2>1
  <2>3. CASE p < q
    <3>1. H[p].end <= H[q].start  BY <2>3 DEF Sorted
    <3>2. S[p][m].end <= H[p].end /\ S[p][m].end \in Nat
      BY <1>7
    <3>3. H[q].start <= S[q][o].start /\ S[q][o].start \in Nat
      BY <1>7
    <3>4. H[p].end \in Nat /\ H[q].start \in Nat
      BY <1>0
    <3> DEFINE u == S[p][m].end
               v == H[p].end
               w == H[q].start
               z == S[q][o].start
    <3>5. /\ u \in Nat /\ v \in Nat /\ w \in Nat /\ z \in Nat
          /\ u <= v /\ v <= w /\ w <= z
      BY <3>1, <3>2, <3>3, <3>4
    <3>6. u <= z
      <4> HIDE DEF u, v, w, z
      <4> QED  BY <3>5
    <3> QED  BY <2>2, <3>6
  <2>4. CASE p = q /\ m < o
    <3>1. Sorted(S[p])  BY <1>2 DEF LeftOf
    <3> QED  BY <2>2, <2>4, <3>1 DEF Sorted
  <2> QED  BY <2>2, <2>3, <2>4
<1>9. ASSUME NEW x \in Nat
      PROVE  (\E i \in 1..Len(D) : In(D[i], x)) <=>
             (\E i \in 1..n : In(H[i], x)) /\ ~(a <= x /\ x < b)
  <2>1. (\E i \in 1..Len(D) : In(D[i], x)) <=>
        \E p \in 1..n : \E m \in 1..Len(S[p]) : In(S[p][m], x)
    <3>1. ASSUME NEW i \in 1..Len(D), In(D[i], x)
          PROVE  \E p \in 1..n : \E m \in 1..Len(S[p]) : In(S[p][m], x)
      BY <1>6, <3>1
    <3>2. ASSUME NEW p \in 1..n, NEW m \in 1..Len(S[p]), In(S[p][m], x)
          PROVE  \E i \in 1..Len(D) : In(D[i], x)
      BY <1>6, <3>2
    <3> QED  BY <3>1, <3>2
  <2>2. \A p \in 1..n : (\E m \in 1..Len(S[p]) : In(S[p][m], x))
                          <=> In(H[p], x) /\ ~(a <= x /\ x < b)
    BY <1>2 DEF LeftOf
  <2> QED  BY <2>1, <2>2
<1>10. ASSUME NEW i \in 1..Len(D)  PROVE \E k \in 1..n : PartOf(D[i], H[k])
  BY <1>6, <1>7
<1> QED  BY <1>5, <1>8, <1>9, <1>10

-----------------------------------------------------------------------------
(***************************************************************************)
(* From the queue of interests to what is asked for.                       *)
(***************************************************************************)
Covered(rs, x) == \E i \in 1..Len(rs) : In(rs[i], x)

LEMMA BytesInIs ==
  ASSUME NEW rs, NEW n \in Nat, n = Len(rs), DOMAIN rs = 1..n,
         \A i \in 1..n : rs[i].start \in Nat /\ rs[i].end \in Nat
  PROVE  \A x : x \in BytesIn(rs) <=> x \in Nat /\ Covered(rs, x)
<1>1. \A x : x \in BytesIn(rs) <=> \E i \in 1..n : x \in BytesOf(rs[i])
  BY DEF BytesIn
<1>2. ASSUME NEW i \in 1..n, NEW x
      PROVE  x \in BytesOf(rs[i]) <=> x \in Nat /\ In(rs[i], x)
  <2>1. rs[i].start \in Nat /\ rs[i].end \in Nat  OBVIOUS
  <2> QED  BY <2>1 DEF BytesOf, In
<1> QED  BY <1>1, <1>2 DEF Covered

LEMMA RngBytes ==
  ASSUME NEW rs \in Seq(Rng)
  PROVE  \A x : x \in BytesIn(rs) <=> x \in Nat /\ Covered(rs, x)
<1>1. Len(rs) \in Nat /\ DOMAIN rs = 1..Len(rs)
  OBVIOUS
<1>2. \A i \in 1..Len(rs) : rs[i] \in Rng
  OBVIOUS
<1>3. \A i \in 1..Len(rs) : rs[i].start \in Nat /\ rs[i].end \in Nat
  BY <1>2 DEF Rng
<1> QED  BY <1>1, <1>3, BytesInIs

Cuts(rs) == [i \in DOMAIN rs |-> Pieces(rs[i].start, rs[i].end)]

Asked(rs) == FlattenSeq(Cuts(rs))

LEMMA CutsAre ==
  ASSUME NEW rs \in Seq(Rng)
  PROVE  /\ Cuts(rs) \in Seq(Seq(Rng)) /\ Len(Cuts(rs)) = Len(rs)
         /\ \A i \in 1..Len(rs) :
              /\ Cuts(rs)[i] = Pieces(rs[i].start, rs[i].end)
              /\ Cuts(rs)[i] \in Seq(Rng)
              /\ Len(Cuts(rs)[i]) = HowMany(rs[i].start, rs[i].end)
<1>1. ASSUME NEW i \in 1..Len(rs)
      PROVE  /\ Pieces(rs[i].start, rs[i].end) \in Seq(Rng)
             /\ Len(Pieces(rs[i].start, rs[i].end)) = HowMany(rs[i].start, rs[i].end)
  <2>1. rs[i] \in Rng  OBVIOUS
  <2>2. rs[i].start \in Nat /\ rs[i].end \in Nat /\ rs[i].start <= rs[i].end
    BY <2>1 DEF Rng
  <2> QED  BY <2>2, PiecesAre
<1>2. DOMAIN rs = 1..Len(rs) /\ Len(rs) \in Nat
  OBVIOUS
<1> QED  BY <1>1, <1>2 DEF Cuts

LEMMA AskedCovers ==
  ASSUME NEW rs \in Seq(Rng)
  PROVE  /\ Asked(rs) \in Seq(Rng)
         /\ BytesIn(Asked(rs)) = BytesIn(rs)
         /\ \A i \in 1..Len(Asked(rs)) : Asked(rs)[i].end - Asked(rs)[i].start \in 1..MSS
<1> DEFINE S == Cuts(rs)
           A == Asked(rs)
           n == Len(rs)
<1>1. /\ S \in Seq(Seq(Rng)) /\ Len(S) = n
      /\ \A p \in 1..n : S[p] = Pieces(rs[p].start, rs[p].end) /\ S[p] \in Seq(Rng)
                         /\ Len(S[p]) = HowMany(rs[p].start, rs[p].end)
  BY CutsAre
<1>2. A \in Seq(Rng) /\ InPlace(A, S, n)
  BY <1>1, FlattenPlaces DEF Asked
<1>3. /\ \A i \in 1..Len(A) : \E p \in 1..n : \E m \in 1..Len(S[p]) : A[i] = S[p][m]
      /\ \A p \in 1..n : \A m \in 1..Len(S[p]) : \E i \in 1..Len(A) : A[i] = S[p][m]
  BY <1>2 DEF InPlace
<1>4. ASSUME NEW p \in 1..n
      PROVE  /\ \A m \in 1..Len(S[p]) : S[p][m].end - S[p][m].start \in 1..MSS
             /\ \A x \in Nat : In(rs[p], x) <=> \E m \in 1..Len(S[p]) : In(S[p][m], x)
  <2> DEFINE a == rs[p].start
             b == rs[p].end
  <2>1. rs[p] \in Rng  OBVIOUS
  <2>2. a \in Nat /\ b \in Nat /\ a <= b
    BY <2>1 DEF Rng
  <2>3. S[p] = Pieces(a, b) /\ S[p] \in Seq(Rng) /\ Len(S[p]) = HowMany(a, b)
    BY <1>1
  <2>4. \A x : In(rs[p], x) <=> a <= x /\ x < b
    BY DEF In
  <2> HIDE DEF S, a, b
  <2>5. \A m \in 1..Len(S[p]) : S[p][m].end - S[p][m].start \in 1..MSS
    BY <2>2, <2>3, PiecesAre
  <2>6. BytesIn(S[p]) = a..(b - 1)
    BY <2>2, <2>3, PiecesBytes
  <2>7. \A x : x \in BytesIn(S[p]) <=> x \in Nat /\ Covered(S[p], x)
    BY <2>3, RngBytes
  <2>8. \A x \in Nat : a <= x /\ x < b <=> Covered(S[p], x)
    BY <2>2, <2>6, <2>7
  <2> QED  BY <2>4, <2>5, <2>8 DEF Covered
<1> HIDE DEF S, A
<1>5. ASSUME NEW i \in 1..Len(A)  PROVE A[i].end - A[i].start \in 1..MSS
  <2>1. PICK p \in 1..n : \E m \in 1..Len(S[p]) : A[i] = S[p][m]
    BY <1>3
  <2>2. PICK m \in 1..Len(S[p]) : A[i] = S[p][m]
    BY <2>1
  <2> QED  BY <1>4, <2>2
<1>6. \A x \in Nat : Covered(A, x) <=> Covered(rs, x)
  <2>1. ASSUME NEW x \in Nat, NEW i \in 1..Len(A), In(A[i], x)
        PROVE  \E p \in 1..n : In(rs[p], x)
    <3>1. PICK p \in 1..n : \E m \in 1..Len(S[p]) : A[i] = S[p][m]
      BY <1>3
    <3> QED  BY <1>4, <2>1, <3>1
  <2>2. ASSUME NEW x \in Nat, NEW p \in 1..n, In(rs[p], x)
        PROVE  \E i \in 1..Len(A) : In(A[i], x)
    <3>1. PICK m \in 1..Len(S[p]) : In(S[p][m], x)
      BY <1>4, <2>2
    <3> QED  BY <1>3, <3>1
  <2> QED  BY <2>1, <2>2 DEF Covered
<1>7. BytesIn(A) = BytesIn(rs)
  <2>1. \A x : x \in BytesIn(A) <=> x \in Nat /\ Covered(A, x)
    BY <1>2, RngBytes
  <2>2. \A x : x \in BytesIn(rs) <=> x \in Nat /\ Covered(rs, x)
    BY RngBytes
  <2> QED  BY <1>6, <2>1, <2>2
<1> QED  BY <1>2, <1>5, <1>7 DEF A

LEMMA AskedAppend ==
  ASSUME NEW rs \in Seq(Rng), NEW r \in Rng
  PROVE  /\ Len(Asked(rs)) \in Nat
         /\ Len(Asked(Append(rs, r))) = Len(Asked(rs)) + HowMany(r.start, r.end)
<1> DEFINE more == Append(rs, r)
           s == Pieces(r.start, r.end)
           n == Len(rs)
<1>1. /\ more \in Seq(Rng) /\ Len(more) = n + 1 /\ n \in Nat
      /\ \A i \in 1..n : more[i] = rs[i]
      /\ more[n + 1] = r
  OBVIOUS
<1>2. s \in Seq(Rng) /\ Len(s) = HowMany(r.start, r.end)
  BY PiecesAre DEF Rng
<1> HIDE DEF more, s
<1>3. /\ Cuts(rs) \in Seq(Seq(Rng)) /\ Len(Cuts(rs)) = n
      /\ \A i \in 1..n : Cuts(rs)[i] = Pieces(rs[i].start, rs[i].end)
  BY CutsAre
<1>4. /\ Cuts(more) \in Seq(Seq(Rng)) /\ Len(Cuts(more)) = n + 1
      /\ \A i \in 1..(n + 1) : Cuts(more)[i] = Pieces(more[i].start, more[i].end)
  BY <1>1, CutsAre
<1>5. Cuts(more) = Append(Cuts(rs), s)
  <2> DEFINE c == Cuts(rs)
             d == Cuts(more)
             e == Append(c, s)
  <2>1. /\ e \in Seq(Seq(Rng)) /\ Len(e) = n + 1
        /\ \A i \in 1..(n + 1) : e[i] = IF i = n + 1 THEN s ELSE c[i]
    BY <1>1, <1>2, <1>3
  <2> HIDE DEF c, d, e
  <2>2. ASSUME NEW i \in 1..(n + 1)
        PROVE  d[i] = IF i = n + 1 THEN s ELSE c[i]
    <3>1. d[i] = Pieces(more[i].start, more[i].end)
      BY <1>4 DEF d
    <3>2. CASE i = n + 1
      BY <1>1, <3>1, <3>2 DEF s
    <3>3. CASE i \in 1..n
      <4>1. c[i] = Pieces(rs[i].start, rs[i].end) /\ more[i] = rs[i] /\ i # n + 1
        BY <1>1, <1>3, <3>3 DEF c
      <4> QED  BY <3>1, <4>1, Zenon
    <3> QED  BY <1>1, <3>2, <3>3
  <2>3. \A i \in 1..(n + 1) : d[i] = e[i]
    BY <2>1, <2>2
  <2>4. d \in Seq(Seq(Rng)) /\ Len(d) = n + 1
    BY <1>4 DEF d
  <2>5. d = e
    BY <1>1, <2>1, <2>3, <2>4
  <2> QED  BY <2>5 DEF c, d, e
<1>6. Asked(rs) \in Seq(Rng) /\ Asked(more) = Asked(rs) \o s
  BY <1>2, <1>3, <1>5, FlattenAppend DEF Asked
<1> DEFINE A == Asked(rs)
<1>7. A \in Seq(Rng) /\ Asked(more) = A \o s
  BY <1>6
<1> HIDE DEF A
<1>8. Len(A \o s) = Len(A) + Len(s) /\ Len(A) \in Nat
  <2>1. \A X : \A u, v \in Seq(X) : Len(u \o v) = Len(u) + Len(v) /\ Len(u) \in Nat
    OBVIOUS
  <2> QED  BY <1>2, <1>7, <2>1
<1> QED  BY <1>2, <1>7, <1>8 DEF A, more

-----------------------------------------------------------------------------
(***************************************************************************)
(* flushIntQueue: joining neighbours before cutting loses no byte and asks *)
(* for no more interests.                                                  *)
(***************************************************************************)
LastOf(front, X, s, n, w) ==
  /\ front \in Seq(X) /\ s[n] \in X
  /\ s = Append(front, s[n])
  /\ [s EXCEPT ![n] = w] = Append(front, w)

LEMMA LastChanged ==
  ASSUME NEW X, NEW s \in Seq(X), s # <<>>, NEW w \in X, NEW n, n = Len(s)
  PROVE  \E front : LastOf(front, X, s, n, w)
<1> DEFINE front == SubSeq(s, 1, n - 1)
<1>1. n \in Nat /\ n > 0 /\ s[n] \in X
  OBVIOUS
<1>2. front \in Seq(X) /\ Len(front) = n - 1 /\ \A i \in 1..(n - 1) : front[i] = s[i]
  BY <1>1
<1> HIDE DEF front
<1>3. s = Append(front, s[n])
  BY <1>1, <1>2
<1>4. [s EXCEPT ![n] = w] = Append(front, w)
  <2> DEFINE u == [s EXCEPT ![n] = w]
             v == Append(front, w)
  <2>1. /\ u \in Seq(X) /\ Len(u) = n
        /\ \A i \in 1..n : u[i] = IF i = n THEN w ELSE s[i]
    BY <1>1
  <2>2. /\ v \in Seq(X) /\ Len(v) = n
        /\ \A i \in 1..n : v[i] = IF i = n THEN w ELSE front[i]
    BY <1>1, <1>2
  <2> HIDE DEF u, v
  <2>3. ASSUME NEW i \in 1..n  PROVE u[i] = v[i]
    <3>1. CASE i = n
      BY <2>1, <2>2, <3>1
    <3>2. CASE i # n
      <4>1. i \in 1..(n - 1)  BY <1>1, <3>2
      <4> QED  BY <1>2, <2>1, <2>2, <3>2, <4>1
    <3> QED  BY <3>1, <3>2
  <2>4. u = v
    BY <1>1, <2>1, <2>2, <2>3
  <2> QED  BY <2>4 DEF u, v
<1>5. LastOf(front, X, s, n, w)
  BY <1>1, <1>2, <1>3, <1>4 DEF LastOf
<1> QED  BY <1>5

LEMMA AppendCovers ==
  ASSUME NEW rs \in Seq(Rng), NEW r \in Rng
  PROVE  /\ Append(rs, r) \in Seq(Rng)
         /\ \A x : Covered(Append(rs, r), x) <=> Covered(rs, x) \/ In(r, x)
<1> DEFINE more == Append(rs, r)
           n == Len(rs)
<1>1. /\ more \in Seq(Rng) /\ Len(more) = n + 1 /\ n \in Nat
      /\ \A i \in 1..n : more[i] = rs[i]
      /\ more[n + 1] = r
  OBVIOUS
<1> HIDE DEF more, n
<1>2. \A i \in 1..(n + 1) : i \in 1..n \/ i = n + 1
  BY <1>1
<1>3. n + 1 \in 1..(n + 1) /\ \A i \in 1..n : i \in 1..(n + 1)
  BY <1>1
<1>4. ASSUME NEW x  PROVE Covered(more, x) <=> Covered(rs, x) \/ In(r, x)
  <2>1. Covered(more, x) <=> \E i \in 1..(n + 1) : In(more[i], x)
    BY <1>1 DEF Covered
  <2>2. Covered(rs, x) <=> \E i \in 1..n : In(rs[i], x)
    BY DEF Covered, n
  <2> QED  BY <1>1, <1>2, <1>3, <2>1, <2>2
<1> QED  BY <1>1, <1>4 DEF more

LEMMA HowManyNat ==
  ASSUME NEW r \in Rng
  PROVE  HowMany(r.start, r.end) \in Nat
<1> DEFINE a == r.start
           b == r.end
<1>1. a \in Nat /\ b \in Nat /\ a <= b
  BY DEF Rng
<1> HIDE DEF a, b
<1>2. HowMany(a, b) \in Nat
  BY <1>1, HowManyIs
<1> QED  BY <1>2 DEF a, b

LEMMA JoinNextIs ==
  ASSUME NEW rs \in Seq(Rng), NEW r \in Rng, NEW new, new = JoinNext(rs, r)
  PROVE  /\ new \in Seq(Rng)
         /\ \A x \in Nat : Covered(new, x) <=> Covered(rs, x) \/ In(r, x)
         /\ Len(Asked(rs)) \in Nat /\ Len(Asked(new)) \in Nat
         /\ Len(Asked(new)) <= Len(Asked(rs)) + HowMany(r.start, r.end)
<1>0. r.start \in Nat /\ r.end \in Nat /\ r.start < r.end
  BY DEF Rng
<1>1. CASE rs # <<>> /\ Last(rs).end = r.start
  <2> DEFINE n == Len(rs)
             l == rs[n]
             w == [l EXCEPT !.end = r.end]
  <2>1. l \in Rng /\ l.end = r.start
    BY <1>1 DEF Last
  <2>2. l.start \in Nat /\ l.end \in Nat /\ l.start < l.end
        /\ l = [start |-> l.start, end |-> l.end]
    BY <2>1 DEF Rng
  <2>3. w.start = l.start /\ w.end = r.end /\ w \in Rng
    BY <1>0, <2>1, <2>2 DEF Rng
  <2>4. new = [rs EXCEPT ![n] = w]
    BY <1>1 DEF JoinNext
  <2> HIDE DEF w
  <2>5. PICK front \in Seq(Rng) : rs = Append(front, l) /\ [rs EXCEPT ![n] = w] = Append(front, w)
    <3> HIDE DEF n
    <3>1. rs # <<>> /\ w \in Rng /\ n = Len(rs)
      BY <1>1, <2>3 DEF n
    <3>2. PICK front : LastOf(front, Rng, rs, n, w)
      BY <3>1, LastChanged
    <3> QED  BY <3>2 DEF LastOf
  <2> HIDE DEF l
  <2>6. new = Append(front, w)
    BY <2>4, <2>5
  <2>7. new \in Seq(Rng) /\ \A x : Covered(new, x) <=> Covered(front, x) \/ In(w, x)
    BY <2>3, <2>6, AppendCovers
  <2>8. \A x : Covered(rs, x) <=> Covered(front, x) \/ In(l, x)
    BY <2>1, <2>5, AppendCovers
  <2>9. \A x \in Nat : In(w, x) <=> In(l, x) \/ In(r, x)
    BY <1>0, <2>1, <2>2, <2>3 DEF In
  <2>10. Len(Asked(front)) \in Nat
         /\ Len(Asked(new)) = Len(Asked(front)) + HowMany(w.start, w.end)
    BY <2>3, <2>6, AskedAppend
  <2>11. Len(Asked(rs)) = Len(Asked(front)) + HowMany(l.start, l.end)
    BY <2>1, <2>5, AskedAppend
  <2>12. /\ HowMany(l.start, l.end) \in Nat /\ HowMany(r.start, r.end) \in Nat
         /\ HowMany(w.start, w.end) \in Nat
    BY <2>1, <2>3, HowManyNat
  <2>13. HowMany(w.start, w.end) <= HowMany(l.start, l.end) + HowMany(r.start, r.end)
    BY <1>0, <2>1, <2>2, <2>3, TogetherNoMore
  <2>14. /\ Len(Asked(rs)) \in Nat /\ Len(Asked(new)) \in Nat
         /\ Len(Asked(new)) <= Len(Asked(rs)) + HowMany(r.start, r.end)
    BY <2>10, <2>11, <2>12, <2>13
  <2> QED  BY <2>7, <2>8, <2>9, <2>14
<1>2. CASE ~(rs # <<>> /\ Last(rs).end = r.start)
  <2>1. new = Append(rs, r)
    BY <1>2 DEF JoinNext
  <2>2. new \in Seq(Rng) /\ \A x : Covered(new, x) <=> Covered(rs, x) \/ In(r, x)
    BY <2>1, AppendCovers
  <2>3. Len(Asked(rs)) \in Nat /\ Len(Asked(new)) = Len(Asked(rs)) + HowMany(r.start, r.end)
    BY <2>1, AskedAppend
  <2>4. HowMany(r.start, r.end) \in Nat
    BY HowManyNat
  <2> QED  BY <2>2, <2>3, <2>4
<1> QED  BY <1>1, <1>2

Runs(q) == FoldLeft(JoinNext, <<>>, q)

JoinedBy(acc, X, n, q) ==
  /\ acc \in [0..n -> X] /\ acc[0] = <<>> /\ acc[n] = Runs(q)
  /\ \A k \in 1..n : acc[k] = JoinNext(acc[k - 1], q[k])

LEMMA RunsFold ==
  ASSUME NEW X, NEW n \in Nat, NEW S, NEW q \in [1..n -> S], <<>> \in X,
         \A k \in 1..n : \A c \in X : JoinNext(c, q[k]) \in X
  PROVE  \E acc : JoinedBy(acc, X, n, q)
<1> DEFINE step == [k \in 1..n |-> [c \in X |-> JoinNext(c, q[k])]]
           Fold(g) == g = [t \in SUBSET (1..n) |->
                             IF t = {} THEN <<>>
                             ELSE JoinNext(g[t \ {Max(t)}], q[Max(t)])]
<1>1. step \in [1..n -> [X -> X]]
  OBVIOUS
<1>2. PICK g \in [SUBSET (1..n) -> X] : Iterates(g, step, <<>>, n)
  <2> HIDE DEF step
  <2> QED  BY <1>1, IterExists
<1>3. \E e : Fold(e)
  <2>0. StepsBy(g, X, step, <<>>, n)
    <3> HIDE DEF step
    <3> QED  BY <1>2, IterValues
  <2>1. ASSUME NEW t \in SUBSET (1..n)
        PROVE  g[t] = IF t = {} THEN <<>> ELSE JoinNext(g[t \ {Max(t)}], q[Max(t)])
    <3>1. CASE t = {}
      <4> HIDE DEF step
      <4> QED  BY <2>0, <3>1 DEF StepsBy
    <3>2. CASE t # {}
      <4>1. /\ Max(t) \in 1..n /\ g[t \ {Max(t)}] \in X
            /\ g[t] = step[Max(t)][g[t \ {Max(t)}]]
        <5> HIDE DEF step
        <5> QED  BY <2>0, <3>2 DEF StepsBy
      <4> QED  BY <3>2, <4>1
    <3> QED  BY <3>1, <3>2
  <2>2. g = [t \in SUBSET (1..n) |-> g[t]]  OBVIOUS
  <2>3. Fold(g)  BY <2>1, <2>2, Zenon
  <2> QED  BY <2>3
<1> DEFINE f == CHOOSE e : Fold(e)
<1>4. Fold(f)
  <2> HIDE DEF Fold
  <2> QED  BY <1>3
<1>5. Runs(q) = f[1..n]
  <2>1. DOMAIN q = 1..n  OBVIOUS
  <2> QED  BY <2>1, Zenon DEF Runs, FoldLeft, MapThenFoldSet
<1> HIDE DEF f
<1>6. f[{}] = <<>>
  <2>1. {} \in SUBSET (1..n)  OBVIOUS
  <2> QED  BY <1>4, <2>1
<1>7. ASSUME NEW k \in 1..n, f[1..(k - 1)] \in X
      PROVE  f[1..k] = step[k][f[1..(k - 1)]]
  <2>1. /\ Max(1..k) = k /\ (1..k) \ {Max(1..k)} = 1..(k - 1)
        /\ 1..k # {} /\ 1..k \in SUBSET (1..n)
    BY IterChain
  <2>2. f[1..k] = JoinNext(f[(1..k) \ {Max(1..k)}], q[Max(1..k)])
    BY <1>4, <2>1
  <2>3. f[1..k] = JoinNext(f[1..(k - 1)], q[k])
    BY <2>1, <2>2
  <2> QED  BY <1>7, <2>3
<1>8. PICK acc : Chained(acc, X, step, <<>>, n, f[1..n])
  <2> HIDE DEF step, Fold
  <2> QED  BY <1>1, <1>6, <1>7, ChainExists
<1>9. ASSUME NEW k \in 1..n  PROVE acc[k] = JoinNext(acc[k - 1], q[k])
  <2>1. acc[k - 1] \in X  BY <1>8 DEF Chained
  <2>2. acc[k] = step[k][acc[k - 1]]  BY <1>8 DEF Chained
  <2> QED  BY <2>1, <2>2
<1>10. acc \in [0..n -> X] /\ acc[0] = <<>> /\ acc[n] = f[1..n]
  BY <1>8 DEF Chained
<1> HIDE DEF step, Fold
<1>11. JoinedBy(acc, X, n, q)
  BY <1>5, <1>9, <1>10 DEF JoinedBy
<1> QED  BY <1>11

\* What flushIntQueue asks for, against the queue cut without joining.
LEMMA RunsAre ==
  ASSUME NEW q \in Seq(Rng)
  PROVE  /\ Runs(q) \in Seq(Rng) /\ BytesIn(Runs(q)) = BytesIn(q)
         /\ Len(Asked(Runs(q))) <= Len(Asked(q))
<1> DEFINE n == Len(q)
<1>0. /\ n \in Nat /\ q \in [1..n -> Rng] /\ <<>> \in Seq(Rng)
      /\ \A k \in 1..n : q[k] \in Rng
  OBVIOUS
<1>1. \A k \in 1..n : \A c \in Seq(Rng) : JoinNext(c, q[k]) \in Seq(Rng)
  BY <1>0, JoinNextIs
<1>2. PICK acc : JoinedBy(acc, Seq(Rng), n, q)
  <2> HIDE DEF n
  <2> QED  BY <1>0, <1>1, RunsFold
<1>3. /\ acc \in [0..n -> Seq(Rng)] /\ acc[0] = <<>> /\ acc[n] = Runs(q)
      /\ \A k \in 1..n : acc[k] = JoinNext(acc[k - 1], q[k])
  BY <1>2 DEF JoinedBy
<1>4. /\ Cuts(q) \in Seq(Seq(Rng)) /\ Len(Cuts(q)) = n
      /\ \A k \in 1..n : /\ Cuts(q)[k] \in Seq(Rng)
                         /\ Len(Cuts(q)[k]) = HowMany(q[k].start, q[k].end)
  BY CutsAre
<1>5. PICK bcc : Flattens(bcc, Rng, Cuts(q), Asked(q))
  BY <1>4, FlattenChain DEF Asked
<1>6. /\ bcc \in [0..n -> Seq(Rng)] /\ bcc[0] = <<>> /\ bcc[n] = Asked(q)
      /\ \A k \in 1..n : bcc[k] = bcc[k - 1] \o Cuts(q)[k]
  BY <1>4, <1>5 DEF Flattens
<1> HIDE DEF n
<1>7. ASSUME NEW k \in 0..n  PROVE acc[k] \in Seq(Rng) /\ bcc[k] \in Seq(Rng)
  BY <1>3, <1>6
<1>8. ASSUME NEW k \in 1..n
      PROVE  /\ k - 1 \in 0..n /\ k \in 0..n /\ Len(bcc[k - 1]) \in Nat
             /\ Len(bcc[k]) = Len(bcc[k - 1]) + HowMany(q[k].start, q[k].end)
  <2>1. k - 1 \in 0..n /\ k \in 0..n
    BY <1>0
  <2>2. bcc[k - 1] \in Seq(Rng) /\ Cuts(q)[k] \in Seq(Rng)
    BY <1>4, <1>7, <2>1
  <2>3. \A X : \A u, v \in Seq(X) : Len(u \o v) = Len(u) + Len(v) /\ Len(u) \in Nat
    OBVIOUS
  <2> QED  BY <1>4, <1>6, <2>1, <2>2, <2>3
<1> DEFINE Good(k) ==
             /\ Len(Asked(acc[k])) <= Len(bcc[k])
             /\ \A x \in Nat : Covered(acc[k], x) <=> \E i \in 1..k : In(q[i], x)
           T == {k \in 0..n : Good(k)}
<1>9. 0 \in T
  <2>1. Asked(acc[0]) = <<>>
    <3>1. \A i : i \in DOMAIN acc[0] => FALSE
      BY <1>3
    <3>2. Cuts(acc[0]) = <<>>
      BY <1>3 DEF Cuts
    <3>3. FlattenSeq(<<>>) = <<>>
      BY DEF FlattenSeq
    <3> QED  BY <3>2, <3>3 DEF Asked
  <2>2. \A x : ~Covered(acc[0], x)
    BY <1>3 DEF Covered
  <2> QED  BY <1>0, <1>3, <1>6, <2>1, <2>2
<1>10. ASSUME NEW k \in 1..n, k - 1 \in T  PROVE k \in T
  <2>1. Good(k - 1)
    BY <1>10
  <2>2. acc[k - 1] \in Seq(Rng) /\ q[k] \in Rng /\ acc[k] = JoinNext(acc[k - 1], q[k])
    BY <1>0, <1>3, <1>7, <1>8
  <2>3. /\ \A x \in Nat : Covered(acc[k], x) <=> Covered(acc[k - 1], x) \/ In(q[k], x)
        /\ Len(Asked(acc[k - 1])) \in Nat /\ Len(Asked(acc[k])) \in Nat
        /\ Len(Asked(acc[k])) <= Len(Asked(acc[k - 1])) + HowMany(q[k].start, q[k].end)
    BY <2>2, JoinNextIs
  <2>4. HowMany(q[k].start, q[k].end) \in Nat
    BY <2>2, HowManyNat
  <2>5. Len(Asked(acc[k])) <= Len(bcc[k])
    BY <1>8, <2>1, <2>3, <2>4
  <2>6. \A i : i \in 1..k <=> i \in 1..(k - 1) \/ i = k
    BY <1>0
  <2>7. ASSUME NEW x \in Nat
        PROVE  Covered(acc[k], x) <=> \E i \in 1..k : In(q[i], x)
    BY <2>1, <2>3, <2>6
  <2> HIDE DEF Good
  <2>8. Good(k)
    BY <2>5, <2>7 DEF Good
  <2> QED  BY <1>8, <2>8
<1>11. Good(n)
  <2> HIDE DEF Good
  <2>1. \A k \in 1..n : k - 1 \in T => k \in T  BY <1>10
  <2>2. \A k \in 0..n : k \in T
    <3> HIDE DEF T
    <3> QED  BY <1>0, <1>9, <2>1, Induct
  <2>3. n \in 0..n  BY <1>0
  <2> QED  BY <2>2, <2>3
<1>12. Runs(q) \in Seq(Rng) /\ Len(Asked(Runs(q))) <= Len(Asked(q))
  <2>1. n \in 0..n  BY <1>0
  <2> QED  BY <1>3, <1>6, <1>7, <1>11, <2>1
<1>13. \A x : x \in BytesIn(Runs(q)) <=> x \in Nat /\ Covered(Runs(q), x)
  BY <1>12, RngBytes
<1>14. \A x : x \in BytesIn(q) <=> x \in Nat /\ Covered(q, x)
  BY RngBytes
<1>15. \A x \in Nat : Covered(Runs(q), x) <=> Covered(q, x)
  BY <1>3, <1>11 DEF Covered, n
<1> QED  BY <1>12, <1>13, <1>14, <1>15

LEMMA HoleBytes ==
  ASSUME NEW H \in Seq(Hole)
  PROVE  \A x : x \in BytesIn(H) <=> x \in Nat /\ Covered(H, x)
<1>1. Len(H) \in Nat /\ DOMAIN H = 1..Len(H)
  OBVIOUS
<1>2. \A i \in 1..Len(H) : H[i] \in Hole
  OBVIOUS
<1>3. \A i \in 1..Len(H) : H[i].start \in Nat /\ H[i].end \in Nat
  BY <1>2 DEF Hole
<1> QED  BY <1>1, <1>3, BytesInIs

LEMMA InsertIs ==
  ASSUME NEW H \in Seq(Hole), Sorted(H), NEW a \in Nat, NEW b \in Nat, a < b,
         \A i \in 1..Len(H) : H[i].end <= a,
         NEW D, D = InsertDataHole(H, a, b)
  PROVE  /\ D \in Seq(Hole) /\ Sorted(D)
         /\ \A i \in 1..Len(D) : D[i].end <= b
         /\ BytesIn(D) = BytesIn(H) \cup BytesOf(ByteRange(a, b))
<1> DEFINE h == [start |-> a, end |-> b, age |-> 0]
           n == Len(H)
<1>1. h \in Hole /\ h.start = a /\ h.end = b
  BY DEF Hole
<1> HIDE DEF h
<1>2. D = Append(H, h)
  BY DEF InsertDataHole, h
<1>3. /\ D \in Seq(Hole) /\ Len(D) = n + 1 /\ n \in Nat
      /\ \A i \in 1..n : D[i] = H[i]
      /\ D[n + 1] = h
  BY <1>1, <1>2
<1>4. \A i \in 1..n : H[i].end <= a /\ H[i].end \in Nat
  <2>1. \A i \in 1..n : H[i] \in Hole  OBVIOUS
  <2> QED  BY <2>1 DEF Hole
<1> HIDE DEF n
<1>5. \A i \in 1..(n + 1) : i \in 1..n \/ i = n + 1
  BY <1>3
<1>6. n + 1 \in 1..(n + 1) /\ \A i \in 1..n : i \in 1..(n + 1)
  BY <1>3
<1>7. Sorted(D)
  <2> SUFFICES ASSUME NEW i \in 1..(n + 1), NEW j \in 1..(n + 1), i < j
               PROVE  D[i].end <= D[j].start
    BY <1>3 DEF Sorted
  <2>1. i \in 1..n
    BY <1>3
  <2>2. CASE j \in 1..n
    BY <1>3, <2>1, <2>2 DEF Sorted, n
  <2>3. CASE j = n + 1
    BY <1>1, <1>3, <1>4, <2>1, <2>3
  <2> QED  BY <1>5, <2>2, <2>3
<1>8. ASSUME NEW i \in 1..Len(D)  PROVE D[i].end <= b
  <2>1. CASE i \in 1..n
    BY <1>3, <1>4, <2>1
  <2>2. CASE i = n + 1
    BY <1>1, <1>3, <2>2
  <2> QED  BY <1>3, <1>5, <2>1, <2>2
<1>9. \A x : x \in BytesOf(ByteRange(a, b)) <=> x \in Nat /\ In(h, x)
  BY <1>1 DEF BytesOf, ByteRange, In
<1>10. \A x : Covered(D, x) <=> Covered(H, x) \/ In(h, x)
  <2>1. \A x : Covered(D, x) <=> \E i \in 1..(n + 1) : In(D[i], x)
    BY <1>3 DEF Covered
  <2>2. \A x : Covered(H, x) <=> \E i \in 1..n : In(H[i], x)
    BY DEF Covered, n
  <2> QED  BY <1>3, <1>5, <1>6, <2>1, <2>2
<1>11. \A x : x \in BytesIn(D) <=> x \in Nat /\ Covered(D, x)
  BY <1>3, HoleBytes
<1>12. \A x : x \in BytesIn(H) <=> x \in Nat /\ Covered(H, x)
  BY HoleBytes
<1>13. BytesIn(D) = BytesIn(H) \cup BytesOf(ByteRange(a, b))
  BY <1>9, <1>10, <1>11, <1>12
<1> QED  BY <1>3, <1>7, <1>8, <1>13

-----------------------------------------------------------------------------
(***************************************************************************)
(* HoleList.  The inductive invariant: the holes are sorted and all behind *)
(* the end of the stream, so that the next one may be appended.            *)
(***************************************************************************)
ListInv ==
  /\ next \in Nat
  /\ holes \in Seq(Hole) /\ Sorted(holes)
  /\ \A i \in 1..Len(holes) : holes[i].end <= next
  /\ BytesIn(holes) = missing
  /\ intQueue \in Seq(Ranges)

LEMMA RangesAre ==
  ASSUME NEW r \in Ranges
  PROVE  /\ r \in Rng /\ r.start \in Nat /\ r.end \in Nat /\ r.start < r.end
         /\ \A x : x \in BytesOf(r) <=> x \in Nat /\ r.start <= x /\ x < r.end
<1>1. r.start \in 0..Limit /\ r.end \in 0..Limit /\ r.start < r.end
      /\ r = [start |-> r.start, end |-> r.end]
  BY DEF Ranges
<1>2. r.start \in Nat /\ r.end \in Nat
  BY <1>1
<1>3. r \in Rng
  BY <1>1, <1>2 DEF Rng
<1> QED  BY <1>1, <1>2, <1>3 DEF BytesOf

LEMMA StartsSorted == ListInit => ListInv
<1> SUFFICES ASSUME ListInit  PROVE ListInv
  OBVIOUS
<1>1. next \in Nat /\ holes = <<>> /\ missing = {} /\ intQueue = <<>>
  BY DEF ListInit
<1>2. holes \in Seq(Hole) /\ Len(holes) = 0 /\ DOMAIN holes = {}
  BY <1>1
<1>3. BytesIn(holes) = {}
  BY <1>2 DEF BytesIn
<1>4. Sorted(holes)
  BY <1>2 DEF Sorted
<1>5. intQueue \in Seq(Ranges)
  BY <1>1
<1> QED  BY <1>1, <1>2, <1>3, <1>4, <1>5 DEF ListInv

LEMMA StaysSorted == ListInv /\ [ListNext]_listVars => ListInv'
<1> SUFFICES ASSUME ListInv, [ListNext]_listVars  PROVE ListInv'
  OBVIOUS
<1>0. /\ next \in Nat /\ holes \in Seq(Hole) /\ Sorted(holes)
      /\ \A i \in 1..Len(holes) : holes[i].end <= next
      /\ BytesIn(holes) = missing /\ intQueue \in Seq(Ranges)
  BY DEF ListInv
<1>ends. \A i \in 1..Len(holes) : holes[i].end \in Nat
  <2>1. \A i \in 1..Len(holes) : holes[i] \in Hole  BY <1>0
  <2> QED  BY <2>1 DEF Hole
<1>frame. BytesIn(holes)' = BytesIn(holes')  /\ Sorted(holes)' = Sorted(holes')
  BY DEF BytesIn, Sorted
<1>nat. \A c \in 0..Limit : c \in Nat
  OBVIOUS
<1>1. ASSUME NEW b \in 0..Limit, NEW c \in 0..Limit, Insert(b, c)
      PROVE  ListInv'
  <2>1. /\ next < b /\ b < c /\ next' = c /\ intQueue' = intQueue
        /\ holes' = InsertDataHole(holes, next, b)
        /\ missing' = missing \cup BytesOf(ByteRange(next, b))
    BY <1>1 DEF Insert
  <2>2. b \in Nat /\ c \in Nat
    BY <1>nat
  <2>3. /\ holes' \in Seq(Hole) /\ Sorted(holes')
        /\ \A i \in 1..Len(holes') : holes'[i].end <= b
        /\ BytesIn(holes') = BytesIn(holes) \cup BytesOf(ByteRange(next, b))
    BY <1>0, <2>1, <2>2, InsertIs
  <2>4. \A i \in 1..Len(holes') : holes'[i].end <= next'
    <3>1. \A i \in 1..Len(holes') : holes'[i] \in Hole  BY <2>3
    <3>2. \A i \in 1..Len(holes') : holes'[i].end \in Nat  BY <3>1 DEF Hole
    <3> QED  BY <2>1, <2>2, <2>3, <3>2
  <2> QED  BY <1>0, <1>frame, <2>1, <2>2, <2>3, <2>4 DEF ListInv
<1>2. ASSUME NEW c \in 0..Limit, Continue(c)
      PROVE  ListInv'
  <2>1. next < c /\ next' = c /\ holes' = holes /\ missing' = missing /\ intQueue' = intQueue
    BY <1>2 DEF Continue
  <2>2. c \in Nat
    BY <1>nat
  <2>3. \A i \in 1..Len(holes') : holes'[i].end <= next'
    BY <1>0, <1>ends, <2>1, <2>2
  <2> QED  BY <1>0, <1>frame, <2>1, <2>2, <2>3 DEF ListInv
<1>3. ASSUME NEW r \in Ranges, Delete(r)
      PROVE  ListInv'
  <2>1. /\ holes' = DeleteDataHole(holes, r.start, r.end)
        /\ missing' = missing \ BytesOf(r) /\ next' = next /\ intQueue' = intQueue
    BY <1>3 DEF Delete
  <2>2. /\ r.start \in Nat /\ r.end \in Nat /\ r.start < r.end
        /\ \A x : x \in BytesOf(r) <=> x \in Nat /\ r.start <= x /\ x < r.end
    BY RangesAre
  <2>3. /\ holes' \in Seq(Hole) /\ Sorted(holes')
        /\ \A x \in Nat : (\E i \in 1..Len(holes') : In(holes'[i], x)) <=>
             (\E i \in 1..Len(holes) : In(holes[i], x)) /\ ~(r.start <= x /\ x < r.end)
        /\ \A i \in 1..Len(holes') : \E k \in 1..Len(holes) : holes'[i].end <= holes[k].end
    <3> DEFINE a == r.start
               b == r.end
               D == holes'
    <3>1. a \in Nat /\ b \in Nat /\ a < b /\ D = DeleteDataHole(holes, a, b)
      BY <2>1, <2>2
    <3> HIDE DEF a, b, D
    <3>2. /\ D \in Seq(Hole) /\ Sorted(D)
          /\ \A x \in Nat : (\E i \in 1..Len(D) : In(D[i], x)) <=>
               (\E i \in 1..Len(holes) : In(holes[i], x)) /\ ~(a <= x /\ x < b)
      BY <1>0, <3>1, DeleteIs
    <3>3. \A i \in 1..Len(D) : \E k \in 1..Len(holes) : PartOf(D[i], holes[k])
      BY <1>0, <3>1, DeleteIs
    <3>4. \A i \in 1..Len(D) : \E k \in 1..Len(holes) : D[i].end <= holes[k].end
      BY <3>3 DEF PartOf
    <3> QED  BY <3>2, <3>4 DEF a, b, D
  <2>4. \A x \in Nat : Covered(holes', x) <=> Covered(holes, x) /\ ~(r.start <= x /\ x < r.end)
    BY <2>3 DEF Covered
  <2>5. \A x : x \in BytesIn(holes') <=> x \in Nat /\ Covered(holes', x)
    BY <2>3, HoleBytes
  <2>6. \A x : x \in BytesIn(holes) <=> x \in Nat /\ Covered(holes, x)
    BY <1>0, HoleBytes
  <2>7. BytesIn(holes') = BytesIn(holes) \ BytesOf(r)
    BY <2>2, <2>4, <2>5, <2>6
  <2>8. \A i \in 1..Len(holes') : holes'[i].end <= next'
    <3>1. \A i \in 1..Len(holes') : holes'[i] \in Hole  BY <2>3
    <3>2. \A i \in 1..Len(holes') : holes'[i].end \in Nat  BY <3>1 DEF Hole
    <3>3. ASSUME NEW i \in 1..Len(holes')  PROVE holes'[i].end <= next
      <4>1. PICK k \in 1..Len(holes) : holes'[i].end <= holes[k].end  BY <2>3
      <4>2. holes[k].end <= next /\ holes[k].end \in Nat  BY <1>0, <1>ends
      <4>3. holes'[i].end \in Nat  BY <3>2
      <4> QED  BY <1>0, <4>1, <4>2, <4>3
    <3> QED  BY <2>1, <3>3
  <2> QED  BY <1>0, <1>frame, <2>1, <2>3, <2>7, <2>8 DEF ListInv
<1>4. ASSUME NEW r \in Ranges, Request(r)
      PROVE  ListInv'
  <2>1. /\ intQueue' = Append(intQueue, r)
        /\ next' = next /\ holes' = holes /\ missing' = missing
    BY <1>4 DEF Request
  <2>2. intQueue' \in Seq(Ranges)
    BY <1>0, <2>1
  <2>3. \A i \in 1..Len(holes') : holes'[i].end <= next'
    BY <1>0, <2>1
  <2> QED  BY <1>0, <1>frame, <2>1, <2>2, <2>3 DEF ListInv
<1>5. CASE UNCHANGED listVars
  <2>1. next' = next /\ holes' = holes /\ missing' = missing /\ intQueue' = intQueue
    BY <1>5 DEF listVars
  <2> QED  BY <1>0, <1>frame, <2>1 DEF ListInv
<1> QED  BY <1>1, <1>2, <1>3, <1>4, <1>5 DEF ListNext

\* The list of holes that sessions build (insertDataHole, deleteDataHole) stays
\* sorted, disjoint and behind dataNextRangeStart, for every stream and MSS.
THEOREM ListInvariance == ListSpec => []ListInv
<1> QED  BY StartsSorted, StaysSorted, PTL DEF ListSpec

\* deleteDataHole takes exactly its range out of the list, although it stops at
\* the first hole behind it, and leaves it sorted, with no empty hole.
THEOREM ListHolesSound == ListSpec => []HolesSound
<1>1. ListInv => HolesSound
  <2> SUFFICES ASSUME ListInv  PROVE HolesSound
    OBVIOUS
  <2>1. holes \in Seq(Hole) /\ Sorted(holes) /\ BytesIn(holes) = missing
    BY DEF ListInv
  <2>2. DOMAIN holes = 1..Len(holes) /\ \A i \in 1..Len(holes) : holes[i] \in Hole
    BY <2>1
  <2>3. \A i \in DOMAIN holes : holes[i].start < holes[i].end
    BY <2>2 DEF Hole
  <2>4. \A i, j \in DOMAIN holes : i < j => holes[i].end <= holes[j].start
    BY <2>1, <2>2 DEF Sorted
  <2> QED  BY <2>1, <2>3, <2>4 DEF HolesSound
<1> QED  BY <1>1, ListInvariance, PTL

\* flushIntQueue asks for exactly the bytes of the queued interests, however
\* it joins and cuts them, in no more interests than without joining.
THEOREM ListInterestsCoverQueue == ListSpec => []InterestsCoverQueue
<1>1. ListInv => InterestsCoverQueue
  <2> SUFFICES ASSUME ListInv  PROVE InterestsCoverQueue
    OBVIOUS
  <2> DEFINE q == intQueue
             out == FlushIntQueue(q)
  <2>1. q \in Seq(Rng)
    <3>1. q \in Seq(Ranges)  BY DEF ListInv
    <3>2. Ranges \subseteq Rng  BY RangesAre
    <3> QED  BY <3>1, <3>2
  <2> HIDE DEF q
  <2>2. /\ Runs(q) \in Seq(Rng) /\ BytesIn(Runs(q)) = BytesIn(q)
        /\ Len(Asked(Runs(q))) <= Len(Asked(q))
    BY <2>1, RunsAre
  <2>3. out = Asked(Runs(q))
    BY DEF FlushIntQueue, Runs, Asked, Cuts
  <2>4. Asked(q) = FlattenSeq([i \in DOMAIN q |-> Pieces(q[i].start, q[i].end)])
    BY DEF Asked, Cuts
  <2> HIDE DEF out
  <2>5. /\ out \in Seq(Rng) /\ BytesIn(out) = BytesIn(q)
        /\ \A i \in 1..Len(out) : out[i].end - out[i].start \in 1..MSS
    BY <2>2, <2>3, AskedCovers
  <2>6. DOMAIN out = 1..Len(out)
    BY <2>5
  <2>7. Len(out) <= Len(Asked(q))
    BY <2>2, <2>3
  <2> QED  BY <2>4, <2>5, <2>6, <2>7 DEF InterestsCoverQueue, out, q
<1> QED  BY <1>1, ListInvariance, PTL

\* parseInt answers from the cache, or passes on, each byte of an interest
\* once, whatever is cached.
THEOREM ListAnswerSplits == ListSpec => []AnswerSplits
<1>1. AnswerSplits
  <2> DEFINE held == (0..(next - 1)) \ missing
  <2>1. ASSUME NEW r \in Ranges
        PROVE  LET a == Answer(held, r)
               IN /\ BytesIn(a.sent) \subseteq held
                  /\ BytesIn(a.sent) \cup BytesIn(a.rest) = BytesOf(r)
                  /\ \A i \in DOMAIN a.rest :
                       /\ a.rest[i].start \notin held
                       /\ \A b \in BytesIn(a.sent) : b < a.rest[i].start
                  /\ \A i, j \in DOMAIN a.sent :
                       i < j => a.sent[i].end = a.sent[i + 1].start
    <3> HIDE DEF held
    <3>1. r.start \in Nat /\ r.end \in Nat /\ r.start < r.end
      BY RangesAre
    <3> QED  BY <3>1, AnswerIs
  <2> QED  BY <2>1 DEF AnswerSplits
<1> QED  BY <1>1, PTL

-----------------------------------------------------------------------------
(***************************************************************************)
(* The holes of a session as the set of missing bytes with their ages.     *)
(***************************************************************************)
MissOf(H) == UNION {BytesOf(H[i]) \X {H[i].age} : i \in DOMAIN H}

HolesOK(H, lo, e) ==
  /\ H \in Seq(Hole) /\ Sorted(H)
  /\ \A i \in 1..Len(H) : lo <= H[i].start /\ H[i].end <= e

LEMMA HoleFields ==
  ASSUME NEW H \in Seq(Hole)
  PROVE  /\ Len(H) \in Nat /\ DOMAIN H = 1..Len(H)
         /\ \A i \in 1..Len(H) : /\ H[i] \in Hole /\ H[i].age \in Nat
                                 /\ H[i].start \in Nat /\ H[i].end \in Nat
                                 /\ H[i].start < H[i].end
<1>1. Len(H) \in Nat /\ DOMAIN H = 1..Len(H) /\ \A i \in 1..Len(H) : H[i] \in Hole
  OBVIOUS
<1> QED  BY <1>1 DEF Hole

LEMMA MissIs ==
  ASSUME NEW H \in Seq(Hole)
  PROVE  \A m : m \in MissOf(H) <=>
                  \E i \in 1..Len(H) : \E x \in Nat : In(H[i], x) /\ m = <<x, H[i].age>>
<1>1. /\ Len(H) \in Nat /\ DOMAIN H = 1..Len(H)
      /\ \A i \in 1..Len(H) : H[i].start \in Nat /\ H[i].end \in Nat
  BY HoleFields
<1>2. ASSUME NEW i \in 1..Len(H)
      PROVE  \A x : x \in BytesOf(H[i]) <=> x \in Nat /\ In(H[i], x)
  <2>1. H[i].start \in Nat /\ H[i].end \in Nat
    BY <1>1
  <2> QED  BY <2>1 DEF BytesOf, In
<1>3. \A m : m \in MissOf(H) <=>
        \E i \in 1..Len(H) : m \in BytesOf(H[i]) \X {H[i].age}
  BY <1>1 DEF MissOf
<1>4. ASSUME NEW i \in 1..Len(H), NEW m
      PROVE  m \in BytesOf(H[i]) \X {H[i].age} <=>
             \E x \in Nat : In(H[i], x) /\ m = <<x, H[i].age>>
  <2> DEFINE B == BytesOf(H[i])
             g == H[i].age
  <2>1. m \in B \X {g} <=> \E x \in B : m = <<x, g>>
    <3> HIDE DEF B, g
    <3> QED  OBVIOUS
  <2> QED  BY <1>2, <2>1
<1> QED  BY <1>3, <1>4

\* A byte lies in one hole of a sorted list.
LEMMA OneHole ==
  ASSUME NEW H \in Seq(Hole), Sorted(H), NEW i \in 1..Len(H), NEW j \in 1..Len(H),
         NEW x \in Nat, In(H[i], x), In(H[j], x)
  PROVE  i = j
<1>1. /\ Len(H) \in Nat
      /\ H[i].start \in Nat /\ H[i].end \in Nat /\ H[j].start \in Nat /\ H[j].end \in Nat
  BY HoleFields
<1>2. ~(i < j)
  BY <1>1 DEF Sorted, In
<1>3. ~(j < i)
  BY <1>1 DEF Sorted, In
<1> QED  BY <1>1, <1>2, <1>3

LEMMA DeleteMiss ==
  ASSUME NEW lo \in Nat, NEW e \in Int, NEW H, HolesOK(H, lo, e),
         NEW a \in Nat, NEW b \in Nat, a < b, NEW D, D = DeleteDataHole(H, a, b)
  PROVE  /\ HolesOK(D, lo, e)
         /\ MissOf(D) = {m \in MissOf(H) : m[1] \notin a..(b - 1)}
<1>1. H \in Seq(Hole) /\ Sorted(H) /\ \A i \in 1..Len(H) : lo <= H[i].start /\ H[i].end <= e
  BY DEF HolesOK
<1>2. /\ D \in Seq(Hole) /\ Sorted(D)
      /\ \A x \in Nat : (\E i \in 1..Len(D) : In(D[i], x)) <=>
                        (\E i \in 1..Len(H) : In(H[i], x)) /\ ~(a <= x /\ x < b)
      /\ \A i \in 1..Len(D) : \E k \in 1..Len(H) : PartOf(D[i], H[k])
  BY <1>1, DeleteIs
<1>3. \A i \in 1..Len(D) : D[i].start \in Nat /\ D[i].end \in Nat
  BY <1>2, HoleFields
<1>4. \A i \in 1..Len(H) : H[i].start \in Nat /\ H[i].end \in Nat
  BY <1>1, HoleFields
<1>5. ASSUME NEW i \in 1..Len(D)  PROVE lo <= D[i].start /\ D[i].end <= e
  <2>1. PICK k \in 1..Len(H) : PartOf(D[i], H[k])
    BY <1>2
  <2> QED  BY <1>1, <1>3, <1>4, <2>1 DEF PartOf
<1>6. \A m : m \in MissOf(H) <=>
        \E i \in 1..Len(H) : \E x \in Nat : In(H[i], x) /\ m = <<x, H[i].age>>
  BY <1>1, MissIs
<1>7. \A m : m \in MissOf(D) <=>
        \E i \in 1..Len(D) : \E x \in Nat : In(D[i], x) /\ m = <<x, D[i].age>>
  BY <1>2, MissIs
<1>8. ASSUME NEW m \in MissOf(D)
      PROVE  m \in MissOf(H) /\ m[1] \notin a..(b - 1)
  <2>1. PICK i \in 1..Len(D), x \in Nat : In(D[i], x) /\ m = <<x, D[i].age>>
    BY <1>7, <1>8
  <2>2. PICK k \in 1..Len(H) : PartOf(D[i], H[k])
    BY <1>2
  <2>3. In(H[k], x) /\ D[i].age = H[k].age
    BY <1>3, <1>4, <2>1, <2>2 DEF PartOf, In
  <2>4. ~(a <= x /\ x < b)
    BY <1>2, <2>1
  <2>5. m \in MissOf(H)
    BY <1>6, <2>1, <2>3
  <2> QED  BY <2>1, <2>4, <2>5
<1>9. ASSUME NEW m \in MissOf(H), m[1] \notin a..(b - 1)
      PROVE  m \in MissOf(D)
  <2>1. PICK k \in 1..Len(H), x \in Nat : In(H[k], x) /\ m = <<x, H[k].age>>
    BY <1>6, <1>9
  <2>2. ~(a <= x /\ x < b)
    BY <1>9, <2>1
  <2>3. PICK i \in 1..Len(D) : In(D[i], x)
    BY <1>2, <2>1, <2>2
  <2>4. PICK l \in 1..Len(H) : PartOf(D[i], H[l])
    BY <1>2
  <2>5. In(H[l], x) /\ D[i].age = H[l].age
    BY <1>3, <1>4, <2>3, <2>4 DEF PartOf, In
  <2>6. l = k
    BY <1>1, <2>1, <2>5, OneHole
  <2> QED  BY <1>7, <2>1, <2>3, <2>5, <2>6
<1> QED  BY <1>1, <1>2, <1>5, <1>8, <1>9 DEF HolesOK

LEMMA InsertMiss ==
  ASSUME NEW lo \in Nat, NEW a \in Nat, NEW H, HolesOK(H, lo, a), lo <= a,
         NEW b \in Nat, a < b, NEW D, D = InsertDataHole(H, a, b)
  PROVE  /\ HolesOK(D, lo, b)
         /\ MissOf(D) = MissOf(H) \cup ((a..(b - 1)) \X {0})
<1> DEFINE h == [start |-> a, end |-> b, age |-> 0]
           n == Len(H)
<1>1. H \in Seq(Hole) /\ Sorted(H) /\ \A i \in 1..Len(H) : lo <= H[i].start /\ H[i].end <= a
  BY DEF HolesOK
<1>2. D \in Seq(Hole) /\ Sorted(D) /\ \A i \in 1..Len(D) : D[i].end <= b
  BY <1>1, InsertIs
<1>3. h \in Hole /\ h.start = a /\ h.end = b /\ h.age = 0
  BY DEF Hole
<1> HIDE DEF h
<1>4. D = Append(H, h)
  BY DEF InsertDataHole, h
<1>5. /\ Len(D) = n + 1 /\ n \in Nat
      /\ \A i \in 1..n : D[i] = H[i]
      /\ D[n + 1] = h
  BY <1>1, <1>3, <1>4
<1> HIDE DEF n
<1>6. /\ \A i \in 1..(n + 1) : i \in 1..n \/ i = n + 1
      /\ n + 1 \in 1..(n + 1) /\ \A i \in 1..n : i \in 1..(n + 1)
  BY <1>5
<1>7. \A i \in 1..Len(D) : lo <= D[i].start
  BY <1>1, <1>3, <1>5, <1>6 DEF n
<1>8. \A m : m \in MissOf(H) <=>
        \E i \in 1..n : \E x \in Nat : In(H[i], x) /\ m = <<x, H[i].age>>
  BY <1>1, MissIs DEF n
<1>9. ASSUME NEW m
      PROVE  m \in MissOf(D) <=>
               \E i \in 1..(n + 1) : \E x \in Nat : In(D[i], x) /\ m = <<x, D[i].age>>
  <2> DEFINE At(i) == \E x \in Nat : In(D[i], x) /\ m = <<x, D[i].age>>
  <2>1. m \in MissOf(D) <=> \E i \in 1..Len(D) : At(i)
    BY <1>2, MissIs
  <2> HIDE DEF At
  <2>2. m \in MissOf(D) <=> \E i \in 1..(n + 1) : At(i)
    BY <1>5, <2>1
  <2> QED  BY <2>2 DEF At
<1>10. ASSUME NEW m
       PROVE  m \in MissOf(D) <=>
                m \in MissOf(H) \/ \E x \in Nat : In(h, x) /\ m = <<x, 0>>
  <2> DEFINE At(d) == \E x \in Nat : In(d, x) /\ m = <<x, d.age>>
  <2>1. m \in MissOf(D) <=> \E i \in 1..(n + 1) : At(D[i])
    BY <1>9
  <2>2. m \in MissOf(H) <=> \E i \in 1..n : At(H[i])
    BY <1>8
  <2>3. At(h) <=> \E x \in Nat : In(h, x) /\ m = <<x, 0>>
    BY <1>3
  <2> HIDE DEF At
  <2>4. (\E i \in 1..(n + 1) : At(D[i])) <=> (\E i \in 1..n : At(H[i])) \/ At(h)
    BY <1>5, <1>6
  <2> QED  BY <2>1, <2>2, <2>3, <2>4
<1>11. \A m : (\E x \in Nat : In(h, x) /\ m = <<x, 0>>) <=> m \in (a..(b - 1)) \X {0}
  <2>1. \A x : x \in a..(b - 1) <=> x \in Nat /\ In(h, x)
    BY <1>3 DEF In
  <2> DEFINE B == a..(b - 1)
  <2>2. \A m : m \in B \X {0} <=> \E x \in B : m = <<x, 0>>
    <3> HIDE DEF B
    <3> QED  OBVIOUS
  <2> QED  BY <2>1, <2>2
<1> QED  BY <1>2, <1>7, <1>10, <1>11 DEF HolesOK

-----------------------------------------------------------------------------
(***************************************************************************)
(* Taking a sequence of ranges out of the holes, one after the other.      *)
(***************************************************************************)
DeletedBy(acc, X, H, n, q) ==
  /\ acc \in [0..n -> X] /\ acc[0] = H /\ acc[n] = DeleteDataHoles(H, q)
  /\ \A k \in 1..n : acc[k] = DeleteDataHole(acc[k - 1], q[k].start, q[k].end)

LEMMA DeleteFold ==
  ASSUME NEW X, NEW n \in Nat, NEW S, NEW q \in [1..n -> S], NEW H \in X,
         \A k \in 1..n : \A c \in X : DeleteDataHole(c, q[k].start, q[k].end) \in X
  PROVE  \E acc : DeletedBy(acc, X, H, n, q)
<1> DEFINE step == [k \in 1..n |-> [c \in X |-> DeleteDataHole(c, q[k].start, q[k].end)]]
           Fold(g) == g = [t \in SUBSET (1..n) |->
                             IF t = {} THEN H
                             ELSE DeleteDataHole(g[t \ {Max(t)}], q[Max(t)].start, q[Max(t)].end)]
<1>1. step \in [1..n -> [X -> X]]
  OBVIOUS
<1>2. PICK g \in [SUBSET (1..n) -> X] : Iterates(g, step, H, n)
  <2> HIDE DEF step
  <2> QED  BY <1>1, IterExists
<1>3. \E e : Fold(e)
  <2>0. StepsBy(g, X, step, H, n)
    <3> HIDE DEF step
    <3> QED  BY <1>2, IterValues
  <2>1. ASSUME NEW t \in SUBSET (1..n)
        PROVE  g[t] = IF t = {} THEN H
                      ELSE DeleteDataHole(g[t \ {Max(t)}], q[Max(t)].start, q[Max(t)].end)
    <3>1. CASE t = {}
      <4> HIDE DEF step
      <4> QED  BY <2>0, <3>1 DEF StepsBy
    <3>2. CASE t # {}
      <4>1. /\ Max(t) \in 1..n /\ g[t \ {Max(t)}] \in X
            /\ g[t] = step[Max(t)][g[t \ {Max(t)}]]
        <5> HIDE DEF step
        <5> QED  BY <2>0, <3>2 DEF StepsBy
      <4> QED  BY <3>2, <4>1
    <3> QED  BY <3>1, <3>2
  <2>2. g = [t \in SUBSET (1..n) |-> g[t]]  OBVIOUS
  <2>3. Fold(g)  BY <2>1, <2>2, Zenon
  <2> QED  BY <2>3
<1> DEFINE f == CHOOSE e : Fold(e)
<1>4. Fold(f)
  <2> HIDE DEF Fold
  <2> QED  BY <1>3
<1>5. DeleteDataHoles(H, q) = f[1..n]
  <2>1. DOMAIN q = 1..n  OBVIOUS
  <2> QED  BY <2>1, Zenon DEF DeleteDataHoles, FoldLeft, MapThenFoldSet
<1> HIDE DEF f
<1>6. f[{}] = H
  <2>1. {} \in SUBSET (1..n)  OBVIOUS
  <2> QED  BY <1>4, <2>1
<1>7. ASSUME NEW k \in 1..n, f[1..(k - 1)] \in X
      PROVE  f[1..k] = step[k][f[1..(k - 1)]]
  <2>1. /\ Max(1..k) = k /\ (1..k) \ {Max(1..k)} = 1..(k - 1)
        /\ 1..k # {} /\ 1..k \in SUBSET (1..n)
    BY IterChain
  <2>2. f[1..k] = DeleteDataHole(f[(1..k) \ {Max(1..k)}], q[Max(1..k)].start, q[Max(1..k)].end)
    BY <1>4, <2>1
  <2>3. f[1..k] = DeleteDataHole(f[1..(k - 1)], q[k].start, q[k].end)
    BY <2>1, <2>2
  <2> QED  BY <1>7, <2>3
<1>8. PICK acc : Chained(acc, X, step, H, n, f[1..n])
  <2> HIDE DEF step, Fold
  <2> QED  BY <1>1, <1>6, <1>7, ChainExists
<1>9. ASSUME NEW k \in 1..n
      PROVE  acc[k] = DeleteDataHole(acc[k - 1], q[k].start, q[k].end)
  <2>1. acc[k - 1] \in X  BY <1>8 DEF Chained
  <2>2. acc[k] = step[k][acc[k - 1]]  BY <1>8 DEF Chained
  <2> QED  BY <2>1, <2>2
<1>10. acc \in [0..n -> X] /\ acc[0] = H /\ acc[n] = f[1..n]
  BY <1>8 DEF Chained
<1> HIDE DEF step, Fold
<1>11. DeletedBy(acc, X, H, n, q)
  BY <1>5, <1>9, <1>10 DEF DeletedBy
<1> QED  BY <1>11

LEMMA RngFields ==
  ASSUME NEW q \in Seq(Rng)
  PROVE  /\ Len(q) \in Nat /\ q \in [1..Len(q) -> Rng]
         /\ \A k \in 1..Len(q) : /\ q[k] \in Rng /\ q[k].start \in Nat /\ q[k].end \in Nat
                                 /\ q[k].start < q[k].end
<1>1. Len(q) \in Nat /\ q \in [1..Len(q) -> Rng] /\ \A i \in 1..Len(q) : q[i] \in Rng
  OBVIOUS
<1> QED  BY <1>1 DEF Rng

LEMMA DeleteAllMiss ==
  ASSUME NEW lo \in Nat, NEW e \in Int, NEW H, HolesOK(H, lo, e), NEW q \in Seq(Rng),
         NEW D, D = DeleteDataHoles(H, q)
  PROVE  /\ HolesOK(D, lo, e)
         /\ MissOf(D) = {m \in MissOf(H) : m[1] \notin BytesIn(q)}
<1> DEFINE n == Len(q)
           X == {d \in Seq(Hole) : HolesOK(d, lo, e)}
           Cut(i, x) == q[i].start <= x /\ x < q[i].end
<1>0. /\ n \in Nat /\ q \in [1..n -> Rng]
      /\ \A k \in 1..n : q[k].start \in Nat /\ q[k].end \in Nat /\ q[k].start < q[k].end
  BY RngFields
<1>1. H \in X
  BY DEF HolesOK
<1>2. ASSUME NEW k \in 1..n, NEW c \in X
      PROVE  /\ DeleteDataHole(c, q[k].start, q[k].end) \in X
             /\ MissOf(DeleteDataHole(c, q[k].start, q[k].end))
                  = {m \in MissOf(c) : m[1] \notin q[k].start..(q[k].end - 1)}
  <2> DEFINE a == q[k].start
             b == q[k].end
             d == DeleteDataHole(c, a, b)
  <2>1. a \in Nat /\ b \in Nat /\ a < b /\ HolesOK(c, lo, e)
    BY <1>0
  <2> HIDE DEF a, b
  <2>2. HolesOK(d, lo, e) /\ MissOf(d) = {m \in MissOf(c) : m[1] \notin a..(b - 1)}
    <3> HIDE DEF X, n
    <3> QED  BY <2>1, DeleteMiss
  <2>3. d \in Seq(Hole)
    BY <2>2 DEF HolesOK
  <2> QED  BY <2>2, <2>3 DEF a, b
<1> HIDE DEF n, X
<1>3. PICK acc : DeletedBy(acc, X, H, n, q)
  BY <1>0, <1>1, <1>2, DeleteFold
<1>4. /\ acc \in [0..n -> X] /\ acc[0] = H /\ acc[n] = D
      /\ \A k \in 1..n : acc[k] = DeleteDataHole(acc[k - 1], q[k].start, q[k].end)
  BY <1>3 DEF DeletedBy
<1> DEFINE Good(k) == \A m : m \in MissOf(acc[k]) <=>
                               m \in MissOf(H) /\ \A i \in 1..k : ~Cut(i, m[1])
           T == {k \in 0..n : Good(k)}
<1>5. \A m \in MissOf(H) : m[1] \in Nat
  <2>1. H \in Seq(Hole)  BY DEF HolesOK
  <2> QED  BY <2>1, MissIs
<1>6. 0 \in T
  BY <1>0, <1>4
<1>7. ASSUME NEW k \in 1..n, k - 1 \in T  PROVE k \in T
  <2>1. Good(k - 1)
    BY <1>7
  <2>2. k \in 0..n /\ k - 1 \in 0..n /\ acc[k - 1] \in X
    BY <1>0, <1>4
  <2>3. MissOf(acc[k]) = {m \in MissOf(acc[k - 1]) : m[1] \notin q[k].start..(q[k].end - 1)}
    BY <1>2, <1>4, <2>2
  <2>4. \A x \in Nat : x \in q[k].start..(q[k].end - 1) <=> Cut(k, x)
    BY <1>0
  <2>5. \A i : i \in 1..k <=> i \in 1..(k - 1) \/ i = k
    BY <1>0
  <2> HIDE DEF Cut
  <2>6. Good(k)
    BY <1>5, <2>1, <2>3, <2>4, <2>5
  <2> QED  BY <2>2, <2>6
<1>8. Good(n)
  <2> HIDE DEF Good
  <2>1. \A k \in 1..n : k - 1 \in T => k \in T  BY <1>7
  <2>2. \A k \in 0..n : k \in T
    <3> HIDE DEF T
    <3> QED  BY <1>0, <1>6, <2>1, Induct
  <2>3. n \in 0..n  BY <1>0
  <2> QED  BY <2>2, <2>3
<1>9. \A x : x \in BytesIn(q) <=> x \in Nat /\ \E i \in 1..n : Cut(i, x)
  <2>1. \A x : x \in BytesIn(q) <=> x \in Nat /\ Covered(q, x)
    BY RngBytes
  <2> QED  BY <2>1 DEF Covered, In, n
<1>10. MissOf(D) = {m \in MissOf(H) : m[1] \notin BytesIn(q)}
  <2> HIDE DEF Cut
  <2> QED  BY <1>4, <1>5, <1>8, <1>9
<1>11. HolesOK(D, lo, e)
  <2>1. n \in 0..n  BY <1>0
  <2>2. acc[n] \in X  BY <1>4, <2>1
  <2> QED  BY <1>4, <2>2 DEF X
<1> QED  BY <1>10, <1>11

-----------------------------------------------------------------------------
(***************************************************************************)
(* Ripe and young holes: the parts of a list that are in a set, in order.  *)
(***************************************************************************)
Select(H, P) == FlattenSeq([i \in DOMAIN H |-> IF H[i] \in P THEN <<H[i]>> ELSE <<>>])

Selected(F, H, P) ==
  /\ \A j \in 1..Len(F) : F[j] \in P /\ \E i \in 1..Len(H) : F[j] = H[i]
  /\ \A i \in 1..Len(H) : H[i] \in P => \E j \in 1..Len(F) : F[j] = H[i]
  /\ \A i, j \in 1..Len(F) : i < j =>
       \E p, q \in 1..Len(H) : p < q /\ F[i] = H[p] /\ F[j] = H[q]

LEMMA SelectIs ==
  ASSUME NEW X, NEW H \in Seq(X), NEW P
  PROVE  Select(H, P) \in Seq(X) /\ Selected(Select(H, P), H, P)
<1> DEFINE n == Len(H)
           s == [i \in 1..n |-> IF H[i] \in P THEN <<H[i]>> ELSE <<>>]
           F == FlattenSeq(s)
<1>0. n \in Nat /\ DOMAIN H = 1..n /\ \A i \in 1..n : H[i] \in X
  OBVIOUS
<1>1. Select(H, P) = F
  BY <1>0 DEF Select
<1>2. ASSUME NEW i \in 1..n
      PROVE  /\ s[i] \in Seq(X)
             /\ H[i] \in P => Len(s[i]) = 1 /\ s[i][1] = H[i]
             /\ H[i] \notin P => Len(s[i]) = 0
  <2>1. CASE H[i] \in P
    <3>1. s[i] = <<H[i]>>  BY <2>1
    <3>2. H[i] \in X  BY <1>0
    <3> HIDE DEF s
    <3> QED  BY <2>1, <3>1, <3>2
  <2>2. CASE H[i] \notin P
    <3>1. s[i] = <<>>  BY <2>2
    <3> HIDE DEF s
    <3> QED  BY <2>2, <3>1
  <2> QED  BY <2>1, <2>2
<1>3. s \in [1..n -> Seq(X)]
  <2>1. s = [i \in 1..n |-> s[i]]  OBVIOUS
  <2> HIDE DEF s
  <2> QED  BY <1>2, <2>1
<1> HIDE DEF s
<1>4. s \in Seq(Seq(X)) /\ Len(s) = n
  BY <1>0, <1>3
<1>5. F \in Seq(X) /\ InPlace(F, s, n)
  BY <1>4, FlattenPlaces
<1>6. ASSUME NEW i \in 1..n, NEW m \in 1..Len(s[i])
      PROVE  m = 1 /\ H[i] \in P /\ s[i][m] = H[i]
  <2>1. H[i] \in P
    <3> SUFFICES ASSUME H[i] \notin P  PROVE FALSE
      OBVIOUS
    <3>1. Len(s[i]) = 0  BY <1>2
    <3> QED  BY <3>1
  <2>2. Len(s[i]) = 1 /\ s[i][1] = H[i]
    BY <1>2, <2>1
  <2>3. m = 1
    BY <2>2
  <2> QED  BY <2>1, <2>2, <2>3
<1>7. \A i \in 1..n : H[i] \in P => 1 \in 1..Len(s[i]) /\ s[i][1] = H[i]
  BY <1>2
<1> HIDE DEF F, n
<1>8. ASSUME NEW j \in 1..Len(F)  PROVE F[j] \in P /\ \E i \in 1..n : F[j] = H[i]
  <2>1. PICK p \in 1..n : \E m \in 1..Len(s[p]) : F[j] = s[p][m]
    BY <1>5 DEF InPlace
  <2> QED  BY <1>6, <2>1
<1>9. ASSUME NEW i \in 1..n, H[i] \in P  PROVE \E j \in 1..Len(F) : F[j] = H[i]
  <2>1. 1 \in 1..Len(s[i]) /\ s[i][1] = H[i]
    BY <1>7, <1>9
  <2>2. \E j \in 1..Len(F) : F[j] = s[i][1]
    BY <1>5, <2>1 DEF InPlace
  <2> QED  BY <2>1, <2>2
<1>10. ASSUME NEW i \in 1..Len(F), NEW j \in 1..Len(F), i < j
       PROVE  \E p, q \in 1..n : p < q /\ F[i] = H[p] /\ F[j] = H[q]
  <2>1. Before(F[i], F[j], s, n)
    BY <1>5, <1>10 DEF InPlace
  <2>2. PICK p \in 1..n, q \in 1..n : \E m \in 1..Len(s[p]), o \in 1..Len(s[q]) :
          /\ F[i] = s[p][m] /\ F[j] = s[q][o] /\ (p < q \/ (p = q /\ m < o))
    BY <2>1 DEF Before
  <2>3. PICK m \in 1..Len(s[p]), o \in 1..Len(s[q]) :
          /\ F[i] = s[p][m] /\ F[j] = s[q][o] /\ (p < q \/ (p = q /\ m < o))
    BY <2>2
  <2>4. m = 1 /\ o = 1 /\ s[p][m] = H[p] /\ s[q][o] = H[q]
    BY <1>6
  <2>5. p < q
    BY <2>3, <2>4
  <2> QED  BY <2>3, <2>4, <2>5
<1>11. Selected(F, H, P)
  BY <1>8, <1>9, <1>10 DEF Selected, n
<1> QED  BY <1>1, <1>5, <1>11

\* Selecting holes by age selects missing bytes by age.
LEMMA SelectMiss ==
  ASSUME NEW lo \in Nat, NEW e \in Int, NEW H, HolesOK(H, lo, e), NEW P,
         NEW D, D = Select(H, P)
  PROVE  /\ HolesOK(D, lo, e) /\ Selected(D, H, P)
         /\ \A m : m \in MissOf(D) <=>
              \E i \in 1..Len(H) : \E x \in Nat :
                H[i] \in P /\ In(H[i], x) /\ m = <<x, H[i].age>>
<1>1. H \in Seq(Hole) /\ Sorted(H) /\ \A i \in 1..Len(H) : lo <= H[i].start /\ H[i].end <= e
  BY DEF HolesOK
<1>2. D \in Seq(Hole) /\ Selected(D, H, P)
  BY <1>1, SelectIs
<1>3. /\ \A j \in 1..Len(D) : D[j] \in P /\ \E i \in 1..Len(H) : D[j] = H[i]
      /\ \A i \in 1..Len(H) : H[i] \in P => \E j \in 1..Len(D) : D[j] = H[i]
      /\ \A i, j \in 1..Len(D) : i < j =>
           \E p, q \in 1..Len(H) : p < q /\ D[i] = H[p] /\ D[j] = H[q]
  BY <1>2 DEF Selected
<1>4. Sorted(D)
  <2> SUFFICES ASSUME NEW i \in 1..Len(D), NEW j \in 1..Len(D), i < j
               PROVE  D[i].end <= D[j].start
    BY DEF Sorted
  <2>1. PICK p \in 1..Len(H), q \in 1..Len(H) : p < q /\ D[i] = H[p] /\ D[j] = H[q]
    BY <1>3
  <2> QED  BY <1>1, <2>1 DEF Sorted
<1>5. HolesOK(D, lo, e)
  BY <1>1, <1>2, <1>3, <1>4 DEF HolesOK
<1>6. ASSUME NEW m
      PROVE  m \in MissOf(D) <=>
               \E i \in 1..Len(H) : \E x \in Nat :
                 H[i] \in P /\ In(H[i], x) /\ m = <<x, H[i].age>>
  <2> DEFINE At(h) == \E x \in Nat : In(h, x) /\ m = <<x, h.age>>
  <2>1. m \in MissOf(D) <=> \E j \in 1..Len(D) : At(D[j])
    BY <1>2, MissIs
  <2>2. (\E i \in 1..Len(H) : H[i] \in P /\ At(H[i])) <=>
          \E i \in 1..Len(H) : \E x \in Nat :
            H[i] \in P /\ In(H[i], x) /\ m = <<x, H[i].age>>
    OBVIOUS
  <2> HIDE DEF At
  <2>3. (\E j \in 1..Len(D) : At(D[j])) <=> \E i \in 1..Len(H) : H[i] \in P /\ At(H[i])
    BY <1>3
  <2> QED  BY <2>1, <2>2, <2>3
<1> QED  BY <1>2, <1>5, <1>6

Old(wait) == {h \in Hole : h.age >= wait}

Fresh(wait) == {h \in Hole : ~(h.age >= wait)}

LEMMA RipeIs ==
  ASSUME NEW lo \in Nat, NEW e \in Int, NEW H, HolesOK(H, lo, e), NEW wait \in Nat
  PROVE  /\ HolesOK(RipeHoles(H, wait), lo, e) /\ HolesOK(YoungHoles(H, wait), lo, e)
         /\ Selected(RipeHoles(H, wait), H, Old(wait))
         /\ Selected(YoungHoles(H, wait), H, Fresh(wait))
         /\ MissOf(RipeHoles(H, wait)) = {m \in MissOf(H) : m[2] >= wait}
         /\ MissOf(YoungHoles(H, wait)) = MissOf(H) \ {m \in MissOf(H) : m[2] >= wait}
<1>1. H \in Seq(Hole)
  BY DEF HolesOK
<1>2. /\ Len(H) \in Nat /\ DOMAIN H = 1..Len(H)
      /\ \A i \in 1..Len(H) : H[i] \in Hole /\ H[i].age \in Nat
  BY <1>1, HoleFields
<1>3. RipeHoles(H, wait) = Select(H, Old(wait))
  <2>1. [i \in DOMAIN H |-> IF H[i].age >= wait THEN <<H[i]>> ELSE <<>>]
          = [i \in DOMAIN H |-> IF H[i] \in Old(wait) THEN <<H[i]>> ELSE <<>>]
    BY <1>2 DEF Old
  <2> QED  BY <2>1, Zenon DEF RipeHoles, Select
<1>4. YoungHoles(H, wait) = Select(H, Fresh(wait))
  <2>1. [i \in DOMAIN H |-> IF H[i].age >= wait THEN <<>> ELSE <<H[i]>>]
          = [i \in DOMAIN H |-> IF H[i] \in Fresh(wait) THEN <<H[i]>> ELSE <<>>]
    BY <1>2 DEF Fresh
  <2> QED  BY <2>1, Zenon DEF YoungHoles, Select
<1> DEFINE R == RipeHoles(H, wait)
           Y == YoungHoles(H, wait)
<1>5. /\ HolesOK(R, lo, e) /\ Selected(R, H, Old(wait))
      /\ \A m : m \in MissOf(R) <=>
           \E i \in 1..Len(H) : \E x \in Nat :
             H[i] \in Old(wait) /\ In(H[i], x) /\ m = <<x, H[i].age>>
  BY <1>3, SelectMiss
<1>6. /\ HolesOK(Y, lo, e) /\ Selected(Y, H, Fresh(wait))
      /\ \A m : m \in MissOf(Y) <=>
           \E i \in 1..Len(H) : \E x \in Nat :
             H[i] \in Fresh(wait) /\ In(H[i], x) /\ m = <<x, H[i].age>>
  BY <1>4, SelectMiss
<1> HIDE DEF R, Y
<1>7. \A m : m \in MissOf(H) <=>
        \E i \in 1..Len(H) : \E x \in Nat : In(H[i], x) /\ m = <<x, H[i].age>>
  BY <1>1, MissIs
<1>8. \A i \in 1..Len(H) : /\ H[i] \in Old(wait) <=> H[i].age >= wait
                           /\ H[i] \in Fresh(wait) <=> ~(H[i].age >= wait)
  BY <1>2 DEF Old, Fresh
<1>9. MissOf(R) = {m \in MissOf(H) : m[2] >= wait}
  <2>1. ASSUME NEW m \in MissOf(R)  PROVE m \in MissOf(H) /\ m[2] >= wait
    <3>1. PICK i \in 1..Len(H), x \in Nat :
            H[i] \in Old(wait) /\ In(H[i], x) /\ m = <<x, H[i].age>>
      BY <1>5
    <3>2. m[2] = H[i].age  BY <3>1
    <3> QED  BY <1>7, <1>8, <3>1, <3>2
  <2>2. ASSUME NEW m \in MissOf(H), m[2] >= wait  PROVE m \in MissOf(R)
    <3>1. PICK i \in 1..Len(H), x \in Nat : In(H[i], x) /\ m = <<x, H[i].age>>
      BY <1>7
    <3>2. m[2] = H[i].age  BY <3>1
    <3> QED  BY <1>5, <1>8, <2>2, <3>1, <3>2
  <2> QED  BY <2>1, <2>2
<1>10. MissOf(Y) = MissOf(H) \ {m \in MissOf(H) : m[2] >= wait}
  <2>1. ASSUME NEW m \in MissOf(Y)  PROVE m \in MissOf(H) /\ ~(m[2] >= wait)
    <3>1. PICK i \in 1..Len(H), x \in Nat :
            H[i] \in Fresh(wait) /\ In(H[i], x) /\ m = <<x, H[i].age>>
      BY <1>6
    <3>2. m[2] = H[i].age  BY <3>1
    <3> QED  BY <1>7, <1>8, <3>1, <3>2
  <2>2. ASSUME NEW m \in MissOf(H), ~(m[2] >= wait)  PROVE m \in MissOf(Y)
    <3>1. PICK i \in 1..Len(H), x \in Nat : In(H[i], x) /\ m = <<x, H[i].age>>
      BY <1>7
    <3>2. m[2] = H[i].age  BY <3>1
    <3> QED  BY <1>6, <1>8, <2>2, <3>1, <3>2
  <2> QED  BY <2>1, <2>2
<1> QED  BY <1>5, <1>6, <1>9, <1>10 DEF R, Y

-----------------------------------------------------------------------------
(***************************************************************************)
(* Holes that get older.                                                   *)
(***************************************************************************)
LEMMA AgeMiss ==
  ASSUME NEW lo \in Nat, NEW e \in Int, NEW H, HolesOK(H, lo, e),
         NEW D, D = Older(H)
  PROVE  /\ HolesOK(D, lo, e)
         /\ MissOf(D) = {<<m[1], m[2] + 1>> : m \in MissOf(H)}
<1>1. H \in Seq(Hole) /\ Sorted(H) /\ \A i \in 1..Len(H) : lo <= H[i].start /\ H[i].end <= e
  BY DEF HolesOK
<1>2. /\ Len(H) \in Nat /\ DOMAIN H = 1..Len(H)
      /\ \A i \in 1..Len(H) : H[i] \in Hole
  BY <1>1, HoleFields
<1>3. \A i \in 1..Len(H) : /\ D[i].start = H[i].start /\ D[i].end = H[i].end
                           /\ D[i].age = H[i].age + 1 /\ D[i] \in Hole
  BY <1>2 DEF Hole, Older
<1>4. D \in Seq(Hole) /\ Len(D) = Len(H)
  <2>1. D = [i \in 1..Len(H) |-> D[i]]
    BY <1>2 DEF Older
  <2>2. D \in [1..Len(H) -> Hole]
    BY <1>3, <2>1
  <2> QED  BY <1>2, <2>2
<1>5. HolesOK(D, lo, e)
  BY <1>1, <1>3, <1>4 DEF HolesOK, Sorted
<1>6. \A m : m \in MissOf(H) <=>
        \E i \in 1..Len(H) : \E x \in Nat : In(H[i], x) /\ m = <<x, H[i].age>>
  BY <1>1, MissIs
<1>7. ASSUME NEW m
      PROVE  m \in MissOf(D) <=>
               \E i \in 1..Len(H) : \E x \in Nat : In(D[i], x) /\ m = <<x, D[i].age>>
  <2> DEFINE At(i) == \E x \in Nat : In(D[i], x) /\ m = <<x, D[i].age>>
  <2>0. \A k : k \in MissOf(D) <=>
          \E i \in 1..Len(D) : \E x \in Nat : In(D[i], x) /\ k = <<x, D[i].age>>
    BY <1>4, MissIs
  <2>1. m \in MissOf(D) <=> \E i \in 1..Len(D) : At(i)
    BY <2>0
  <2> HIDE DEF At
  <2>2. m \in MissOf(D) <=> \E i \in 1..Len(H) : At(i)
    BY <1>4, <2>1
  <2> QED  BY <2>2 DEF At
<1>8. ASSUME NEW m \in MissOf(D)
      PROVE  m \in {<<k[1], k[2] + 1>> : k \in MissOf(H)}
  <2>1. PICK i \in 1..Len(H), x \in Nat : In(D[i], x) /\ m = <<x, D[i].age>>
    BY <1>7
  <2> DEFINE k == <<x, H[i].age>>
  <2>2. In(H[i], x)
    BY <1>3, <2>1 DEF In
  <2>3. k \in MissOf(H)
    BY <1>6, <2>2
  <2>4. m = <<k[1], k[2] + 1>>
    BY <1>3, <2>1
  <2> HIDE DEF k
  <2> QED  BY <2>3, <2>4
<1>9. ASSUME NEW k \in MissOf(H)
      PROVE  <<k[1], k[2] + 1>> \in MissOf(D)
  <2>1. PICK i \in 1..Len(H), x \in Nat : In(H[i], x) /\ k = <<x, H[i].age>>
    BY <1>6
  <2>2. In(D[i], x)
    BY <1>3, <2>1 DEF In
  <2>3. <<k[1], k[2] + 1>> = <<x, D[i].age>>
    BY <1>3, <2>1
  <2> QED  BY <1>7, <2>2, <2>3
<1> QED  BY <1>5, <1>8, <1>9

-----------------------------------------------------------------------------
(***************************************************************************)
(* A session whose ranges all lie in [lo, hi).                             *)
(***************************************************************************)
RngIn(lo, hi) == {r \in Rng : lo <= r.start /\ r.end <= hi}

Kinds == {"data", "header", "int"}

SegIn(lo, hi) ==
  {g \in [kind : Kinds, start : Nat, end : Nat] :
     g.start < g.end /\ lo <= g.start /\ g.end <= hi}

Sess(lo, hi) ==
  [next : 0..hi, holes : Seq(Hole), sndQueue : Seq(SegIn(lo, hi)),
   intQueue : Seq(RngIn(lo, hi)), rcvQueue : Seq(SegIn(lo, hi)),
   pendingInts : Seq(RngIn(lo, hi)),
   seen : SUBSET Nat, asked : SUBSET Nat, forwarded : SUBSET Nat,
   skipped : SUBSET Nat, straddled : BOOLEAN]

SessOK(s, lo, hi) ==
  /\ s \in Sess(lo, hi)
  /\ HolesOK(s.holes, lo, s.next - 1)
  /\ s.next = 0 \/ lo <= s.next

LEMMA SegFields ==
  ASSUME NEW lo \in Nat, NEW hi \in Int, NEW g \in SegIn(lo, hi)
  PROVE  /\ g.start \in Nat /\ g.end \in Nat /\ g.start < g.end /\ g.kind \in Kinds
         /\ lo <= g.start /\ g.end <= hi
         /\ g = [kind |-> g.kind, start |-> g.start, end |-> g.end]
BY DEF SegIn

LEMMA HolesLater ==
  ASSUME NEW lo \in Nat, NEW e \in Int, NEW f \in Int, e <= f, NEW H, HolesOK(H, lo, e)
  PROVE  HolesOK(H, lo, f)
<1>1. H \in Seq(Hole) /\ Sorted(H) /\ \A i \in 1..Len(H) : lo <= H[i].start /\ H[i].end <= e
  BY DEF HolesOK
<1>2. \A i \in 1..Len(H) : H[i].end \in Nat
  BY <1>1, HoleFields
<1> QED  BY <1>1, <1>2 DEF HolesOK

\* What HoleTracker says of an arrival, for a session s that becomes t.
Arrives(s, t, g) ==
  /\ t.seen = s.seen \cup (g.start..(g.end - 1))
  /\ t.asked = s.asked /\ t.forwarded = s.forwarded
  /\ \/ /\ g.start = s.next /\ t.next = g.end
        /\ MissOf(t.holes) = MissOf(s.holes)
        /\ t.skipped = s.skipped /\ t.straddled = s.straddled
     \/ /\ g.start < s.next /\ t.next = s.next
        /\ MissOf(t.holes) = {m \in MissOf(s.holes) : m[1] \notin g.start..(g.end - 1)}
        /\ t.skipped = s.skipped /\ t.straddled = (s.straddled \/ g.end > s.next)
     \/ /\ g.start > s.next /\ s.next = 0 /\ t.next = g.end
        /\ MissOf(t.holes) = MissOf(s.holes)
        /\ t.skipped = s.skipped \cup (s.next..(g.start - 1)) /\ t.straddled = s.straddled
     \/ /\ g.start > s.next /\ s.next # 0 /\ t.next = g.end
        /\ MissOf(t.holes) = MissOf(s.holes) \cup ((s.next..(g.start - 1)) \X {0})
        /\ t.skipped = s.skipped /\ t.straddled = s.straddled

Parsed(n, s, g, t) ==
  /\ t.next = s.next /\ t.holes = s.holes /\ t.intQueue = s.intQueue
  /\ t.pendingInts = s.pendingInts /\ t.seen = s.seen \cup BytesOf(g)
  /\ t.asked = s.asked /\ t.forwarded = s.forwarded /\ t.skipped = s.skipped
  /\ t.straddled = s.straddled
  /\ t.sndQueue = (IF n = K THEN s.sndQueue ELSE Append(s.sndQueue, g))
  /\ t.rcvQueue = (IF g.kind = "data" THEN Append(s.rcvQueue, g) ELSE s.rcvQueue)

LEMMA ParseDataIs ==
  ASSUME NEW n, NEW lo \in Nat, NEW hi \in Nat, NEW s \in Sess(lo, hi), NEW g \in SegIn(lo, hi),
         NEW t, t = ParseData(n, s, g)
  PROVE  /\ t \in Sess(lo, hi)
         /\ Parsed(n, s, g, t)
<1> DEFINE S == SegIn(lo, hi)
<1>1. s.sndQueue \in Seq(S) /\ s.rcvQueue \in Seq(S) /\ s.seen \in SUBSET Nat
  BY DEF Sess
<1> HIDE DEF S
<1> DEFINE snd == IF n = K THEN s.sndQueue ELSE Append(s.sndQueue, g)
           rcv == IF g.kind = "data" THEN Append(s.rcvQueue, g) ELSE s.rcvQueue
           sn == s.seen \cup BytesOf(g)
<1>2. snd \in Seq(S) /\ rcv \in Seq(S)
  <2>1. g \in S  BY DEF S
  <2>2. Append(s.sndQueue, g) \in Seq(S) /\ Append(s.rcvQueue, g) \in Seq(S)
    BY <1>1, <2>1
  <2> QED  BY <1>1, <2>2
<1>3. sn \in SUBSET Nat
  <2>1. g.start \in Nat /\ g.end \in Nat  BY SegFields
  <2>2. BytesOf(g) \in SUBSET Nat  BY <2>1 DEF BytesOf
  <2> QED  BY <1>1, <2>2
<1>4. t = [s EXCEPT !.sndQueue = snd, !.rcvQueue = rcv, !.seen = sn]
  BY DEF ParseData
<1> HIDE DEF snd, rcv, sn
<1>5. /\ t \in Sess(lo, hi)
      /\ t.next = s.next /\ t.holes = s.holes /\ t.intQueue = s.intQueue
      /\ t.pendingInts = s.pendingInts /\ t.seen = sn
      /\ t.asked = s.asked /\ t.forwarded = s.forwarded /\ t.skipped = s.skipped
      /\ t.straddled = s.straddled /\ t.sndQueue = snd /\ t.rcvQueue = rcv
  BY <1>2, <1>3, <1>4 DEF Sess, S
<1> QED  BY <1>5 DEF snd, rcv, sn, Parsed

\* The sndQueue after detectDataHole, which only a new hole of a midnode changes.
Announced(n, s, g) ==
  IF g.start > s.next /\ s.next # 0 /\ IsMidnode(n)
  THEN Append(s.sndQueue, Seg("header", ByteRange(s.next, g.start))) ELSE s.sndQueue

Detected(n, s, g, t, lo) ==
  /\ t.seen = s.seen
  /\ HolesOK(t.holes, lo, t.next - 1) /\ lo <= t.next
  /\ Arrives(s, [t EXCEPT !.seen = @ \cup (g.start..(g.end - 1))], g)
  /\ t.rcvQueue = s.rcvQueue /\ t.intQueue = s.intQueue
  /\ t.pendingInts = s.pendingInts /\ t.sndQueue = Announced(n, s, g)

LEMMA DetectIs ==
  ASSUME NEW n, NEW lo \in Nat, NEW hi \in Nat, NEW s, SessOK(s, lo, hi),
         NEW g \in SegIn(lo, hi), NEW t, t = DetectDataHole(n, s, g)
  PROVE  t \in Sess(lo, hi) /\ Detected(n, s, g, t, lo)
<1>1. /\ s \in Sess(lo, hi) /\ HolesOK(s.holes, lo, s.next - 1) /\ (s.next = 0 \/ lo <= s.next)
  BY DEF SessOK
<1>2. /\ s.next \in 0..hi /\ s.next \in Nat /\ s.next <= hi
      /\ s.holes \in Seq(Hole) /\ s.skipped \in SUBSET Nat
      /\ s.straddled \in BOOLEAN /\ s.seen \in SUBSET Nat
  BY <1>1 DEF Sess
<1>3. g.start \in Nat /\ g.end \in Nat /\ g.start < g.end /\ lo <= g.start /\ g.end <= hi
  BY SegFields
<1>nx. g.end \in 0..hi
  BY <1>3
<1> DEFINE gap == ByteRange(s.next, g.start)
           sn == t.seen \cup (g.start..(g.end - 1))
<1>4. CASE g.start = s.next
  <2>1. t = [s EXCEPT !.next = g.end]
    BY <1>2, <1>3, <1>4 DEF DetectDataHole
  <2>2. /\ t \in Sess(lo, hi) /\ t.next = g.end
        /\ t.holes = s.holes /\ t.seen = s.seen /\ t.sndQueue = s.sndQueue
        /\ t.rcvQueue = s.rcvQueue /\ t.intQueue = s.intQueue /\ t.pendingInts = s.pendingInts
        /\ t.asked = s.asked /\ t.forwarded = s.forwarded /\ t.skipped = s.skipped
        /\ t.straddled = s.straddled
    BY <1>1, <1>nx, <2>1 DEF Sess
  <2>3. HolesOK(t.holes, lo, t.next - 1) /\ lo <= t.next
    BY <1>1, <1>2, <1>3, <1>4, <2>2, HolesLater
  <2>4. Announced(n, s, g) = s.sndQueue
    BY <1>2, <1>4 DEF Announced
  <2>5. Arrives(s, [t EXCEPT !.seen = sn], g)
    BY <1>4, <2>2 DEF Arrives, Sess
  <2> QED  BY <2>2, <2>3, <2>4, <2>5 DEF Detected
<1>5. CASE g.start < s.next
  <2> DEFINE D == DeleteDataHole(s.holes, g.start, g.end)
             str == s.straddled \/ g.end > s.next
  <2>1. t = [s EXCEPT !.holes = D, !.straddled = str]
    BY <1>2, <1>3, <1>5 DEF DetectDataHole
  <2>2. /\ HolesOK(D, lo, s.next - 1)
        /\ MissOf(D) = {m \in MissOf(s.holes) : m[1] \notin g.start..(g.end - 1)}
    <3> DEFINE a == g.start
               b == g.end
               H == s.holes
               e == s.next - 1
               E == DeleteDataHole(H, a, b)
    <3>1. a \in Nat /\ b \in Nat /\ a < b /\ e \in Int /\ HolesOK(H, lo, e)
      BY <1>1, <1>2, <1>3
    <3> HIDE DEF a, b, H, e
    <3>2. HolesOK(E, lo, e) /\ MissOf(E) = {m \in MissOf(H) : m[1] \notin a..(b - 1)}
      BY <3>1, DeleteMiss
    <3> QED  BY <3>2 DEF a, b, H, e
  <2>3. D \in Seq(Hole)
    BY <2>2 DEF HolesOK
  <2> HIDE DEF D, str
  <2>4. /\ t \in Sess(lo, hi) /\ t.next = s.next
        /\ t.holes = D /\ t.seen = s.seen /\ t.sndQueue = s.sndQueue
        /\ t.rcvQueue = s.rcvQueue /\ t.intQueue = s.intQueue /\ t.pendingInts = s.pendingInts
        /\ t.asked = s.asked /\ t.forwarded = s.forwarded /\ t.skipped = s.skipped
        /\ t.straddled = str
    <3>1. str \in BOOLEAN  BY <1>2 DEF str
    <3> QED  BY <1>1, <2>1, <2>3, <3>1 DEF Sess
  <2>5. HolesOK(t.holes, lo, t.next - 1) /\ lo <= t.next
    BY <1>1, <1>2, <1>3, <1>5, <2>2, <2>4
  <2>6. Announced(n, s, g) = s.sndQueue
    BY <1>2, <1>3, <1>5 DEF Announced
  <2>7. Arrives(s, [t EXCEPT !.seen = sn], g)
    <3>1. [t EXCEPT !.seen = sn].straddled = (s.straddled \/ g.end > s.next)
      BY <2>4 DEF Sess, str
    <3> QED  BY <1>5, <2>2, <2>4, <3>1 DEF Arrives, Sess
  <2> QED  BY <2>4, <2>5, <2>6, <2>7 DEF Detected
<1>6. CASE g.start > s.next /\ s.next = 0
  <2> DEFINE sk == s.skipped \cup BytesOf(gap)
  <2>1. t = [s EXCEPT !.next = g.end, !.skipped = sk]
    BY <1>2, <1>3, <1>6 DEF DetectDataHole
  <2>2. BytesOf(gap) = s.next..(g.start - 1)
    BY DEF BytesOf, ByteRange
  <2>3. sk \in SUBSET Nat
    BY <1>2, <2>2
  <2> HIDE DEF sk
  <2>4. /\ t \in Sess(lo, hi) /\ t.next = g.end
        /\ t.holes = s.holes /\ t.seen = s.seen /\ t.sndQueue = s.sndQueue
        /\ t.rcvQueue = s.rcvQueue /\ t.intQueue = s.intQueue /\ t.pendingInts = s.pendingInts
        /\ t.asked = s.asked /\ t.forwarded = s.forwarded /\ t.skipped = sk
        /\ t.straddled = s.straddled
    BY <1>1, <1>nx, <2>1, <2>3 DEF Sess
  <2>5. HolesOK(t.holes, lo, t.next - 1) /\ lo <= t.next
    BY <1>1, <1>2, <1>3, <1>6, <2>4, HolesLater
  <2>6. Announced(n, s, g) = s.sndQueue
    BY <1>6 DEF Announced
  <2>7. Arrives(s, [t EXCEPT !.seen = sn], g)
    BY <1>6, <2>2, <2>4 DEF Arrives, Sess, sk
  <2> QED  BY <2>4, <2>5, <2>6, <2>7 DEF Detected
<1>7. CASE g.start > s.next /\ s.next # 0
  <2> DEFINE D == InsertDataHole(s.holes, gap.start, gap.end)
             snd == AnnounceHole(n, s, gap)
  <2>1. t = [s EXCEPT !.next = g.end, !.holes = D, !.sndQueue = snd]
    BY <1>2, <1>3, <1>7 DEF DetectDataHole
  <2>2. D = InsertDataHole(s.holes, s.next, g.start)
    BY DEF ByteRange
  <2>3. lo <= s.next
    BY <1>1, <1>7
  <2>4. /\ HolesOK(D, lo, g.start)
        /\ MissOf(D) = MissOf(s.holes) \cup ((s.next..(g.start - 1)) \X {0})
    <3> DEFINE a == s.next
               b == g.start
               H == s.holes
               E == InsertDataHole(H, a, b)
    <3>1. a \in Nat /\ b \in Nat /\ a < b /\ lo <= a /\ HolesOK(H, lo, a)
      BY <1>1, <1>2, <1>3, <1>7, <2>3, HolesLater
    <3>0. D = E
      BY <2>2
    <3> HIDE DEF a, b, H, E, D
    <3>2. HolesOK(E, lo, b) /\ MissOf(E) = MissOf(H) \cup ((a..(b - 1)) \X {0})
      BY <3>1, InsertMiss DEF E
    <3> QED  BY <3>0, <3>2 DEF a, b, H
  <2>5. D \in Seq(Hole)
    BY <2>4 DEF HolesOK
  <2>6. snd = Announced(n, s, g)
    BY <1>7 DEF AnnounceHole, Announced
  <2>7. snd \in Seq(SegIn(lo, hi))
    <3> DEFINE S == SegIn(lo, hi)
    <3>1. s.sndQueue \in Seq(S)
      BY <1>1 DEF Sess
    <3>2. Seg("header", gap) \in S
      BY <1>2, <1>3, <1>7, <2>3 DEF Seg, ByteRange, SegIn, Kinds
    <3> HIDE DEF S, gap
    <3>3. Append(s.sndQueue, Seg("header", gap)) \in Seq(S)
      BY <3>1, <3>2
    <3> QED  BY <3>1, <3>3 DEF AnnounceHole, S
  <2> HIDE DEF D, snd
  <2>8. /\ t \in Sess(lo, hi) /\ t.next = g.end
        /\ t.holes = D /\ t.seen = s.seen /\ t.sndQueue = snd
        /\ t.rcvQueue = s.rcvQueue /\ t.intQueue = s.intQueue /\ t.pendingInts = s.pendingInts
        /\ t.asked = s.asked /\ t.forwarded = s.forwarded /\ t.skipped = s.skipped
        /\ t.straddled = s.straddled
    BY <1>1, <1>nx, <2>1, <2>5, <2>7 DEF Sess
  <2>9. HolesOK(t.holes, lo, t.next - 1) /\ lo <= t.next
    BY <1>3, <2>4, <2>8, HolesLater
  <2>10. Arrives(s, [t EXCEPT !.seen = sn], g)
    BY <1>7, <2>4, <2>8 DEF Arrives, Sess
  <2> QED  BY <2>6, <2>8, <2>9, <2>10 DEF Detected
<1> QED  BY <1>2, <1>3, <1>4, <1>5, <1>6, <1>7

Taken(n, s, g, t, lo) ==
  /\ lo <= t.next /\ Arrives(s, t, g)
  /\ t.intQueue = s.intQueue /\ t.pendingInts = s.pendingInts
  /\ t.sndQueue = (IF n = K THEN Announced(n, s, g) ELSE Append(Announced(n, s, g), g))
  /\ t.rcvQueue = (IF g.kind = "data" THEN Append(s.rcvQueue, g) ELSE s.rcvQueue)

LEMMA InputIs ==
  ASSUME NEW n, NEW lo \in Nat, NEW hi \in Nat, NEW s, SessOK(s, lo, hi),
         NEW g \in SegIn(lo, hi), NEW t, t = Input(n, s, g)
  PROVE  SessOK(t, lo, hi) /\ Taken(n, s, g, t, lo)
<1> DEFINE d == DetectDataHole(n, s, g)
           sn == d.seen \cup (g.start..(g.end - 1))
           u == [d EXCEPT !.seen = sn]
<1>d. d = DetectDataHole(n, s, g)
  OBVIOUS
<1> HIDE DEF d
<1>0. d \in Sess(lo, hi) /\ Detected(n, s, g, d, lo)
  BY <1>d, DetectIs
<1>1. /\ d.seen = s.seen /\ d \in Sess(lo, hi)
      /\ HolesOK(d.holes, lo, d.next - 1) /\ lo <= d.next /\ Arrives(s, u, g)
      /\ d.rcvQueue = s.rcvQueue /\ d.intQueue = s.intQueue
      /\ d.pendingInts = s.pendingInts /\ d.sndQueue = Announced(n, s, g)
  BY <1>0 DEF Detected
<1>2. t = ParseData(n, d, g)
  BY <1>d DEF Input
<1>p. t \in Sess(lo, hi) /\ Parsed(n, d, g, t)
  BY <1>0, <1>2, ParseDataIs
<1>3. /\ t \in Sess(lo, hi)
      /\ t.next = d.next /\ t.holes = d.holes /\ t.intQueue = d.intQueue
      /\ t.pendingInts = d.pendingInts /\ t.seen = d.seen \cup BytesOf(g)
      /\ t.asked = d.asked /\ t.forwarded = d.forwarded /\ t.skipped = d.skipped
      /\ t.straddled = d.straddled
      /\ t.sndQueue = (IF n = K THEN d.sndQueue ELSE Append(d.sndQueue, g))
      /\ t.rcvQueue = (IF g.kind = "data" THEN Append(d.rcvQueue, g) ELSE d.rcvQueue)
  BY <1>p DEF Parsed
<1>4. t.seen = sn
  BY <1>3 DEF BytesOf
<1>5. /\ u.next = d.next /\ u.holes = d.holes /\ u.asked = d.asked /\ u.seen = sn
      /\ u.forwarded = d.forwarded /\ u.skipped = d.skipped /\ u.straddled = d.straddled
  BY <1>1 DEF Sess
<1> HIDE DEF sn, u
<1>6. /\ u.next = t.next /\ u.holes = t.holes /\ u.asked = t.asked /\ u.seen = t.seen
      /\ u.forwarded = t.forwarded /\ u.skipped = t.skipped /\ u.straddled = t.straddled
  BY <1>3, <1>4, <1>5
<1>7. Arrives(s, t, g)
  BY <1>1, <1>6 DEF Arrives
<1>8. SessOK(t, lo, hi)
  BY <1>1, <1>3 DEF SessOK
<1> QED  BY <1>1, <1>3, <1>7, <1>8 DEF Taken

-----------------------------------------------------------------------------
(***************************************************************************)
(* The answers to a sequence of interests, from a cache that holds `held`. *)
(***************************************************************************)
SentFor(held, rs) == FlattenSeq([i \in DOMAIN rs |-> Answer(held, rs[i]).sent])

RestFor(held, rs) == FlattenSeq([i \in DOMAIN rs |-> Answer(held, rs[i]).rest])

\* What one interest gives: pieces of its cached beginning, and the rest.
AnswerOf(a, held, r) ==
  /\ a.sent \in Seq(Rng) /\ a.rest \in Seq(Rng)
  /\ \A i \in 1..Len(a.sent) : /\ r.start <= a.sent[i].start /\ a.sent[i].end <= r.end
                               /\ BytesOf(a.sent[i]) \subseteq held
                               /\ r.end - r.start <= MSS => a.sent[i].start = r.start
  /\ \A i \in 1..Len(a.rest) : /\ r.start <= a.rest[i].start /\ a.rest[i].end = r.end
                               /\ a.rest[i].start \notin held
  /\ BytesOf(r) \subseteq held => Len(a.rest) = 0

\* Two pieces of a range that is no longer than MSS cannot be.
LEMMA OnePiece ==
  ASSUME NEW a \in Nat, NEW b \in Nat, a <= b, b - a <= MSS
  PROVE  HowMany(a, b) <= 1
<1> DEFINE n == HowMany(a, b)
<1>0. MSS \in Nat /\ MSS > 0
  BY MSSAssumption
<1>1. n \in Nat /\ n * MSS \in Nat /\ n * MSS < (b - a) + MSS
  BY HowManyIs
<1> HIDE DEF n
<1> SUFFICES ASSUME n > 1  PROVE FALSE
  BY <1>1 DEF n
<1>2. 2 * MSS <= n * MSS
  BY <1>0, <1>1, Multiple
<1> DEFINE w == n * MSS
<1>3. w \in Nat /\ w < (b - a) + MSS /\ 2 * MSS <= w
  BY <1>1, <1>2
<1> HIDE DEF w
<1> QED  BY <1>0, <1>3

LEMMA AnswerAll ==
  ASSUME NEW held, NEW r, r.start \in Nat, r.end \in Nat, r.start < r.end,
         NEW a, a = Answer(held, r)
  PROVE  AnswerOf(a, held, r)
<1> DEFINE s == r.start
           b == r.end
           e == SentEnd(held, s, b)
           P == Pieces(s, e)
           n == HowMany(s, e)
<1>1. s \in Nat /\ b \in Nat /\ s < b
  OBVIOUS
<1>2. /\ a.sent = P
      /\ a.rest = IF e < b THEN <<ByteRange(e, b)>> ELSE <<>>
  BY DEF Answer
<1> HIDE DEF s, b
<1>3. e \in s..b /\ s..(e - 1) \subseteq held /\ (e = b \/ e \notin held)
  BY <1>1, SentEndIs
<1> HIDE DEF e
<1>4. e \in Nat /\ s <= e /\ e <= b
  BY <1>1, <1>3
<1>5. /\ P \in Seq(Rng) /\ Len(P) = n
      /\ \A i \in 1..n : s <= P[i].start /\ P[i].end <= e
  BY <1>1, <1>4, PiecesAre
<1>n. n \in Nat
  BY <1>5
<1> HIDE DEF P
<1>6. \A i \in 1..n : P[i].start \in Nat /\ P[i].end \in Nat /\ P[i].start < P[i].end
  BY <1>5, RngFields
<1>7. ASSUME NEW i \in 1..n, b - s <= MSS  PROVE P[i].start = s
  <2>0. MSS \in Nat  BY MSSAssumption
  <2>1. n <= 1
    BY <1>1, <1>4, <1>7, <2>0, OnePiece
  <2>2. i = 1 /\ n = 1
    BY <1>n, <2>1
  <2> HIDE DEF n
  <2>3. P[1].start = s
    <3>1. P[1].start = s + (1 - 1) * MSS
      <4>1. P = [m \in 1..HowMany(s, e) |-> ByteRange(s + (m - 1) * MSS, Least(s + m * MSS, e))]
        BY DEF P, Pieces, HowMany
      <4>2. 1 \in 1..HowMany(s, e)
        BY <2>2 DEF n
      <4>3. P[1] = ByteRange(s + (1 - 1) * MSS, Least(s + 1 * MSS, e))
        BY <4>1, <4>2
      <4> QED  BY <4>3 DEF ByteRange
    <3> QED  BY <1>1, <2>0, <3>1
  <2> QED  BY <2>2, <2>3
<1> HIDE DEF n
<1>8. ASSUME NEW i \in 1..n  PROVE BytesOf(P[i]) \subseteq held
  BY <1>1, <1>3, <1>4, <1>5, <1>6 DEF BytesOf
<1>9. ASSUME e < b
      PROVE  /\ a.rest \in Seq(Rng) /\ Len(a.rest) = 1
             /\ a.rest[1].start = e /\ a.rest[1].end = b /\ e \notin held
  <2>1. a.rest = <<ByteRange(e, b)>>
    BY <1>2, <1>9
  <2>2. ByteRange(e, b) \in Rng /\ ByteRange(e, b).start = e /\ ByteRange(e, b).end = b
    BY <1>1, <1>4, <1>9 DEF ByteRange, Rng
  <2> DEFINE d == ByteRange(e, b)
  <2> HIDE DEF d
  <2>3. <<d>> \in Seq(Rng) /\ Len(<<d>>) = 1 /\ <<d>>[1] = d
    BY <2>2 DEF d
  <2> QED  BY <1>1, <1>3, <1>4, <1>9, <2>1, <2>2, <2>3 DEF d
<1>10. ASSUME ~(e < b)  PROVE a.rest = <<>> /\ a.rest \in Seq(Rng) /\ Len(a.rest) = 0
  BY <1>2, <1>10
<1>11. BytesOf(r) \subseteq held => ~(e < b)
  <2> SUFFICES ASSUME BytesOf(r) \subseteq held, e < b  PROVE FALSE
    OBVIOUS
  <2>1. e \in BytesOf(r)
    BY <1>1, <1>4 DEF BytesOf, s, b
  <2> QED  BY <1>9, <2>1
<1>12. \A i \in 1..Len(a.sent) : /\ s <= a.sent[i].start /\ a.sent[i].end <= b
                                 /\ BytesOf(a.sent[i]) \subseteq held
                                 /\ b - s <= MSS => a.sent[i].start = s
  BY <1>1, <1>2, <1>4, <1>5, <1>6, <1>7, <1>8
<1>13. \A i \in 1..Len(a.rest) : /\ s <= a.rest[i].start /\ a.rest[i].end = b
                                 /\ a.rest[i].start \notin held
  <2>1. CASE e < b
    BY <1>4, <1>9, <2>1
  <2>2. CASE ~(e < b)
    BY <1>10, <2>2
  <2> QED  BY <2>1, <2>2
<1>14. a.sent \in Seq(Rng) /\ a.rest \in Seq(Rng)
  BY <1>2, <1>5, <1>9, <1>10
<1> QED  BY <1>10, <1>11, <1>12, <1>13, <1>14 DEF AnswerOf, s, b

RangesOK(rs, lo, hi) ==
  /\ Len(rs) \in Nat /\ DOMAIN rs = 1..Len(rs)
  /\ \A i \in 1..Len(rs) : /\ rs[i].start \in Nat /\ rs[i].end \in Nat
                           /\ rs[i].start < rs[i].end
                           /\ lo <= rs[i].start /\ rs[i].end <= hi

\* A piece p of the answer to r.
PieceOf(p, held, r) ==
  /\ r.start <= p.start /\ p.end <= r.end /\ BytesOf(p) \subseteq held
  /\ r.end - r.start <= MSS => p.start = r.start

LEMMA SentForIs ==
  ASSUME NEW held, NEW lo \in Nat, NEW hi \in Int, NEW rs, RangesOK(rs, lo, hi)
  PROVE  /\ SentFor(held, rs) \in Seq(RngIn(lo, hi))
         /\ \A j \in 1..Len(SentFor(held, rs)) :
              \E i \in 1..Len(rs) : PieceOf(SentFor(held, rs)[j], held, rs[i])
<1> DEFINE n == Len(rs)
           q == [i \in 1..n |-> Answer(held, rs[i]).sent]
           F == FlattenSeq(q)
           X == RngIn(lo, hi)
<1>0. /\ n \in Nat /\ DOMAIN rs = 1..n
      /\ \A i \in 1..n : /\ rs[i].start \in Nat /\ rs[i].end \in Nat
                         /\ rs[i].start < rs[i].end
                         /\ lo <= rs[i].start /\ rs[i].end <= hi
  BY DEF RangesOK
<1>1. SentFor(held, rs) = F
  BY <1>0 DEF SentFor
<1>2. ASSUME NEW i \in 1..n
      PROVE  q[i] \in Seq(X) /\ \A m \in 1..Len(q[i]) : PieceOf(q[i][m], held, rs[i])
  <2> DEFINE a == Answer(held, rs[i])
  <2>1. AnswerOf(a, held, rs[i])
    BY <1>0, AnswerAll
  <2>2. q[i] = a.sent
    OBVIOUS
  <2> HIDE DEF a, q, X
  <2>3. a.sent \in Seq(Rng) /\ \A m \in 1..Len(a.sent) : PieceOf(a.sent[m], held, rs[i])
    BY <2>1 DEF AnswerOf, PieceOf
  <2>4. \A m \in 1..Len(a.sent) : a.sent[m] \in X
    <3> SUFFICES ASSUME NEW m \in 1..Len(a.sent)  PROVE a.sent[m] \in X
      OBVIOUS
    <3>1. a.sent[m] \in Rng /\ a.sent[m].start \in Nat /\ a.sent[m].end \in Nat
      BY <2>3, RngFields
    <3>2. rs[i].start <= a.sent[m].start /\ a.sent[m].end <= rs[i].end
      BY <2>3 DEF PieceOf
    <3>3. lo <= a.sent[m].start /\ a.sent[m].end <= hi
      BY <1>0, <3>1, <3>2
    <3> QED  BY <3>1, <3>3 DEF X, RngIn
  <2>5. a.sent \in Seq(X)
    BY <2>3, <2>4
  <2> QED  BY <2>2, <2>3, <2>5
<1>3. q \in [1..n -> Seq(X)]
  <2>1. q = [i \in 1..n |-> q[i]]  OBVIOUS
  <2> HIDE DEF q, X
  <2> QED  BY <1>2, <2>1
<1> HIDE DEF q, X
<1>4. q \in Seq(Seq(X)) /\ Len(q) = n
  BY <1>0, <1>3
<1>5. F \in Seq(X) /\ InPlace(F, q, n)
  BY <1>4, FlattenPlaces
<1> HIDE DEF F, n
<1>6. ASSUME NEW j \in 1..Len(F)
      PROVE  \E i \in 1..n : PieceOf(F[j], held, rs[i])
  <2>1. PICK i \in 1..n : \E m \in 1..Len(q[i]) : F[j] = q[i][m]
    BY <1>5 DEF InPlace
  <2> QED  BY <1>2, <2>1
<1>7. F \in Seq(X) /\ \A j \in 1..Len(F) : \E i \in 1..n : PieceOf(F[j], held, rs[i])
  BY <1>5, <1>6
<1> QED  BY <1>1, <1>7 DEF X, n

\* The rest r of an interest that the cache could not answer.
RestOf(p, held, r) ==
  r.start <= p.start /\ p.end = r.end /\ p.start \notin held

LEMMA RestForIs ==
  ASSUME NEW held, NEW lo \in Nat, NEW hi \in Int, NEW rs, RangesOK(rs, lo, hi)
  PROVE  /\ RestFor(held, rs) \in Seq(RngIn(lo, hi))
         /\ \A j \in 1..Len(RestFor(held, rs)) :
              \E i \in 1..Len(rs) : RestOf(RestFor(held, rs)[j], held, rs[i])
         /\ (\A i \in 1..Len(rs) : BytesOf(rs[i]) \subseteq held) => RestFor(held, rs) = <<>>
<1> DEFINE n == Len(rs)
           q == [i \in 1..n |-> Answer(held, rs[i]).rest]
           F == FlattenSeq(q)
           X == RngIn(lo, hi)
<1>0. /\ n \in Nat /\ DOMAIN rs = 1..n
      /\ \A i \in 1..n : /\ rs[i].start \in Nat /\ rs[i].end \in Nat
                         /\ rs[i].start < rs[i].end
                         /\ lo <= rs[i].start /\ rs[i].end <= hi
  BY DEF RangesOK
<1>1. RestFor(held, rs) = F
  BY <1>0 DEF RestFor
<1>2. ASSUME NEW i \in 1..n
      PROVE  /\ q[i] \in Seq(X) /\ \A m \in 1..Len(q[i]) : RestOf(q[i][m], held, rs[i])
             /\ BytesOf(rs[i]) \subseteq held => Len(q[i]) = 0
  <2> DEFINE a == Answer(held, rs[i])
  <2>1. AnswerOf(a, held, rs[i])
    BY <1>0, AnswerAll
  <2>2. q[i] = a.rest
    OBVIOUS
  <2> HIDE DEF a, q, X
  <2>3. /\ a.rest \in Seq(Rng) /\ \A m \in 1..Len(a.rest) : RestOf(a.rest[m], held, rs[i])
        /\ BytesOf(rs[i]) \subseteq held => Len(a.rest) = 0
    BY <2>1 DEF AnswerOf, RestOf
  <2>4. \A m \in 1..Len(a.rest) : a.rest[m] \in X
    <3> SUFFICES ASSUME NEW m \in 1..Len(a.rest)  PROVE a.rest[m] \in X
      OBVIOUS
    <3>1. a.rest[m] \in Rng /\ a.rest[m].start \in Nat /\ a.rest[m].end \in Nat
      BY <2>3, RngFields
    <3>2. rs[i].start <= a.rest[m].start /\ a.rest[m].end = rs[i].end
      BY <2>3 DEF RestOf
    <3>3. lo <= a.rest[m].start /\ a.rest[m].end <= hi
      BY <1>0, <3>1, <3>2
    <3> QED  BY <3>1, <3>3 DEF X, RngIn
  <2>5. a.rest \in Seq(X)
    BY <2>3, <2>4
  <2> QED  BY <2>2, <2>3, <2>5
<1>3. q \in [1..n -> Seq(X)]
  <2>1. q = [i \in 1..n |-> q[i]]  OBVIOUS
  <2> HIDE DEF q, X
  <2> QED  BY <1>2, <2>1
<1> HIDE DEF q, X
<1>4. q \in Seq(Seq(X)) /\ Len(q) = n
  BY <1>0, <1>3
<1>5. F \in Seq(X) /\ InPlace(F, q, n)
  BY <1>4, FlattenPlaces
<1> HIDE DEF F, n
<1>6. ASSUME NEW j \in 1..Len(F)
      PROVE  \E i \in 1..n : Len(q[i]) # 0 /\ RestOf(F[j], held, rs[i])
  <2>1. PICK i \in 1..n : \E m \in 1..Len(q[i]) : F[j] = q[i][m]
    BY <1>5 DEF InPlace
  <2>2. Len(q[i]) # 0
    BY <1>2, <2>1
  <2> QED  BY <1>2, <2>1, <2>2
<1>7. ASSUME \A i \in 1..n : BytesOf(rs[i]) \subseteq held
      PROVE  F = <<>>
  <2>1. \A j \in 1..Len(F) : FALSE
    BY <1>2, <1>6, <1>7
  <2> QED  BY <1>5, <2>1
<1>8. /\ F \in Seq(X) /\ \A j \in 1..Len(F) : \E i \in 1..n : RestOf(F[j], held, rs[i])
      /\ (\A i \in 1..n : BytesOf(rs[i]) \subseteq held) => F = <<>>
  BY <1>5, <1>6, <1>7
<1> QED  BY <1>1, <1>8 DEF X, n

LEMMA SegsIs ==
  ASSUME NEW kind \in Kinds, NEW lo \in Nat, NEW hi \in Int, NEW rs, RangesOK(rs, lo, hi)
  PROVE  /\ Segs(kind, rs) \in Seq(SegIn(lo, hi)) /\ Len(Segs(kind, rs)) = Len(rs)
         /\ \A i \in 1..Len(rs) : /\ Segs(kind, rs)[i].kind = kind
                                  /\ Segs(kind, rs)[i].start = rs[i].start
                                  /\ Segs(kind, rs)[i].end = rs[i].end
<1> DEFINE n == Len(rs)
           S == Segs(kind, rs)
           X == SegIn(lo, hi)
<1>0. /\ n \in Nat /\ DOMAIN rs = 1..n
      /\ \A i \in 1..n : /\ rs[i].start \in Nat /\ rs[i].end \in Nat
                         /\ rs[i].start < rs[i].end
                         /\ lo <= rs[i].start /\ rs[i].end <= hi
  BY DEF RangesOK
<1>1. S = [i \in 1..n |-> [kind |-> kind, start |-> rs[i].start, end |-> rs[i].end]]
  BY <1>0 DEF Segs, Seg
<1> HIDE DEF S, n
<1>2. \A i \in 1..n : /\ S[i] = [kind |-> kind, start |-> rs[i].start, end |-> rs[i].end]
                      /\ S[i] \in X
  BY <1>0, <1>1 DEF SegIn
<1> HIDE DEF X
<1>3. S \in [1..n -> X]
  BY <1>1, <1>2
<1>4. S \in Seq(X) /\ Len(S) = n
  BY <1>0, <1>3
<1>5. ASSUME NEW i \in 1..n
      PROVE  S[i].kind = kind /\ S[i].start = rs[i].start /\ S[i].end = rs[i].end
  <2>1. S[i] = [kind |-> kind, start |-> rs[i].start, end |-> rs[i].end]
    BY <1>2
  <2> QED  BY <2>1
<1> QED  BY <1>4, <1>5 DEF S, n, X

LEMMA RngInOK ==
  ASSUME NEW lo \in Nat, NEW hi \in Int, NEW rs \in Seq(RngIn(lo, hi))
  PROVE  RangesOK(rs, lo, hi) /\ rs \in Seq(Rng)
<1>1. rs \in Seq(Rng)
  <2>1. RngIn(lo, hi) \subseteq Rng  BY DEF RngIn
  <2> HIDE DEF RngIn
  <2> QED  BY <2>1
<1>2. Len(rs) \in Nat /\ DOMAIN rs = 1..Len(rs) /\ \A i \in 1..Len(rs) : rs[i] \in RngIn(lo, hi)
  OBVIOUS
<1>3. \A i \in 1..Len(rs) : rs[i].start \in Nat /\ rs[i].end \in Nat /\ rs[i].start < rs[i].end
  BY <1>1, RngFields
<1> QED  BY <1>1, <1>2, <1>3 DEF RangesOK, RngIn

\* What parseInt does to the session.
Served(n, s, rs, t) ==
  /\ t.next = s.next /\ t.holes = s.holes /\ t.rcvQueue = s.rcvQueue
  /\ t.seen = s.seen /\ t.asked = s.asked /\ t.forwarded = s.forwarded
  /\ t.skipped = s.skipped /\ t.straddled = s.straddled
  /\ t.sndQueue = s.sndQueue \o Segs("data", SentFor(cache[n], rs))
  /\ t.pendingInts = (IF n = 0 THEN s.pendingInts \o RestFor(cache[n], rs) ELSE s.pendingInts)
  /\ t.intQueue = (IF n = 0 THEN s.intQueue ELSE s.intQueue \o RestFor(cache[n], rs))

LEMMA ParseIntsIs ==
  ASSUME NEW n, NEW lo \in Nat, NEW hi \in Nat, NEW s \in Sess(lo, hi),
         NEW rs, RangesOK(rs, lo, hi), NEW t, t = ParseInts(n, s, rs)
  PROVE  t \in Sess(lo, hi) /\ Served(n, s, rs, t)
<1> DEFINE held == cache[n]
           F == SentFor(held, rs)
           R == RestFor(held, rs)
           X == SegIn(lo, hi)
           Y == RngIn(lo, hi)
           snd == s.sndQueue \o Segs("data", F)
           pend == IF n = 0 THEN s.pendingInts \o R ELSE s.pendingInts
           ints == IF n = 0 THEN s.intQueue ELSE s.intQueue \o R
<1>0. hi \in Int
  OBVIOUS
<1>1. F \in Seq(Y) /\ R \in Seq(Y)
  BY <1>0, SentForIs, RestForIs
<1>2. Segs("data", F) \in Seq(X)
  <2> HIDE DEF F
  <2>1. RangesOK(F, lo, hi)
    BY <1>1, RngInOK
  <2> QED  BY <2>1, SegsIs DEF Kinds
<1>3. s.sndQueue \in Seq(X) /\ s.pendingInts \in Seq(Y) /\ s.intQueue \in Seq(Y)
  BY DEF Sess
<1>4. t = [s EXCEPT !.sndQueue = snd, !.pendingInts = pend, !.intQueue = ints]
  <2>1. F = FlattenSeq([i \in DOMAIN rs |-> [j \in DOMAIN rs |-> Answer(cache[n], rs[j])][i].sent])
    <3>1. [i \in DOMAIN rs |-> [j \in DOMAIN rs |-> Answer(cache[n], rs[j])][i].sent]
            = [i \in DOMAIN rs |-> Answer(cache[n], rs[i]).sent]
      OBVIOUS
    <3> QED  BY <3>1, Zenon DEF SentFor
  <2>2. R = FlattenSeq([i \in DOMAIN rs |-> [j \in DOMAIN rs |-> Answer(cache[n], rs[j])][i].rest])
    <3>1. [i \in DOMAIN rs |-> [j \in DOMAIN rs |-> Answer(cache[n], rs[j])][i].rest]
            = [i \in DOMAIN rs |-> Answer(cache[n], rs[i]).rest]
      OBVIOUS
    <3> QED  BY <3>1, Zenon DEF RestFor
  <2> HIDE DEF F, R
  <2> QED  BY <2>1, <2>2 DEF ParseInts
<1>5. snd \in Seq(X) /\ pend \in Seq(Y) /\ ints \in Seq(Y)
  <2> HIDE DEF F, R, X, Y
  <2> QED  BY <1>1, <1>2, <1>3
<1> HIDE DEF snd, pend, ints, F, R
<1>6. /\ t \in Sess(lo, hi)
      /\ t.next = s.next /\ t.holes = s.holes /\ t.rcvQueue = s.rcvQueue
      /\ t.seen = s.seen /\ t.asked = s.asked /\ t.forwarded = s.forwarded
      /\ t.skipped = s.skipped /\ t.straddled = s.straddled
      /\ t.sndQueue = snd /\ t.pendingInts = pend /\ t.intQueue = ints
  BY <1>4, <1>5 DEF Sess, X, Y
<1> QED  BY <1>6 DEF Served, snd, pend, ints, F, R

-----------------------------------------------------------------------------
(***************************************************************************)
(* A flush.                                                                *)
(***************************************************************************)
LEMMA Bounded ==
  ASSUME NEW lo \in Nat, NEW hi \in Int, NEW q \in Seq(RngIn(lo, hi)),
         NEW rs \in Seq(Rng), BytesIn(rs) = BytesIn(q)
  PROVE  rs \in Seq(RngIn(lo, hi))
<1>1. /\ q \in Seq(Rng) /\ Len(q) \in Nat
      /\ \A k \in 1..Len(q) : /\ q[k].start \in Nat /\ q[k].end \in Nat
                              /\ lo <= q[k].start /\ q[k].end <= hi
  BY RngInOK DEF RangesOK
<1>2. ASSUME NEW x \in BytesIn(q)  PROVE lo <= x /\ x < hi /\ x \in Nat
  <2>1. PICK i \in 1..Len(q) : In(q[i], x) /\ x \in Nat
    BY <1>1, RngBytes DEF Covered
  <2> QED  BY <1>1, <2>1 DEF In
<1>3. \A i \in 1..Len(rs) : /\ rs[i] \in Rng /\ rs[i].start \in Nat /\ rs[i].end \in Nat
                            /\ rs[i].start < rs[i].end
  BY RngFields
<1>4. \A x : x \in BytesIn(rs) <=> x \in Nat /\ Covered(rs, x)
  BY RngBytes
<1>5. ASSUME NEW i \in 1..Len(rs)  PROVE rs[i] \in RngIn(lo, hi)
  <2> DEFINE a == rs[i].start
             b == rs[i].end
  <2>1. a \in Nat /\ b \in Nat /\ a < b /\ b - 1 \in Nat
    BY <1>3
  <2>2. In(rs[i], a) /\ In(rs[i], b - 1)
    BY <1>3 DEF In
  <2>3. a \in BytesIn(q) /\ b - 1 \in BytesIn(q)
    BY <1>4, <2>1, <2>2 DEF Covered
  <2>4. lo <= a /\ b - 1 < hi
    BY <1>2, <2>3
  <2> QED  BY <1>3, <2>1, <2>4 DEF RngIn
<1>6. Len(rs) \in Nat /\ DOMAIN rs = 1..Len(rs) /\ rs = [i \in 1..Len(rs) |-> rs[i]]
  OBVIOUS
<1> HIDE DEF RngIn
<1> QED  BY <1>5, <1>6

LEMMA FlushQueueIs ==
  ASSUME NEW lo \in Nat, NEW hi \in Int, NEW q \in Seq(RngIn(lo, hi)),
         NEW F, F = FlushIntQueue(q)
  PROVE  /\ F \in Seq(RngIn(lo, hi)) /\ BytesIn(F) = BytesIn(q)
         /\ \A i \in 1..Len(F) : F[i].end - F[i].start \in 1..MSS
<1>1. q \in Seq(Rng)
  BY RngInOK
<1>2. Runs(q) \in Seq(Rng) /\ BytesIn(Runs(q)) = BytesIn(q)
  BY <1>1, RunsAre
<1>3. F = Asked(Runs(q))
  BY DEF FlushIntQueue, Runs, Asked, Cuts
<1>4. /\ F \in Seq(Rng) /\ BytesIn(F) = BytesIn(q)
      /\ \A i \in 1..Len(F) : F[i].end - F[i].start \in 1..MSS
  BY <1>2, <1>3, AskedCovers
<1> QED  BY <1>4, Bounded

LEMMA MissBytes ==
  ASSUME NEW H \in Seq(Hole)
  PROVE  BytesIn(H) = {m[1] : m \in MissOf(H)}
<1>1. \A m : m \in MissOf(H) <=>
        \E i \in 1..Len(H) : \E x \in Nat : In(H[i], x) /\ m = <<x, H[i].age>>
  BY MissIs
<1>2. \A x : x \in BytesIn(H) <=> x \in Nat /\ \E i \in 1..Len(H) : In(H[i], x)
  BY HoleBytes DEF Covered
<1>3. ASSUME NEW x \in BytesIn(H)  PROVE x \in {m[1] : m \in MissOf(H)}
  <2>1. PICK i \in 1..Len(H) : In(H[i], x) /\ x \in Nat
    BY <1>2
  <2> DEFINE m == <<x, H[i].age>>
  <2>2. m \in MissOf(H) /\ m[1] = x
    BY <1>1, <2>1
  <2> HIDE DEF m
  <2> QED  BY <2>2
<1>4. ASSUME NEW m \in MissOf(H)  PROVE m[1] \in BytesIn(H)
  <2>1. PICK i \in 1..Len(H), x \in Nat : In(H[i], x) /\ m = <<x, H[i].age>>
    BY <1>1
  <2>2. m[1] = x
    BY <2>1
  <2> QED  BY <1>2, <2>1, <2>2
<1> QED  BY <1>3, <1>4

\* What HoleTracker says of a flush, with interests for the bytes F.
Flushes(s, t, F) ==
  LET open == {m \in MissOf(s.holes) : m[1] \notin F}
      ripe == {m \in open : m[2] >= HoleWait}
  IN /\ MissOf(t.holes) = open \ ripe
     /\ t.asked = s.asked \cup {m[1] : m \in ripe}
     /\ t.forwarded = s.forwarded \cup F
     /\ t.next = s.next /\ t.seen = s.seen /\ t.skipped = s.skipped
     /\ t.straddled = s.straddled

OpenHoles(n) == DeleteDataHoles(tcb[n].holes, ForwardedInts(n))

Queued(n, s, t) ==
  LET ripe == RipeHoles(OpenHoles(n), HoleWait)
  IN /\ t.holes = YoungHoles(OpenHoles(n), HoleWait)
     /\ t.rcvQueue = s.rcvQueue /\ t.pendingInts = s.pendingInts
     /\ t.sndQueue = (IF n = K THEN s.sndQueue
                      ELSE s.sndQueue \o Segs("data", SentFor(cache[n], ripe)))
     /\ t.intQueue = (IF n = K THEN <<>> ELSE RestFor(cache[n], ripe))

LEMMA HolesRanges ==
  ASSUME NEW lo \in Nat, NEW e \in Int, NEW hi \in Int, e <= hi, NEW H, HolesOK(H, lo, e)
  PROVE  RangesOK(H, lo, hi)
<1>1. H \in Seq(Hole) /\ \A i \in 1..Len(H) : lo <= H[i].start /\ H[i].end <= e
  BY DEF HolesOK
<1>2. /\ Len(H) \in Nat /\ DOMAIN H = 1..Len(H)
      /\ \A i \in 1..Len(H) : /\ H[i].start \in Nat /\ H[i].end \in Nat
                              /\ H[i].start < H[i].end
  BY <1>1, HoleFields
<1> QED  BY <1>1, <1>2 DEF RangesOK

LEMMA FlushedIs ==
  ASSUME NEW n, n # 0, NEW lo \in Nat, NEW hi \in Nat, NEW s, s = tcb[n], SessOK(s, lo, hi),
         NEW t \in Flushed(n)
  PROVE  /\ SessOK(t, lo, hi) /\ Queued(n, s, t)
         /\ Flushes(s, t, BytesIn(ForwardedInts(n)))
         /\ ForwardedInts(n) \in Seq(RngIn(lo, hi))
<1> DEFINE is == ForwardedInts(n)
           F == BytesIn(is)
           D == OpenHoles(n)
           R == RipeHoles(D, HoleWait)
           Y == YoungHoles(D, HoleWait)
           e == s.next - 1
           open == {m \in MissOf(s.holes) : m[1] \notin F}
           u == SendInts(n)
           fw == u.forwarded
           ask == u.asked \cup BytesIn(R)
           v == [u EXCEPT !.holes = Y, !.asked = ask]
<1>0. HoleWait \in Nat
  BY HopChainAssumption
<1>1. /\ s \in Sess(lo, hi) /\ HolesOK(s.holes, lo, e) /\ (s.next = 0 \/ lo <= s.next)
      /\ e \in Int /\ e <= hi /\ s.intQueue \in Seq(RngIn(lo, hi))
      /\ s.asked \in SUBSET Nat /\ s.forwarded \in SUBSET Nat
  BY DEF SessOK, Sess
<1>2. is \in Seq(RngIn(lo, hi)) /\ is \in Seq(Rng)
  <2>1. is = FlushIntQueue(s.intQueue)
    BY DEF ForwardedInts
  <2>2. hi \in Int
    OBVIOUS
  <2> HIDE DEF is
  <2> QED  BY <1>1, <2>1, <2>2, FlushQueueIs, RngInOK
<1>3. HolesOK(D, lo, e) /\ MissOf(D) = open
  <2>1. D = DeleteDataHoles(s.holes, is)
    BY DEF OpenHoles
  <2> DEFINE H == s.holes
  <2> HIDE DEF is, D, H, e
  <2>2. HolesOK(D, lo, e) /\ MissOf(D) = {m \in MissOf(H) : m[1] \notin BytesIn(is)}
    BY <1>1, <1>2, <2>1, DeleteAllMiss DEF H
  <2> QED  BY <2>2 DEF H
<1>4. /\ HolesOK(R, lo, e) /\ HolesOK(Y, lo, e)
      /\ MissOf(R) = {m \in open : m[2] >= HoleWait}
      /\ MissOf(Y) = open \ {m \in open : m[2] >= HoleWait}
  <2> HIDE DEF D, open, e
  <2> DEFINE w == HoleWait
  <2>1. e \in Int /\ HolesOK(D, lo, e) /\ w \in Nat
    BY <1>0, <1>1, <1>3
  <2> HIDE DEF w
  <2>2. /\ HolesOK(RipeHoles(D, w), lo, e) /\ HolesOK(YoungHoles(D, w), lo, e)
        /\ MissOf(RipeHoles(D, w)) = {m \in MissOf(D) : m[2] >= w}
        /\ MissOf(YoungHoles(D, w)) = MissOf(D) \ {m \in MissOf(D) : m[2] >= w}
    BY <2>1, RipeIs
  <2> QED  BY <1>3, <2>2 DEF w
<1>5. BytesIn(R) = {m[1] : m \in {k \in open : k[2] >= HoleWait}} /\ BytesIn(R) \in SUBSET Nat
  <2> HIDE DEF R, open
  <2>1. R \in Seq(Hole)
    BY <1>4 DEF HolesOK
  <2> QED  BY <1>4, <2>1, MissBytes, HoleBytes
<1>6. F \in SUBSET Nat
  <2> HIDE DEF is
  <2> QED  BY <1>2, RngBytes
<1>7. u = [s EXCEPT !.intQueue = <<>>, !.holes = D, !.forwarded = @ \cup F]
  BY DEF SendInts, OpenHoles
<1>8. Y \in Seq(Hole) /\ D \in Seq(Hole)
  BY <1>3, <1>4 DEF HolesOK
<1> HIDE DEF is, F, D, R, Y, e, open
<1>9. /\ u \in Sess(lo, hi) /\ u.intQueue = <<>> /\ u.holes = D
      /\ u.forwarded = s.forwarded \cup F /\ u.asked = s.asked /\ u.next = s.next
      /\ u.seen = s.seen /\ u.skipped = s.skipped /\ u.straddled = s.straddled
      /\ u.rcvQueue = s.rcvQueue /\ u.pendingInts = s.pendingInts
      /\ u.sndQueue = s.sndQueue
  <2>1. <<>> \in Seq(RngIn(lo, hi))
    OBVIOUS
  <2>2. s.forwarded \cup F \in SUBSET Nat
    BY <1>1, <1>6
  <2> HIDE DEF u
  <2> QED  BY <1>1, <1>7, <1>8, <2>1, <2>2 DEF Sess
<1>10. t = IF n = K THEN v ELSE ParseInts(n, v, R)
  <2>1. t = AskForRipe(n, u)
    BY DEF Flushed
  <2> HIDE DEF u
  <2>2. u.holes = D
    BY <1>9
  <2> QED  BY <2>1, <2>2 DEF AskForRipe, R, Y
<1> HIDE DEF u
<1>11. /\ v \in Sess(lo, hi) /\ v.intQueue = <<>> /\ v.holes = Y
       /\ v.forwarded = s.forwarded \cup F /\ v.asked = s.asked \cup BytesIn(R)
       /\ v.next = s.next
       /\ v.seen = s.seen /\ v.skipped = s.skipped /\ v.straddled = s.straddled
       /\ v.rcvQueue = s.rcvQueue /\ v.pendingInts = s.pendingInts
       /\ v.sndQueue = s.sndQueue
  <2>1. ask \in SUBSET Nat /\ ask = s.asked \cup BytesIn(R)
    BY <1>1, <1>5, <1>9
  <2> HIDE DEF ask
  <2> QED  BY <1>8, <1>9, <2>1 DEF Sess
<1> HIDE DEF v
<1>12. RangesOK(R, lo, hi)
  BY <1>1, <1>4, HolesRanges
<1>13. /\ t \in Sess(lo, hi) /\ t.holes = Y
       /\ t.forwarded = s.forwarded \cup F /\ t.asked = s.asked \cup BytesIn(R)
       /\ t.next = s.next
       /\ t.seen = s.seen /\ t.skipped = s.skipped /\ t.straddled = s.straddled
       /\ t.rcvQueue = s.rcvQueue /\ t.pendingInts = s.pendingInts
       /\ t.sndQueue = (IF n = K THEN s.sndQueue
                        ELSE s.sndQueue \o Segs("data", SentFor(cache[n], R)))
       /\ t.intQueue = (IF n = K THEN <<>> ELSE RestFor(cache[n], R))
  <2>1. CASE n = K
    BY <1>10, <1>11, <2>1
  <2>2. CASE n # K
    <3> DEFINE w == ParseInts(n, v, R)
    <3>1. t = w
      BY <1>10, <2>2
    <3> HIDE DEF w
    <3>2. w \in Sess(lo, hi) /\ Served(n, v, R, w)
      BY <1>11, <1>12, ParseIntsIs DEF w
    <3>3. RestFor(cache[n], R) \in Seq(RngIn(lo, hi))
      <4>1. hi \in Int
        OBVIOUS
      <4> QED  BY <1>12, <4>1, RestForIs
    <3>4. <<>> \o RestFor(cache[n], R) = RestFor(cache[n], R)
      BY <3>3
    <3> QED  BY <1>11, <2>2, <3>1, <3>2, <3>4 DEF Served
  <2> QED  BY <2>1, <2>2
<1>14. SessOK(t, lo, hi)
  BY <1>1, <1>4, <1>13 DEF SessOK, e
<1>15. Queued(n, s, t)
  BY <1>13 DEF Queued, R, Y, D
<1>16. Flushes(s, t, F)
  BY <1>4, <1>5, <1>13 DEF Flushes, open
<1> QED  BY <1>2, <1>14, <1>15, <1>16 DEF F, is

-----------------------------------------------------------------------------
(***************************************************************************)
(* The state of the path.  The stream that is under way is [lo, packetId): *)
(* every range anywhere lies in it, and the responder has all of it.       *)
(***************************************************************************)
PathInvAt(lo) ==
  /\ lo \in Nat /\ packetId \in Nat /\ lo <= packetId /\ packetId <= MaxByte
  /\ cache \in [Nodes -> SUBSET Nat] /\ cache[0] = lo..(packetId - 1)
  /\ tcb \in [Nodes -> Sess(lo, packetId)]
  /\ \A n \in Nodes : SessOK(tcb[n], lo, packetId)
  /\ tcb[0].pendingInts = <<>>
  /\ net \in [Links -> Seq(SegIn(lo, packetId))]

PathInv == \E lo \in Nat : PathInvAt(lo)

\* What a step may do to a session, as HoleTracker sees it: nothing, take a
\* range in (Arrives), send its interests (Flushes), or let its holes age.
Keeps(s, t) ==
  /\ t.next = s.next /\ MissOf(t.holes) = MissOf(s.holes) /\ t.seen = s.seen
  /\ t.asked = s.asked /\ t.forwarded = s.forwarded /\ t.skipped = s.skipped
  /\ t.straddled = s.straddled

Ages(s, t) ==
  /\ MissOf(s.holes) # {}
  /\ \A m \in MissOf(s.holes) : m[2] < HoleWait
  /\ MissOf(t.holes) = {<<m[1], m[2] + 1>> : m \in MissOf(s.holes)}
  /\ t.next = s.next /\ t.seen = s.seen
  /\ t.asked = s.asked /\ t.forwarded = s.forwarded /\ t.skipped = s.skipped
  /\ t.straddled = s.straddled

Moves(s, t, lo, hi) ==
  \/ Keeps(s, t)
  \/ \E g \in SegIn(lo, hi) : Arrives(s, t, g)
  \/ \E F \in SUBSET (lo..(hi - 1)) : Flushes(s, t, F)
  \/ Ages(s, t)

StepOK(lo) ==
  /\ PathInvAt(lo)'
  /\ \A n \in Nodes : Moves(tcb[n], tcb'[n], lo, packetId')

LEMMA Longer ==
  ASSUME NEW lo \in Nat, NEW hi \in Nat, NEW hj \in Nat, hi <= hj
  PROVE  /\ SegIn(lo, hi) \subseteq SegIn(lo, hj)
         /\ Sess(lo, hi) \subseteq Sess(lo, hj)
         /\ \A s : SessOK(s, lo, hi) => SessOK(s, lo, hj)
<1>1. SegIn(lo, hi) \subseteq SegIn(lo, hj)
  BY DEF SegIn
<1>2. RngIn(lo, hi) \subseteq RngIn(lo, hj)
  BY DEF RngIn, Rng
<1> DEFINE S == SegIn(lo, hi)
           T == SegIn(lo, hj)
           Q == RngIn(lo, hi)
           R == RngIn(lo, hj)
<1>3. Seq(S) \subseteq Seq(T) /\ Seq(Q) \subseteq Seq(R)
  <2>1. S \subseteq T /\ Q \subseteq R
    BY <1>1, <1>2
  <2> HIDE DEF S, T, Q, R
  <2> QED  BY <2>1
<1>4. 0..hi \subseteq 0..hj
  OBVIOUS
<1> HIDE DEF S, T, Q, R
<1>5. Sess(lo, hi) \subseteq Sess(lo, hj)
  <2> SUFFICES ASSUME NEW s \in Sess(lo, hi)  PROVE s \in Sess(lo, hj)
    OBVIOUS
  <2> QED  BY <1>3, <1>4 DEF Sess, S, T, Q, R
<1> QED  BY <1>1, <1>5 DEF SessOK, S, T

LEMMA NodesAre ==
  /\ 0 \in Nodes /\ K \in Nodes /\ K # 0 /\ K \in Nat
  /\ \A n \in Nodes : n # 0 => n \in 1..K
  /\ \A n \in Nodes : n # K => n + 1 \in 1..K
  /\ \A n \in Nodes : IsMidnode(n) => n # 0 /\ n # K
  /\ \A k \in 1..K : <<"data", k>> \in Links /\ <<"int", k>> \in Links
BY HopChainAssumption DEF Nodes, Links, IsMidnode

LEMMA OneSession ==
  ASSUME NEW lo \in Nat, PathInvAt(lo), packetId' \in Nat, packetId <= packetId',
         packetId' <= MaxByte,
         cache' \in [Nodes -> SUBSET Nat], cache'[0] = lo..(packetId' - 1),
         net' \in [Links -> Seq(SegIn(lo, packetId'))],
         NEW n \in Nodes, NEW t, SessOK(t, lo, packetId'),
         n = 0 => t.pendingInts = <<>>,
         Moves(tcb[n], t, lo, packetId'),
         tcb' = [tcb EXCEPT ![n] = t]
  PROVE  StepOK(lo)
<1>1. /\ packetId \in Nat /\ lo <= packetId
      /\ tcb \in [Nodes -> Sess(lo, packetId)]
      /\ \A m \in Nodes : SessOK(tcb[m], lo, packetId)
      /\ tcb[0].pendingInts = <<>>
  BY DEF PathInvAt
<1>2. /\ Sess(lo, packetId) \subseteq Sess(lo, packetId')
      /\ \A s : SessOK(s, lo, packetId) => SessOK(s, lo, packetId')
  BY <1>1, Longer
<1>3. \A m \in Nodes : tcb'[m] = IF m = n THEN t ELSE tcb[m]
  BY <1>1
<1>4. ASSUME NEW m \in Nodes  PROVE SessOK(tcb'[m], lo, packetId')
  BY <1>1, <1>2, <1>3
<1>5. t \in Sess(lo, packetId')
  BY DEF SessOK
<1>6. tcb' \in [Nodes -> Sess(lo, packetId')]
  BY <1>1, <1>2, <1>5
<1>7. tcb'[0].pendingInts = <<>>
  BY <1>1, <1>3, NodesAre
<1>8. ASSUME NEW m \in Nodes  PROVE Moves(tcb[m], tcb'[m], lo, packetId')
  <2>1. CASE m = n
    BY <1>3, <2>1
  <2>2. CASE m # n
    <3>1. tcb'[m] = tcb[m]
      BY <1>3, <2>2
    <3> QED  BY <3>1 DEF Moves, Keeps
  <2> QED  BY <2>1, <2>2
<1>9. lo <= packetId'
  BY <1>1
<1> QED  BY <1>4, <1>6, <1>7, <1>8, <1>9 DEF StepOK, PathInvAt

LEMMA SameStream ==
  ASSUME NEW lo \in Nat, PathInvAt(lo), packetId' = packetId,
         cache' \in [Nodes -> SUBSET Nat], cache'[0] = cache[0],
         net' \in [Links -> Seq(SegIn(lo, packetId))],
         NEW n \in Nodes, NEW t, SessOK(t, lo, packetId),
         n = 0 => t.pendingInts = <<>>,
         Moves(tcb[n], t, lo, packetId),
         tcb' = [tcb EXCEPT ![n] = t]
  PROVE  StepOK(lo)
<1>1. packetId \in Nat /\ packetId <= MaxByte /\ cache[0] = lo..(packetId - 1)
  BY DEF PathInvAt
<1>2. /\ packetId' \in Nat /\ packetId <= packetId' /\ packetId' <= MaxByte
      /\ cache'[0] = lo..(packetId' - 1)
  BY <1>1
<1>3. /\ net' \in [Links -> Seq(SegIn(lo, packetId'))]
      /\ SessOK(t, lo, packetId') /\ Moves(tcb[n], t, lo, packetId')
  OBVIOUS
<1> QED  BY <1>2, <1>3, OneSession

\* A packet g is read, and the responder's session becomes t.
Read(lo, g, t) ==
  /\ g.start = packetId /\ g.end = packetId' /\ g.kind = "data"
  /\ cache' = [cache EXCEPT ![0] = @ \cup BytesOf(g)]
  /\ tcb' = [tcb EXCEPT ![0] = t] /\ net' = net /\ faults' = faults
  /\ packetId' \in Nat /\ packetId < packetId' /\ packetId' <= MaxByte
  /\ g \in SegIn(lo, packetId') /\ BytesOf(g) = packetId..(packetId' - 1)
  /\ SessOK(t, lo, packetId') /\ Taken(0, tcb[0], g, t, lo)

LEMMA TunReadIs ==
  ASSUME NEW lo \in Nat, PathInvAt(lo), NEW size \in Sizes, TunRead(size)
  PROVE  \E g, t : Read(lo, g, t)
<1> DEFINE g == Seg("data", ByteRange(packetId, packetId + size))
           t == Input(0, tcb[0], g)
<1>1. /\ g.end <= MaxByte /\ packetId' = g.end
      /\ cache' = [cache EXCEPT ![0] = @ \cup BytesOf(g)]
      /\ tcb' = [tcb EXCEPT ![0] = t] /\ net' = net /\ faults' = faults
  BY DEF TunRead
<1>2. packetId \in Nat /\ lo <= packetId /\ SessOK(tcb[0], lo, packetId)
  BY NodesAre DEF PathInvAt
<1>3. size \in Nat /\ size > 0
  BY MSSAssumption, HopChainAssumption
<1>4. g.start = packetId /\ g.end = packetId + size /\ g.kind = "data"
  BY DEF Seg, ByteRange
<1>5. /\ packetId' \in Nat /\ packetId < packetId' /\ packetId' <= MaxByte
      /\ packetId' = packetId + size /\ packetId <= packetId'
  BY <1>1, <1>2, <1>3, <1>4
<1>6. g \in SegIn(lo, packetId')
  BY <1>2, <1>3, <1>5 DEF Seg, ByteRange, SegIn, Kinds
<1>7. BytesOf(g) = packetId..(packetId' - 1)
  BY <1>4, <1>5 DEF BytesOf
<1> HIDE DEF g
<1>8. SessOK(tcb[0], lo, packetId')
  BY <1>2, <1>5, Longer
<1>9. SessOK(t, lo, packetId') /\ Taken(0, tcb[0], g, t, lo)
  <2> HIDE DEF t
  <2> QED  BY <1>5, <1>6, <1>8, InputIs DEF t
<1> HIDE DEF t
<1>10. Read(lo, g, t)
  BY <1>1, <1>4, <1>5, <1>6, <1>7, <1>9 DEF Read
<1> QED  BY <1>10

LEMMA TunReadOK ==
  ASSUME NEW lo \in Nat, PathInvAt(lo), NEW g, NEW t, Read(lo, g, t)
  PROVE  StepOK(lo)
<1>1. /\ cache' = [cache EXCEPT ![0] = @ \cup BytesOf(g)]
      /\ tcb' = [tcb EXCEPT ![0] = t] /\ net' = net
      /\ packetId' \in Nat /\ packetId <= packetId' /\ packetId' <= MaxByte
      /\ g \in SegIn(lo, packetId') /\ BytesOf(g) = packetId..(packetId' - 1)
      /\ SessOK(t, lo, packetId') /\ Taken(0, tcb[0], g, t, lo)
  BY DEF Read, PathInvAt
<1>2. /\ packetId \in Nat /\ lo <= packetId
      /\ cache \in [Nodes -> SUBSET Nat] /\ cache[0] = lo..(packetId - 1)
      /\ net \in [Links -> Seq(SegIn(lo, packetId))] /\ tcb[0].pendingInts = <<>>
  BY DEF PathInvAt
<1>3. SegIn(lo, packetId) \subseteq SegIn(lo, packetId')
  BY <1>1, <1>2, Longer
<1>4. Moves(tcb[0], t, lo, packetId') /\ t.pendingInts = <<>>
  BY <1>1, <1>2 DEF Moves, Taken
<1>5. /\ cache' \in [Nodes -> SUBSET Nat] /\ cache'[0] = lo..(packetId' - 1)
  BY <1>1, <1>2, NodesAre
<1>6. net' \in [Links -> Seq(SegIn(lo, packetId'))]
  <2> DEFINE S == SegIn(lo, packetId)
             T == SegIn(lo, packetId')
  <2>1. S \subseteq T /\ net \in [Links -> Seq(S)] /\ net' = net
    BY <1>1, <1>2, <1>3
  <2> HIDE DEF S, T
  <2>2. Seq(S) \subseteq Seq(T)
    BY <2>1
  <2>3. net \in [Links -> Seq(T)]
    BY <2>1, <2>2
  <2> QED  BY <2>1, <2>3 DEF T
<1> QED  BY <1>1, <1>4, <1>5, <1>6, NodesAre, OneSession

LEMMA HeadTail ==
  ASSUME NEW X, NEW q \in Seq(X), q # <<>>
  PROVE  Head(q) \in X /\ Tail(q) \in Seq(X)
OBVIOUS

\* A segment g arrives, and the session becomes t.
Received(n, lo, g, t) ==
  /\ net[<<"data", n>>] # <<>> /\ g = Head(net[<<"data", n>>])
  /\ net' = [net EXCEPT ![<<"data", n>>] = Tail(@)]
  /\ tcb' = [tcb EXCEPT ![n] = t]
  /\ packetId' = packetId /\ cache' = cache /\ faults' = faults
  /\ g \in SegIn(lo, packetId) /\ SessOK(t, lo, packetId) /\ Taken(n, tcb[n], g, t, lo)

LEMMA ReceiveDataIs ==
  ASSUME NEW lo \in Nat, PathInvAt(lo), NEW n \in Nodes, n # 0, ReceiveData(n)
  PROVE  \E g, t : Received(n, lo, g, t)
<1> DEFINE l == <<"data", n>>
           g == Head(net[l])
           s == tcb[n]
           t == Input(n, s, g)
           X == SegIn(lo, packetId)
<1>1. /\ net[l] # <<>> /\ net' = [net EXCEPT ![l] = Tail(@)]
      /\ tcb' = [tcb EXCEPT ![n] = t]
      /\ packetId' = packetId /\ cache' = cache /\ faults' = faults
  BY DEF ReceiveData
<1>2. packetId \in Nat /\ net \in [Links -> Seq(X)] /\ SessOK(s, lo, packetId)
  BY DEF PathInvAt
<1>3. l \in Links
  BY NodesAre
<1>4. g \in X
  <2>1. net[l] \in Seq(X)  BY <1>2, <1>3
  <2> HIDE DEF X, l
  <2> QED  BY <1>1, <2>1, HeadTail
<1>5. g = Head(net[l])
  OBVIOUS
<1> HIDE DEF g, s
<1>6. SessOK(t, lo, packetId) /\ Taken(n, s, g, t, lo)
  <2> HIDE DEF t, l
  <2> QED  BY <1>2, <1>4, InputIs DEF t
<1> HIDE DEF t
<1>7. Received(n, lo, g, t)
  BY <1>1, <1>4, <1>5, <1>6 DEF Received, s
<1> QED  BY <1>7

LEMMA ReceiveDataOK ==
  ASSUME NEW lo \in Nat, PathInvAt(lo), NEW n \in Nodes, n # 0, NEW g, NEW t,
         Received(n, lo, g, t)
  PROVE  StepOK(lo)
<1> DEFINE l == <<"data", n>>
           X == SegIn(lo, packetId)
<1>1. /\ net[l] # <<>> /\ net' = [net EXCEPT ![l] = Tail(@)]
      /\ tcb' = [tcb EXCEPT ![n] = t] /\ packetId' = packetId /\ cache' = cache
      /\ g \in X /\ SessOK(t, lo, packetId) /\ Taken(n, tcb[n], g, t, lo)
  BY DEF Received
<1>2. cache \in [Nodes -> SUBSET Nat] /\ net \in [Links -> Seq(X)] /\ l \in Links
  BY NodesAre DEF PathInvAt
<1>3. Moves(tcb[n], t, lo, packetId)
  BY <1>1 DEF Moves, Taken
<1> HIDE DEF X, l
<1>4. Tail(net[l]) \in Seq(X)
  BY <1>1, <1>2, HeadTail
<1>5. net' \in [Links -> Seq(X)]
  BY <1>1, <1>2, <1>4
<1> QED  BY <1>1, <1>2, <1>3, <1>5, SameStream DEF X

\* An interest g arrives, and the session becomes t.
Asks(n, lo, g, t) ==
  /\ net[<<"int", n + 1>>] # <<>> /\ g = Head(net[<<"int", n + 1>>])
  /\ net' = [net EXCEPT ![<<"int", n + 1>>] = Tail(@)]
  /\ tcb' = [tcb EXCEPT ![n] = t]
  /\ packetId' = packetId /\ cache' = cache /\ faults' = faults
  /\ g \in SegIn(lo, packetId) /\ SessOK(t, lo, packetId) /\ Served(n, tcb[n], <<g>>, t)

LEMMA OneRange ==
  ASSUME NEW lo \in Nat, NEW hi \in Int, NEW g \in SegIn(lo, hi)
  PROVE  RangesOK(<<g>>, lo, hi)
<1>1. /\ g.start \in Nat /\ g.end \in Nat /\ g.start < g.end
      /\ lo <= g.start /\ g.end <= hi
  BY SegFields
<1>2. Len(<<g>>) = 1 /\ DOMAIN <<g>> = 1..1 /\ <<g>>[1] = g
  OBVIOUS
<1> QED  BY <1>1, <1>2 DEF RangesOK

LEMMA ReceiveIntIs ==
  ASSUME NEW lo \in Nat, PathInvAt(lo), NEW n \in Nodes, n # K, ReceiveInt(n)
  PROVE  \E g, t : Asks(n, lo, g, t)
<1> DEFINE l == <<"int", n + 1>>
           g == Head(net[l])
           s == tcb[n]
           rs == <<g>>
           t == ParseInts(n, s, rs)
           X == SegIn(lo, packetId)
<1>1. /\ net[l] # <<>> /\ net' = [net EXCEPT ![l] = Tail(@)]
      /\ tcb' = [tcb EXCEPT ![n] = t]
      /\ packetId' = packetId /\ cache' = cache /\ faults' = faults
  BY DEF ReceiveInt
<1>2. packetId \in Nat /\ packetId \in Int /\ net \in [Links -> Seq(X)] /\ SessOK(s, lo, packetId)
  BY DEF PathInvAt
<1>3. l \in Links
  BY NodesAre
<1>4. g \in X
  <2>1. net[l] \in Seq(X)  BY <1>2, <1>3
  <2> HIDE DEF X, l
  <2> QED  BY <1>1, <2>1, HeadTail
<1>5. g = Head(net[l]) /\ rs = <<g>>
  OBVIOUS
<1> HIDE DEF g, s
<1>6. RangesOK(rs, lo, packetId)
  BY <1>2, <1>4, OneRange
<1> HIDE DEF rs
<1>7. SessOK(t, lo, packetId) /\ Served(n, s, rs, t)
  <2>1. s \in Sess(lo, packetId)
    BY <1>2 DEF SessOK
  <2> DEFINE u == ParseInts(n, s, rs)
  <2> HIDE DEF u
  <2>2. u \in Sess(lo, packetId) /\ Served(n, s, rs, u)
    BY <1>2, <1>6, <2>1, ParseIntsIs DEF u
  <2>3. SessOK(u, lo, packetId)
    BY <1>2, <2>2 DEF SessOK, Served
  <2> QED  BY <2>2, <2>3 DEF u
<1> HIDE DEF t
<1>8. Asks(n, lo, g, t)
  BY <1>1, <1>4, <1>5, <1>7 DEF Asks, s
<1> QED  BY <1>8

LEMMA ReceiveIntOK ==
  ASSUME NEW lo \in Nat, PathInvAt(lo), NEW n \in Nodes, n # K, NEW g, NEW t,
         Asks(n, lo, g, t)
  PROVE  StepOK(lo)
<1> DEFINE l == <<"int", n + 1>>
           X == SegIn(lo, packetId)
           rs == <<g>>
<1>1. /\ net[l] # <<>> /\ net' = [net EXCEPT ![l] = Tail(@)]
      /\ tcb' = [tcb EXCEPT ![n] = t] /\ packetId' = packetId /\ cache' = cache
      /\ g \in X /\ SessOK(t, lo, packetId) /\ Served(n, tcb[n], rs, t)
  BY DEF Asks
<1>0. l \in Links
  BY NodesAre
<1>2. /\ packetId \in Int /\ cache \in [Nodes -> SUBSET Nat] /\ cache[0] = lo..(packetId - 1)
      /\ net \in [Links -> Seq(X)] /\ l \in Links /\ tcb[0].pendingInts = <<>>
  BY <1>0 DEF PathInvAt
<1>3. Moves(tcb[n], t, lo, packetId)
  BY <1>1 DEF Moves, Keeps, Served
<1>4. /\ g.start \in Nat /\ g.end \in Nat /\ lo <= g.start /\ g.end <= packetId
      /\ RangesOK(rs, lo, packetId)
  BY <1>1, <1>2, SegFields, OneRange
<1>5. n = 0 => t.pendingInts = <<>>
  <2> SUFFICES ASSUME n = 0  PROVE t.pendingInts = <<>>
    OBVIOUS
  <2>1. BytesOf(g) \subseteq cache[n]
    BY <1>2, <1>4 DEF BytesOf
  <2>2. \A i \in 1..Len(rs) : BytesOf(rs[i]) \subseteq cache[n]
    BY <2>1
  <2> HIDE DEF rs
  <2>3. RestFor(cache[n], rs) = <<>>
    BY <1>2, <1>4, <2>2, RestForIs
  <2> QED  BY <1>1, <1>2, <2>3 DEF Served
<1> HIDE DEF X, l, rs
<1>6. Tail(net[l]) \in Seq(X)
  BY <1>1, <1>2, HeadTail
<1>7. net' \in [Links -> Seq(X)]
  BY <1>1, <1>2, <1>6
<1> QED  BY <1>1, <1>2, <1>3, <1>5, <1>7, SameStream DEF X

\* Sending on a link appends to what is under way.
LEMMA OutputIs ==
  ASSUME NEW X, NEW nt \in [Links -> Seq(X)], NEW l \in Links, NEW gs \in Seq(X)
  PROVE  OutputTo(l, gs, nt) \in [Links -> Seq(X)]
<1>1. nt[l] \o gs \in Seq(X)
  OBVIOUS
<1> QED  BY <1>1 DEF OutputTo

LEMMA CutQueue ==
  ASSUME NEW X, NEW q \in Seq(X), NEW k \in 0..Len(q)
  PROVE  SubSeq(q, 1, k) \in Seq(X) /\ SubSeq(q, k + 1, Len(q)) \in Seq(X)
OBVIOUS

\* The requester asks for its ripe holes; the others pass their interests on.
LEMMA OutputIntsIs ==
  ASSUME NEW lo \in Nat, NEW h \in Int, NEW n, HolesOK(tcb[n].holes, lo, h),
         ForwardedInts(n) \in Seq(RngIn(lo, h))
  PROVE  OutputInts(n) \in Seq(SegIn(lo, h))
<1> DEFINE H == tcb[n].holes
           w == HoleWait
           R == RipeHoles(H, w)
<1>1. CASE n = K
  <2>1. HolesOK(H, lo, h) /\ w \in Nat
    BY HopChainAssumption
  <2> HIDE DEF H, w
  <2>2. HolesOK(RipeHoles(H, w), lo, h)
    BY <2>1, RipeIs
  <2> HIDE DEF R
  <2>3. RangesOK(R, lo, h)
    BY <2>2, HolesRanges DEF R
  <2>4. Segs("int", R) \in Seq(SegIn(lo, h))
    BY <2>3, SegsIs DEF Kinds
  <2> QED  BY <1>1, <2>4 DEF OutputInts, R, H, w
<1>2. CASE n # K
  <2> DEFINE F == ForwardedInts(n)
  <2>1. OutputInts(n) = Segs("int", F)
    BY <1>2 DEF OutputInts
  <2> HIDE DEF F
  <2>2. RangesOK(F, lo, h)
    BY RngInOK DEF F
  <2> QED  BY <2>1, <2>2, SegsIs DEF Kinds
<1> QED  BY <1>1, <1>2

LEMMA CutSession ==
  ASSUME NEW lo \in Nat, NEW hi \in Nat, NEW s, SessOK(s, lo, hi), NEW q \in Seq(SegIn(lo, hi)),
         NEW t, t = [s EXCEPT !.sndQueue = q]
  PROVE  /\ SessOK(t, lo, hi)
         /\ t.next = s.next /\ t.holes = s.holes /\ t.intQueue = s.intQueue
         /\ t.rcvQueue = s.rcvQueue /\ t.pendingInts = s.pendingInts
         /\ t.seen = s.seen /\ t.asked = s.asked /\ t.forwarded = s.forwarded
         /\ t.skipped = s.skipped /\ t.straddled = s.straddled /\ t.sndQueue = q
<1>1. s \in Sess(lo, hi)
  BY DEF SessOK
<1>2. /\ t \in Sess(lo, hi)
      /\ t.next = s.next /\ t.holes = s.holes /\ t.intQueue = s.intQueue
      /\ t.rcvQueue = s.rcvQueue /\ t.pendingInts = s.pendingInts
      /\ t.seen = s.seen /\ t.asked = s.asked /\ t.forwarded = s.forwarded
      /\ t.skipped = s.skipped /\ t.straddled = s.straddled /\ t.sndQueue = q
  BY <1>1 DEF Sess
<1> QED  BY <1>2 DEF SessOK

\* The session is u when its interests have left, and t when k segments have too.
Sends(n, lo, u, k, t) ==
  /\ SessOK(u, lo, packetId) /\ k \in 0..Len(u.sndQueue)
  /\ n = 0 => u = tcb[n]
  /\ n # 0 => /\ Queued(n, tcb[n], u)
              /\ Flushes(tcb[n], u, BytesIn(ForwardedInts(n)))
              /\ ForwardedInts(n) \in Seq(RngIn(lo, packetId))
  /\ SessOK(t, lo, packetId)
  /\ t.sndQueue = SubSeq(u.sndQueue, k + 1, Len(u.sndQueue))
  /\ t.next = u.next /\ t.holes = u.holes /\ t.intQueue = u.intQueue
  /\ t.rcvQueue = u.rcvQueue /\ t.pendingInts = u.pendingInts
  /\ t.seen = u.seen /\ t.asked = u.asked /\ t.forwarded = u.forwarded
  /\ t.skipped = u.skipped /\ t.straddled = u.straddled
  /\ tcb' = [tcb EXCEPT ![n] = t]
  /\ packetId' = packetId /\ cache' = cache /\ faults' = faults
  /\ LET asked == IF n = 0 THEN net ELSE OutputTo(<<"int", n>>, OutputInts(n), net)
     IN net' = IF n = K THEN asked
               ELSE OutputTo(<<"data", n + 1>>, SubSeq(u.sndQueue, 1, k), asked)

LEMMA FlushIs ==
  ASSUME NEW lo \in Nat, PathInvAt(lo), NEW n \in Nodes, FlushSome(n)
  PROVE  \E u, k, t : Sends(n, lo, u, k, t)
<1> DEFINE X == SegIn(lo, packetId)
           s == tcb[n]
<1>1. PICK u \in Flushed(n) : \E k \in 0..Len(u.sndQueue) : Flush(n, u, k)
  BY DEF FlushSome
<1>2. PICK k \in 0..Len(u.sndQueue) : Flush(n, u, k)
  BY <1>1
<1> DEFINE q == SubSeq(u.sndQueue, k + 1, Len(u.sndQueue))
           t == [u EXCEPT !.sndQueue = q]
           gs == SubSeq(u.sndQueue, 1, k)
           asked == IF n = 0 THEN net ELSE OutputTo(<<"int", n>>, OutputInts(n), net)
<1>3. /\ tcb' = [tcb EXCEPT ![n] = t] /\ packetId' = packetId /\ cache' = cache
      /\ faults' = faults
      /\ net' = IF n = K THEN asked ELSE OutputTo(<<"data", n + 1>>, gs, asked)
  BY <1>2 DEF Flush
<1>4. packetId \in Nat /\ SessOK(s, lo, packetId)
  BY DEF PathInvAt
<1>5. ASSUME n # 0
      PROVE  /\ SessOK(u, lo, packetId) /\ Queued(n, s, u)
             /\ Flushes(s, u, BytesIn(ForwardedInts(n)))
             /\ ForwardedInts(n) \in Seq(RngIn(lo, packetId))
  <2> HIDE DEF X
  <2> QED  BY <1>4, <1>5, FlushedIs
<1>6. n = 0 => u = s
  BY DEF Flushed
<1>7. SessOK(u, lo, packetId)
  BY <1>4, <1>5, <1>6
<1>8. u.sndQueue \in Seq(X)
  BY <1>7 DEF SessOK, Sess
<1> HIDE DEF X
<1>9. q \in Seq(X)
  BY <1>8, CutQueue
<1>10. q = SubSeq(u.sndQueue, k + 1, Len(u.sndQueue)) /\ k \in 0..Len(u.sndQueue)
  OBVIOUS
<1>11. net' = IF n = K THEN asked ELSE OutputTo(<<"data", n + 1>>, SubSeq(u.sndQueue, 1, k), asked)
  BY <1>3
<1> HIDE DEF q, gs
<1>12. t = [u EXCEPT !.sndQueue = q]
  OBVIOUS
<1> HIDE DEF t, s
<1>13. /\ SessOK(t, lo, packetId)
       /\ t.next = u.next /\ t.holes = u.holes /\ t.intQueue = u.intQueue
       /\ t.rcvQueue = u.rcvQueue /\ t.pendingInts = u.pendingInts
       /\ t.seen = u.seen /\ t.asked = u.asked /\ t.forwarded = u.forwarded
       /\ t.skipped = u.skipped /\ t.straddled = u.straddled /\ t.sndQueue = q
  BY <1>4, <1>7, <1>9, <1>12, CutSession DEF X
<1>14. Sends(n, lo, u, k, t)
  BY <1>3, <1>5, <1>6, <1>7, <1>10, <1>11, <1>13 DEF Sends, s
<1> QED  BY <1>14

LEMMA FlushOK ==
  ASSUME NEW lo \in Nat, PathInvAt(lo), NEW n \in Nodes, NEW u, NEW k, NEW t,
         Sends(n, lo, u, k, t)
  PROVE  StepOK(lo)
<1> DEFINE X == SegIn(lo, packetId)
           s == tcb[n]
           gs == SubSeq(u.sndQueue, 1, k)
           asked == IF n = 0 THEN net ELSE OutputTo(<<"int", n>>, OutputInts(n), net)
<1>1. /\ tcb' = [tcb EXCEPT ![n] = t] /\ packetId' = packetId /\ cache' = cache
      /\ net' = IF n = K THEN asked ELSE OutputTo(<<"data", n + 1>>, gs, asked)
      /\ SessOK(u, lo, packetId) /\ SessOK(t, lo, packetId)
      /\ n = 0 => u = s
      /\ k \in 0..Len(u.sndQueue)
  BY DEF Sends
<1>2. /\ t.next = u.next /\ t.holes = u.holes /\ t.pendingInts = u.pendingInts
      /\ t.seen = u.seen /\ t.asked = u.asked /\ t.forwarded = u.forwarded
      /\ t.skipped = u.skipped /\ t.straddled = u.straddled
  BY DEF Sends
<1>3. n # 0 => /\ Flushes(s, u, BytesIn(ForwardedInts(n)))
               /\ ForwardedInts(n) \in Seq(RngIn(lo, packetId))
  BY DEF Sends
<1>4. /\ packetId \in Nat /\ SessOK(s, lo, packetId) /\ net \in [Links -> Seq(X)]
      /\ cache \in [Nodes -> SUBSET Nat] /\ cache' \in [Nodes -> SUBSET Nat]
      /\ cache'[0] = cache[0] /\ (n = 0 => s.pendingInts = <<>>)
  BY <1>1 DEF PathInvAt
<1>5. u.sndQueue \in Seq(X)
  BY <1>1 DEF SessOK, Sess
<1> HIDE DEF X
<1>6. gs \in Seq(X)
  BY <1>1, <1>5, CutQueue
<1> HIDE DEF gs, s
<1>7. Moves(s, t, lo, packetId)
  <2>1. CASE n = 0
    BY <1>1, <1>2, <2>1 DEF Moves, Keeps
  <2>2. CASE n # 0
    <3> DEFINE F == BytesIn(ForwardedInts(n))
    <3>1. F \in SUBSET (lo..(packetId - 1))
      <4> DEFINE rs == ForwardedInts(n)
      <4>0. rs \in Seq(RngIn(lo, packetId)) /\ packetId \in Int
        BY <1>3, <1>4, <2>2
      <4> HIDE DEF rs
      <4>1. RangesOK(rs, lo, packetId)
        BY <4>0, RngInOK
      <4>2. \A i \in DOMAIN rs : BytesOf(rs[i]) \subseteq lo..(packetId - 1)
        BY <1>4, <4>1 DEF RangesOK, BytesOf
      <4> QED  BY <4>2 DEF BytesIn, rs
    <3> HIDE DEF F
    <3>2. Flushes(s, u, F)
      BY <1>3, <2>2 DEF F
    <3>3. Flushes(s, t, F)
      BY <1>2, <3>2 DEF Flushes
    <3> QED  BY <3>1, <3>3 DEF Moves
  <2> QED  BY <2>1, <2>2
<1>8. n = 0 => t.pendingInts = <<>>
  BY <1>1, <1>2, <1>4
<1>9. asked \in [Links -> Seq(X)]
  <2>1. CASE n = 0
    BY <1>4, <2>1
  <2>2. CASE n # 0
    <3>1. OutputInts(n) \in Seq(X)
      <4>3. HolesOK(s.holes, lo, s.next - 1)
        BY <1>4 DEF SessOK
      <4>4. s.next \in Nat /\ s.next <= packetId
        BY <1>4 DEF SessOK, Sess
      <4>2. packetId \in Int /\ s.next - 1 \in Int /\ s.next - 1 <= packetId
        BY <1>4, <4>4
      <4>1. HolesOK(tcb[n].holes, lo, packetId)
        BY <4>2, <4>3, HolesLater DEF s
      <4> QED  BY <1>3, <2>2, <4>1, <4>2, OutputIntsIs DEF X
    <3>2. <<"int", n>> \in Links
      BY <2>2, NodesAre
    <3> QED  BY <1>4, <2>2, <3>1, <3>2, OutputIs
  <2> QED  BY <2>1, <2>2
<1> HIDE DEF asked
<1>10. net' \in [Links -> Seq(X)]
  <2>1. CASE n = K
    BY <1>1, <1>9, <2>1
  <2>2. CASE n # K
    <3>1. <<"data", n + 1>> \in Links
      BY <2>2, NodesAre
    <3> QED  BY <1>1, <1>6, <1>9, <2>2, <3>1, OutputIs
  <2> QED  BY <2>1, <2>2
<1> QED  BY <1>1, <1>4, <1>7, <1>8, <1>10, SameStream DEF s, X

\* A session whose holes, none of them ripe, get older.
LEMMA AgedIs ==
  ASSUME NEW lo \in Nat, NEW hi \in Nat, NEW s, SessOK(s, lo, hi), s.holes # <<>>,
         RipeHoles(s.holes, HoleWait) = <<>>,
         NEW t, t = [s EXCEPT !.holes = Older(@)]
  PROVE  /\ SessOK(t, lo, hi) /\ Ages(s, t)
         /\ t.sndQueue = s.sndQueue /\ t.rcvQueue = s.rcvQueue
         /\ t.intQueue = s.intQueue /\ t.pendingInts = s.pendingInts
<1> DEFINE H == s.holes
           D == Older(H)
           e == s.next - 1
           w == HoleWait
<1>1. /\ HolesOK(H, lo, e) /\ e \in Int /\ s \in Sess(lo, hi) /\ H \in Seq(Hole)
      /\ w \in Nat /\ H # <<>> /\ RipeHoles(H, w) = <<>>
      /\ s.next = 0 \/ lo <= s.next
  BY HopChainAssumption DEF SessOK, Sess
<1>2. t = [s EXCEPT !.holes = D]
  OBVIOUS
<1> HIDE DEF H, D, e, w
<1>3. HolesOK(D, lo, e) /\ MissOf(D) = {<<m[1], m[2] + 1>> : m \in MissOf(H)}
  BY <1>1, AgeMiss DEF D
<1>4. \A m \in MissOf(H) : m[2] < w
  <2>1. /\ \A m \in MissOf(H) :
             \E i \in 1..Len(H) : \E x \in Nat : In(H[i], x) /\ m = <<x, H[i].age>>
        /\ \A i \in 1..Len(H) : H[i].age \in Nat
    BY <1>1, MissIs, HoleFields
  <2>2. \A m \in MissOf(H) : m[2] \in Nat
    BY <2>1
  <2>3. MissOf(RipeHoles(H, w)) = {m \in MissOf(H) : m[2] >= w}
    BY <1>1, RipeIs
  <2>4. MissOf(<<>>) = {}
    BY DEF MissOf
  <2>5. {m \in MissOf(H) : m[2] >= w} = {}
    BY <1>1, <2>3, <2>4
  <2> QED  BY <1>1, <2>2, <2>5
<1>5. MissOf(H) # {}
  <2>1. 1 \in 1..Len(H) /\ H[1].start \in Nat /\ H[1].end \in Nat /\ H[1].start < H[1].end
    BY <1>1, HoleFields
  <2>2. In(H[1], H[1].start)
    BY <2>1 DEF In
  <2>3. <<H[1].start, H[1].age>> \in MissOf(H)
    BY <1>1, <2>1, <2>2, MissIs
  <2> QED  BY <2>3
<1>6. D \in Seq(Hole)
  BY <1>3 DEF HolesOK
<1>7. /\ t \in Sess(lo, hi) /\ t.holes = D
      /\ t.next = s.next /\ t.seen = s.seen /\ t.asked = s.asked
      /\ t.forwarded = s.forwarded /\ t.skipped = s.skipped /\ t.straddled = s.straddled
      /\ t.sndQueue = s.sndQueue /\ t.rcvQueue = s.rcvQueue
      /\ t.intQueue = s.intQueue /\ t.pendingInts = s.pendingInts
  BY <1>1, <1>2, <1>6 DEF Sess
<1>8. SessOK(t, lo, hi)
  BY <1>1, <1>3, <1>7 DEF SessOK, e
<1>9. Ages(s, t)
  BY <1>3, <1>4, <1>5, <1>7 DEF Ages, H, w
<1> QED  BY <1>7, <1>8, <1>9

LEMMA AgeOK ==
  ASSUME NEW lo \in Nat, PathInvAt(lo), NEW n \in Nodes, n # 0, Age(n)
  PROVE  StepOK(lo)
<1> DEFINE s == tcb[n]
           t == [s EXCEPT !.holes = Older(@)]
<1>1. /\ s.holes # <<>> /\ RipeHoles(s.holes, HoleWait) = <<>>
      /\ packetId' = packetId /\ cache' = cache /\ net' = net
      /\ tcb' = [tcb EXCEPT ![n] = t]
  BY DEF Age
<1>2. /\ packetId \in Nat /\ SessOK(s, lo, packetId)
      /\ net \in [Links -> Seq(SegIn(lo, packetId))]
      /\ cache \in [Nodes -> SUBSET Nat] /\ cache' \in [Nodes -> SUBSET Nat]
  BY <1>1 DEF PathInvAt
<1>3. SessOK(t, lo, packetId) /\ Ages(s, t)
  <2> HIDE DEF s
  <2> QED  BY <1>1, <1>2, AgedIs
<1> HIDE DEF t, s
<1>4. Moves(s, t, lo, packetId)
  BY <1>3 DEF Moves
<1> QED  BY <1>1, <1>2, <1>3, <1>4, SameStream DEF s

\* A session whose application takes the next segment.
LEMMA TakenIs ==
  ASSUME NEW lo \in Nat, NEW hi \in Nat, NEW s, SessOK(s, lo, hi), s.rcvQueue # <<>>,
         NEW q, q = Tail(s.rcvQueue), NEW t, t = [s EXCEPT !.rcvQueue = q]
  PROVE  /\ SessOK(t, lo, hi) /\ Keeps(s, t) /\ t.rcvQueue = q
         /\ t.holes = s.holes /\ t.sndQueue = s.sndQueue
         /\ t.intQueue = s.intQueue /\ t.pendingInts = s.pendingInts
<1> DEFINE X == SegIn(lo, hi)
           r == s.rcvQueue
<1>1. s \in Sess(lo, hi) /\ r \in Seq(X) /\ r # <<>>
  BY DEF SessOK, Sess
<1>2. q = Tail(r)
  OBVIOUS
<1> HIDE DEF X, r
<1>3. q \in Seq(X)
  BY <1>1, <1>2, HeadTail
<1>4. /\ t \in Sess(lo, hi) /\ t.holes = s.holes /\ t.rcvQueue = q
      /\ t.next = s.next /\ t.seen = s.seen /\ t.asked = s.asked
      /\ t.forwarded = s.forwarded /\ t.skipped = s.skipped /\ t.straddled = s.straddled
      /\ t.sndQueue = s.sndQueue /\ t.intQueue = s.intQueue /\ t.pendingInts = s.pendingInts
  BY <1>1, <1>3 DEF Sess, X
<1> QED  BY <1>4 DEF SessOK, Keeps

LEMMA TakeReceivedOK ==
  ASSUME NEW lo \in Nat, PathInvAt(lo), NEW n \in Nodes, TakeReceived(n),
         cache' \in [Nodes -> SUBSET Nat], cache'[0] = cache[0]
  PROVE  StepOK(lo)
<1> DEFINE s == tcb[n]
           q == Tail(s.rcvQueue)
           t == [s EXCEPT !.rcvQueue = q]
<1>1. /\ s.rcvQueue # <<>> /\ tcb' = [tcb EXCEPT ![n] = t]
      /\ packetId' = packetId /\ net' = net
  BY DEF TakeReceived
<1>2. /\ SessOK(s, lo, packetId) /\ net \in [Links -> Seq(SegIn(lo, packetId))]
      /\ packetId \in Nat /\ (n = 0 => s.pendingInts = <<>>)
  BY DEF PathInvAt
<1>3. SessOK(t, lo, packetId) /\ Keeps(s, t) /\ t.pendingInts = s.pendingInts
  <2>1. q = Tail(s.rcvQueue)
    OBVIOUS
  <2> DEFINE u == [s EXCEPT !.rcvQueue = q]
  <2>0. u = [s EXCEPT !.rcvQueue = q]
    OBVIOUS
  <2>3. s.rcvQueue # <<>> /\ SessOK(s, lo, packetId) /\ packetId \in Nat
    BY <1>1, <1>2
  <2> HIDE DEF s, q, u
  <2>2. SessOK(u, lo, packetId) /\ Keeps(s, u) /\ u.pendingInts = s.pendingInts
    BY <2>0, <2>1, <2>3, TakenIs
  <2> QED  BY <2>2 DEF u
<1> HIDE DEF t, s
<1>4. Moves(s, t, lo, packetId)
  BY <1>3 DEF Moves
<1> QED  BY <1>1, <1>2, <1>3, <1>4, SameStream DEF s

LEMMA CacheReceivedOK ==
  ASSUME NEW lo \in Nat, PathInvAt(lo), NEW n \in Nodes, IsMidnode(n), CacheReceived(n)
  PROVE  StepOK(lo)
<1> DEFINE r == tcb[n].rcvQueue
           g == Head(r)
<1>1. /\ TakeReceived(n) /\ r # <<>>
      /\ cache' = [cache EXCEPT ![n] = @ \cup BytesOf(g)]
  BY DEF CacheReceived, TakeReceived
<1>2. /\ SessOK(tcb[n], lo, packetId) /\ cache \in [Nodes -> SUBSET Nat]
      /\ packetId \in Nat
  BY DEF PathInvAt
<1>3. r \in Seq(SegIn(lo, packetId))
  BY <1>2 DEF SessOK, Sess
<1> HIDE DEF r
<1>4. g \in SegIn(lo, packetId)
  BY <1>1, <1>3, HeadTail
<1>5. BytesOf(g) \in SUBSET Nat
  BY <1>2, <1>4, SegFields DEF BytesOf
<1> HIDE DEF g
<1>6. cache' \in [Nodes -> SUBSET Nat] /\ cache'[0] = cache[0]
  BY <1>1, <1>2, <1>5, NodesAre
<1> QED  BY <1>1, <1>6, TakeReceivedOK

LEMMA TunWriteOK ==
  ASSUME NEW lo \in Nat, PathInvAt(lo), TunWrite
  PROVE  StepOK(lo)
<1>1. TakeReceived(K) /\ cache' = cache
  BY DEF TunWrite
<1>2. cache \in [Nodes -> SUBSET Nat]
  BY DEF PathInvAt
<1> QED  BY <1>1, <1>2, NodesAre, TakeReceivedOK

\* What the network may do to a link: nothing but taking segments it carries.
LEMMA FaultyLink ==
  ASSUME NEW X, NEW q \in Seq(X)
  PROVE  /\ \A p \in Nat : p <= Len(q) => SubSeq(q, p + 1, Len(q)) \in Seq(X)
         /\ Len(q) >= 2 => <<q[2], q[1]>> \o SubSeq(q, 3, Len(q)) \in Seq(X)
         /\ q # <<>> => <<Head(q)>> \o q \in Seq(X)
<1>1. \A p \in Nat : p <= Len(q) => SubSeq(q, p + 1, Len(q)) \in Seq(X)
  OBVIOUS
<1>2. ASSUME Len(q) >= 2  PROVE <<q[2], q[1]>> \o SubSeq(q, 3, Len(q)) \in Seq(X)
  <2>1. q[1] \in X /\ q[2] \in X
    BY <1>2
  <2>2. <<q[2], q[1]>> \in Seq(X)
    BY <2>1
  <2>3. SubSeq(q, 3, Len(q)) \in Seq(X)
    BY <1>2
  <2> QED  BY <2>2, <2>3
<1>3. ASSUME q # <<>>  PROVE <<Head(q)>> \o q \in Seq(X)
  <2>1. Head(q) \in X
    BY <1>3
  <2>2. <<Head(q)>> \in Seq(X)
    BY <2>1
  <2> QED  BY <2>2
<1> QED  BY <1>1, <1>2, <1>3

LEMMA SameSessions ==
  ASSUME NEW lo \in Nat, PathInvAt(lo), packetId' = packetId, cache' = cache, tcb' = tcb,
         net' \in [Links -> Seq(SegIn(lo, packetId))]
  PROVE  StepOK(lo)
<1>1. PathInvAt(lo)'
  BY DEF PathInvAt
<1>2. \A n \in Nodes : Moves(tcb[n], tcb'[n], lo, packetId')
  BY DEF Moves, Keeps
<1> QED  BY <1>1, <1>2 DEF StepOK

LEMMA FaultOK ==
  ASSUME NEW lo \in Nat, PathInvAt(lo), NEW l \in Links, Lose(l) \/ Reorder(l) \/ Duplicate(l)
  PROVE  StepOK(lo)
<1> DEFINE X == SegIn(lo, packetId)
<1>1. packetId' = packetId /\ cache' = cache /\ tcb' = tcb
  BY DEF Lose, Reorder, Duplicate, Fault
<1>2. net \in [Links -> Seq(X)]
  BY DEF PathInvAt
<1> HIDE DEF X
<1>3. ASSUME NEW q \in Seq(X), net' = [net EXCEPT ![l] = q]
      PROVE  net' \in [Links -> Seq(X)]
  BY <1>2, <1>3
<1>4. net[l] \in Seq(X)
  BY <1>2
<1>5. ASSUME Lose(l)  PROVE net' \in [Links -> Seq(X)]
  <2>1. PICK p \in 1..Packed : p <= Len(net[l]) /\ net' = [net EXCEPT ![l] = SubSeq(@, p + 1, Len(@))]
    BY <1>5 DEF Lose
  <2>2. p \in Nat
    BY HopChainAssumption
  <2> DEFINE q == SubSeq(net[l], p + 1, Len(net[l]))
  <2>3. q \in Seq(X)
    BY <1>4, <2>1, <2>2, FaultyLink
  <2> QED  BY <1>3, <2>1, <2>3
<1>6. ASSUME Reorder(l)  PROVE net' \in [Links -> Seq(X)]
  <2> DEFINE q == <<net[l][2], net[l][1]>> \o SubSeq(net[l], 3, Len(net[l]))
  <2>1. Len(net[l]) >= 2 /\ net' = [net EXCEPT ![l] = q]
    BY <1>6 DEF Reorder
  <2>2. q \in Seq(X)
    BY <1>4, <2>1, FaultyLink
  <2> QED  BY <1>3, <2>1, <2>2
<1>7. ASSUME Duplicate(l)  PROVE net' \in [Links -> Seq(X)]
  <2> DEFINE q == <<Head(net[l])>> \o net[l]
  <2>1. net[l] # <<>> /\ net' = [net EXCEPT ![l] = q]
    BY <1>7 DEF Duplicate
  <2>2. q \in Seq(X)
    BY <1>4, <2>1, FaultyLink
  <2> QED  BY <1>3, <2>1, <2>2
<1>8. net' \in [Links -> Seq(X)]
  BY <1>5, <1>6, <1>7
<1> QED  BY <1>1, <1>8, SameSessions DEF X

LEMMA NextOK ==
  ASSUME NEW lo \in Nat, PathInvAt(lo), [Next]_vars
  PROVE  StepOK(lo)
<1>1. CASE \E size \in Sizes : TunRead(size)
  BY <1>1, TunReadIs, TunReadOK
<1>2. ASSUME NEW n \in Nodes \ {0}, ReceiveData(n) \/ Age(n)  PROVE StepOK(lo)
  BY <1>2, ReceiveDataIs, ReceiveDataOK, AgeOK
<1>3. ASSUME NEW n \in Nodes \ {K}, ReceiveInt(n)  PROVE StepOK(lo)
  BY <1>3, ReceiveIntIs, ReceiveIntOK
<1>4. ASSUME NEW n \in Nodes, FlushSome(n)  PROVE StepOK(lo)
  BY <1>4, FlushIs, FlushOK
<1>5. ASSUME NEW n \in Nodes, IsMidnode(n) /\ CacheReceived(n)  PROVE StepOK(lo)
  BY <1>5, CacheReceivedOK
<1>6. CASE TunWrite
  BY <1>6, TunWriteOK
<1>7. ASSUME NEW l \in Links, Lose(l) \/ Reorder(l) \/ Duplicate(l)  PROVE StepOK(lo)
  BY <1>7, FaultOK
<1>8. CASE UNCHANGED vars
  <2>1. packetId' = packetId /\ cache' = cache /\ tcb' = tcb /\ net' = net
    BY <1>8 DEF vars
  <2>2. net' \in [Links -> Seq(SegIn(lo, packetId))]
    BY <2>1 DEF PathInvAt
  <2> QED  BY <2>1, <2>2, SameSessions
<1> QED  BY <1>1, <1>2, <1>3, <1>4, <1>5, <1>6, <1>7, <1>8 DEF Next

LEMMA InitPath == Init => PathInv
<1> SUFFICES ASSUME Init  PROVE PathInv
  OBVIOUS
<1> DEFINE lo == packetId
<1>1. /\ packetId \in First /\ tcb = [n \in Nodes |-> NewSession]
      /\ cache = [n \in Nodes |-> {}] /\ net = [l \in Links |-> <<>>]
  BY DEF Init
<1>2. lo \in Nat /\ packetId <= MaxByte
  BY <1>1, HopChainAssumption
<1>3. NewSession \in Sess(lo, lo)
  <2>1. /\ <<>> \in Seq(Hole) /\ <<>> \in Seq(SegIn(lo, lo)) /\ <<>> \in Seq(RngIn(lo, lo))
    OBVIOUS
  <2>2. 0 \in 0..lo
    BY <1>2
  <2> HIDE DEF lo
  <2> QED  BY <2>1, <2>2 DEF NewSession, Sess
<1>4. SessOK(NewSession, lo, lo)
  <2>1. NewSession.holes = <<>> /\ NewSession.next = 0
    BY DEF NewSession
  <2>2. HolesOK(<<>>, lo, 0 - 1)
    BY DEF HolesOK, Sorted
  <2> QED  BY <1>3, <2>1, <2>2 DEF SessOK
<1>5. cache[0] = lo..(packetId - 1)
  BY <1>1, <1>2, NodesAre
<1>6. NewSession.pendingInts = <<>>
  BY DEF NewSession
<1>7. net \in [Links -> Seq(SegIn(lo, packetId))]
  BY <1>1
<1>8. PathInvAt(lo)
  BY <1>1, <1>2, <1>3, <1>4, <1>5, <1>6, <1>7, NodesAre DEF PathInvAt
<1> QED  BY <1>2, <1>8 DEF PathInv

\* Every range in a session, in a queue or under way lies in the stream sent so
\* far, the responder caches all of it, and every session's holes are sorted,
\* disjoint and behind its next, whatever the network does.
THEOREM PathInvariance == Spec => []PathInv
<1>1. PathInv /\ [Next]_vars => PathInv'
  <2> SUFFICES ASSUME PathInv, [Next]_vars  PROVE PathInv'
    OBVIOUS
  <2>1. PICK lo \in Nat : PathInvAt(lo)
    BY DEF PathInv
  <2>2. PathInvAt(lo)'
    BY <2>1, NextOK DEF StepOK
  <2> QED  BY <2>2 DEF PathInv
<1> QED  BY <1>1, InitPath, PTL DEF Spec

\* The responder answers every interest in full: GSsendFunc caches a segment
\* before it leaves, and no node ever asks for a byte that was not sent.
THEOREM AllInterestsAnswered == Spec => []EveryInterestAnswered
<1>1. PathInv => EveryInterestAnswered
  BY DEF PathInv, PathInvAt, EveryInterestAnswered
<1> QED  BY <1>1, PathInvariance, PTL

-----------------------------------------------------------------------------
(***************************************************************************)
(* Every session of the path implements HoleTracker.                       *)
(***************************************************************************)
LEMMA MovesTrack ==
  ASSUME NEW lo \in Nat, NEW n \in Nodes, PathInvAt(lo), packetId' \in Nat, packetId' <= MaxByte,
         Moves(tcb[n], tcb'[n], lo, packetId')
  PROVE  [Tracker(n)!Next]_(Tracker(n)!vars)
<1> DEFINE s == tcb[n]
           t == tcb'[n]
           M == MissOf(s.holes)
           hi == packetId'
<1>1. MissingAt(n) = M /\ MissingAt(n)' = MissOf(t.holes)
  BY DEF MissingAt, MissOf
<1>2. MaxByte \in Nat /\ HoleWait \in Nat
  BY HopChainAssumption
<1>3. s.next \in Nat /\ s.next <= MaxByte
  <2>1. s \in Sess(lo, packetId) /\ packetId \in Nat /\ packetId <= MaxByte
    BY DEF PathInvAt
  <2> QED  BY <1>2, <2>1 DEF Sess
<1>4. CASE Keeps(s, t)
  BY <1>1, <1>4 DEF Keeps, Tracker!vars
<1>5. CASE \E g \in SegIn(lo, hi) : Arrives(s, t, g)
  <2>1. PICK g \in SegIn(lo, hi) : Arrives(s, t, g)
    BY <1>5
  <2> DEFINE a == g.start
             b == g.end
  <2>2. a \in Nat /\ b \in Nat /\ a < b /\ b <= hi
    BY SegFields
  <2>3. a \in Bytes /\ b \in Bytes
    BY <1>2, <2>2 DEF Bytes
  <2>4. Tracker(n)!Arrive(a, b)
    <3>1. Tracker(n)!DetectDataHole(a, b)
      <4>1. CASE a = s.next
        <5>1. Tracker(n)!Expected(a, b)
          BY <1>1, <1>3, <2>1, <2>2, <4>1 DEF Arrives, Tracker!Expected
        <5> QED  BY <5>1 DEF Tracker!DetectDataHole
      <4>2. CASE a < s.next
        <5>1. Tracker(n)!Retransmitted(a, b)
          BY <1>1, <1>3, <2>1, <2>2, <4>2 DEF Arrives, Tracker!Retransmitted, Tracker!Without, Tracker!Span
        <5> QED  BY <5>1 DEF Tracker!DetectDataHole
      <4>3. CASE a > s.next /\ s.next = 0
        <5>1. Tracker(n)!Jumped(a, b)
          BY <1>1, <1>3, <2>1, <2>2, <4>3 DEF Arrives, Tracker!Jumped, Tracker!IsAbnormal, Tracker!Span
        <5> QED  BY <5>1 DEF Tracker!DetectDataHole
      <4>4. CASE a > s.next /\ s.next # 0
        <5>1. ~Tracker(n)!IsAbnormal(a)
          BY <1>2, <1>3, <2>2, <2>3, <4>4 DEF Tracker!IsAbnormal, Bytes
        <5>2. Tracker(n)!LeftHole(a, b)
          BY <1>1, <1>3, <2>1, <2>2, <4>4, <5>1 DEF Arrives, Tracker!LeftHole, Tracker!Span
        <5> QED  BY <5>2 DEF Tracker!DetectDataHole
      <4> QED  BY <1>3, <2>2, <4>1, <4>2, <4>3, <4>4
    <3> QED  BY <2>1, <2>2, <3>1 DEF Arrives, Tracker!Arrive, Tracker!Span
  <2> QED  BY <2>3, <2>4 DEF Tracker!Next
<1>6. CASE \E F \in SUBSET (lo..(hi - 1)) : Flushes(s, t, F)
  <2>1. PICK F \in SUBSET (lo..(hi - 1)) : Flushes(s, t, F)
    BY <1>6
  <2>2. F \in SUBSET Bytes
    BY <1>2 DEF Bytes
  <2>3. Tracker(n)!Flush(F)
    BY <1>1, <2>1 DEF Flushes, Tracker!Flush, Tracker!Without, Tracker!Ripe
  <2> QED  BY <2>2, <2>3 DEF Tracker!Next
<1>7. CASE Ages(s, t)
  <2>1. Tracker(n)!Tick
    BY <1>1, <1>7 DEF Ages, Tracker!Tick
  <2> QED  BY <2>1 DEF Tracker!Next
<1> QED  BY <1>4, <1>5, <1>6, <1>7 DEF Moves

\* Every session of the path, list of holes and interests included, implements
\* HoleTracker: each step of the path is a step of its own, or a stutter.
THEOREM SessionsTrackHoles == Spec => TracksHoles
<1>1. Init => \A n \in Nodes : Tracker(n)!Init
  <2> SUFFICES ASSUME Init, NEW n \in Nodes  PROVE Tracker(n)!Init
    OBVIOUS
  <2>1. tcb[n] = NewSession
    BY DEF Init
  <2>2. MissingAt(n) = {}
    BY <2>1 DEF MissingAt, NewSession
  <2> QED  BY <2>1, <2>2 DEF Tracker!Init, NewSession
<1>2. PathInv /\ [Next]_vars => [\A n \in Nodes : [Tracker(n)!Next]_(Tracker(n)!vars)]_vars
  <2> SUFFICES ASSUME PathInv, [Next]_vars, NEW n \in Nodes
               PROVE  [Tracker(n)!Next]_(Tracker(n)!vars)
    OBVIOUS
  <2>1. PICK lo \in Nat : PathInvAt(lo)
    BY DEF PathInv
  <2>2. StepOK(lo)
    BY <2>1, NextOK
  <2>3. packetId' \in Nat /\ packetId' <= MaxByte /\ Moves(tcb[n], tcb'[n], lo, packetId')
    BY <2>2 DEF StepOK, PathInvAt
  <2> QED  BY <2>1, <2>3, MovesTrack
<1> QED  BY <1>1, <1>2, PathInvariance, PTL DEF Spec, TracksHoles

-----------------------------------------------------------------------------
(***************************************************************************)
(* Sequences of ranges: the bytes they cover, and a part of one without    *)
(* gaps.                                                                   *)
(***************************************************************************)
Spans(X) == \A r \in X : r.start \in Nat /\ r.end \in Nat /\ r.start < r.end

LEMMA SpanFields ==
  ASSUME NEW X, Spans(X), NEW rs \in Seq(X)
  PROVE  /\ Len(rs) \in Nat /\ DOMAIN rs = 1..Len(rs)
         /\ \A i \in 1..Len(rs) : /\ rs[i] \in X
                                  /\ rs[i].start \in Nat /\ rs[i].end \in Nat
                                  /\ rs[i].start < rs[i].end
<1>1. \A i \in 1..Len(rs) : rs[i] \in X
  OBVIOUS
<1> QED  BY <1>1 DEF Spans

LEMMA SpanBytes ==
  ASSUME NEW X, Spans(X), NEW rs \in Seq(X)
  PROVE  \A x : x \in BytesIn(rs) <=> x \in Nat /\ Covered(rs, x)
BY SpanFields, BytesInIs

\* a is a part of b without gaps, or less.
Thins(a, b) ==
  \E p \in Nat : \A i \in 1..Len(a) : p + i \in 1..Len(b) /\ a[i] = b[p + i]

LEMMA ThinBytes ==
  ASSUME NEW X, Spans(X), NEW a \in Seq(X), NEW b \in Seq(X), Thins(a, b)
  PROVE  BytesIn(a) \subseteq BytesIn(b)
<1>1. PICK p \in Nat : \A i \in 1..Len(a) : p + i \in 1..Len(b) /\ a[i] = b[p + i]
  BY DEF Thins
<1>2. \A x : Covered(a, x) => Covered(b, x)
  BY <1>1 DEF Covered
<1> QED  BY <1>2, SpanBytes

LEMMA CatBytes ==
  ASSUME NEW X, Spans(X), NEW a \in Seq(X), NEW b \in Seq(X)
  PROVE  a \o b \in Seq(X) /\ BytesIn(a \o b) = BytesIn(a) \cup BytesIn(b)
<1> DEFINE c == a \o b
<1>1. /\ c \in Seq(X) /\ Len(c) = Len(a) + Len(b) /\ Len(a) \in Nat /\ Len(b) \in Nat
      /\ \A i \in 1..Len(a) : c[i] = a[i]
      /\ \A i \in 1..Len(b) : c[Len(a) + i] = b[i]
      /\ \A i \in 1..Len(c) : i \in 1..Len(a) \/ i - Len(a) \in 1..Len(b)
  OBVIOUS
<1> HIDE DEF c
<1>2. \A x : Covered(c, x) <=> Covered(a, x) \/ Covered(b, x)
  <2>1. ASSUME NEW x, Covered(c, x)  PROVE Covered(a, x) \/ Covered(b, x)
    <3>1. PICK i \in 1..Len(c) : In(c[i], x)
      BY <2>1 DEF Covered
    <3>2. CASE i \in 1..Len(a)
      BY <1>1, <3>1, <3>2 DEF Covered
    <3>3. CASE i - Len(a) \in 1..Len(b)
      <4>1. c[i] = b[i - Len(a)]
        BY <1>1, <3>3
      <4> QED  BY <3>1, <3>3, <4>1 DEF Covered
    <3> QED  BY <1>1, <3>2, <3>3
  <2>2. ASSUME NEW x, Covered(a, x)  PROVE Covered(c, x)
    <3>1. PICK i \in 1..Len(a) : In(a[i], x)
      BY <2>2 DEF Covered
    <3> QED  BY <1>1, <3>1 DEF Covered
  <2>3. ASSUME NEW x, Covered(b, x)  PROVE Covered(c, x)
    <3>1. PICK i \in 1..Len(b) : In(b[i], x)
      BY <2>3 DEF Covered
    <3>2. Len(a) + i \in 1..Len(c) /\ c[Len(a) + i] = b[i]
      BY <1>1
    <3> QED  BY <3>1, <3>2 DEF Covered
  <2> QED  BY <2>1, <2>2, <2>3
<1>3. \A x : x \in BytesIn(c) <=> x \in Nat /\ Covered(c, x)
  BY <1>1, SpanBytes
<1> QED  BY <1>1, <1>2, <1>3, SpanBytes DEF c

LEMMA AppendBytes ==
  ASSUME NEW X, Spans(X), NEW a \in Seq(X), NEW g \in X
  PROVE  /\ Append(a, g) \in Seq(X)
         /\ BytesIn(Append(a, g)) = BytesIn(a) \cup BytesOf(g)
<1>1. <<g>> \in Seq(X) /\ Append(a, g) = a \o <<g>>
  OBVIOUS
<1>2. BytesIn(<<g>>) = BytesOf(g)
  BY DEF BytesIn
<1> QED  BY <1>1, <1>2, CatBytes

-----------------------------------------------------------------------------
(***************************************************************************)
(* The order of what is under way on a path that only loses datagrams. S0  *)
(* and S1 are what node 0 still has on its way to node 1, and node 1 to    *)
(* node 2; I the interests from node 1 to node 0; Q and h node 1's         *)
(* intQueue and the bytes of its holes; f node 2's next. Stops are the     *)
(* places where that next may stand when a range arrives. InOrder says     *)
(* that no range under way straddles one, nor can two asked-for ranges be  *)
(* joined across one, and that of each byte from f on at most one answer   *)
(* or request exists. Each OrderX below is what one step does to it.       *)
(***************************************************************************)
\* r lies on both sides of c.
Straddles(r, c) == r.start < c /\ c < r.end

\* Where f may come to stand while the ranges Q arrive in turn.
Stops(f, Q) == {f} \cup {c \in Nat : f <= c /\ \E i \in 1..Len(Q) : Q[i].end = c}

\* None of Q, arriving in turn, straddles a place where f then stands.
InTurn(Q, f) ==
  \A j \in 1..Len(Q) :
    /\ ~Straddles(Q[j], f)
    /\ \A i \in 1..(j - 1) : f <= Q[i].end => ~Straddles(Q[j], Q[i].end)

\* The same, of a stream whose new ranges lie one behind the other.
InLine(Q, e) ==
  \A j \in 1..Len(Q) :
    \/ Q[j].end <= e
    \/ e <= Q[j].start /\ \A i \in 1..(j - 1) : Q[i].end <= Q[j].start

Clear(rs, C) == \A i \in 1..Len(rs) : \A c \in C : ~Straddles(rs[i], c)

\* Bytes of B on both sides of a stop do not touch: flushIntQueue joins what does.
Unjoined(B, C) == \A c \in C : ~(c - 1 \in B /\ c \in B)

\* A byte from f on lies in one range of rs at most.
Once(rs, f) ==
  \A i, j \in 1..Len(rs) : \A x \in Nat : f <= x /\ In(rs[i], x) /\ In(rs[j], x) => i = j

Apart(f, S, T) == \A x \in Nat : f <= x => ~(x \in S /\ x \in T)

InOrder(f, S0, S1, I, Q, h) ==
  LET C == Stops(f, S1)
      B == BytesIn(Q) \cup h
  IN /\ InTurn(S1, f)
     /\ Clear(S0, C) /\ Clear(I, C) /\ Unjoined(B, C)
     /\ Once(S0, f) /\ Once(I, f) /\ Once(Q, f)
     /\ Apart(f, BytesIn(S0), BytesIn(I)) /\ Apart(f, BytesIn(S0), B)
     /\ Apart(f, BytesIn(I), B) /\ Apart(f, BytesIn(Q), h)

LEMMA ThinOrder ==
  ASSUME NEW X, NEW a \in Seq(X), NEW b \in Seq(X), Thins(a, b), NEW f
  PROVE  /\ InTurn(b, f) => InTurn(a, f)
         /\ InLine(b, f) => InLine(a, f)
         /\ \A C : Clear(b, C) => Clear(a, C)
         /\ Once(b, f) => Once(a, f)
         /\ Stops(f, a) \subseteq Stops(f, b)
<1>1. PICK p \in Nat : \A i \in 1..Len(a) : p + i \in 1..Len(b) /\ a[i] = b[p + i]
  BY DEF Thins
<1>2. Len(a) \in Nat /\ Len(b) \in Nat
  OBVIOUS
<1>3. \A j \in 1..Len(a) : \A i \in 1..(j - 1) : p + i \in 1..((p + j) - 1) /\ i \in 1..Len(a)
  BY <1>2
<1>4. InTurn(b, f) => InTurn(a, f)
  BY <1>1, <1>3 DEF InTurn
<1>5. InLine(b, f) => InLine(a, f)
  BY <1>1, <1>3 DEF InLine
<1>6. \A C : Clear(b, C) => Clear(a, C)
  BY <1>1 DEF Clear
<1>7. Once(b, f) => Once(a, f)
  <2>1. \A i, j \in 1..Len(a) : p + i = p + j => i = j
    BY <1>2
  <2> QED  BY <1>1, <2>1 DEF Once
<1>8. Stops(f, a) \subseteq Stops(f, b)
  BY <1>1 DEF Stops
<1> QED  BY <1>4, <1>5, <1>6, <1>7, <1>8

\* Less under way
LEMMA OrderLess ==
  ASSUME NEW X, Spans(X), NEW Y, Spans(Y), NEW f,
         NEW S0 \in Seq(X), NEW T0 \in Seq(X), Thins(T0, S0),
         NEW S1 \in Seq(X), NEW T1 \in Seq(X), Thins(T1, S1),
         NEW I \in Seq(X), NEW J \in Seq(X), Thins(J, I),
         NEW Q \in Seq(Y), NEW h, NEW k \in SUBSET h,
         InOrder(f, S0, S1, I, Q, h)
  PROVE  InOrder(f, T0, T1, J, Q, k)
<1> DEFINE C == Stops(f, S1)
           D == Stops(f, T1)
           B == BytesIn(Q) \cup h
<1>1. /\ InTurn(S1, f) /\ Clear(S0, C) /\ Clear(I, C) /\ Unjoined(B, C)
      /\ Once(S0, f) /\ Once(I, f) /\ Once(Q, f)
      /\ Apart(f, BytesIn(S0), BytesIn(I)) /\ Apart(f, BytesIn(S0), B)
      /\ Apart(f, BytesIn(I), B) /\ Apart(f, BytesIn(Q), h)
  BY DEF InOrder
<1>2. D \subseteq C /\ InTurn(T1, f)
  BY <1>1, ThinOrder
<1>3. Clear(T0, C) /\ Clear(J, C) /\ Once(T0, f) /\ Once(J, f)
  BY <1>1, ThinOrder
<1>4. BytesIn(T0) \subseteq BytesIn(S0) /\ BytesIn(J) \subseteq BytesIn(I)
  BY ThinBytes
<1> HIDE DEF C, D
<1>5. Clear(T0, D) /\ Clear(J, D) /\ Unjoined(BytesIn(Q) \cup k, D)
  BY <1>1, <1>2, <1>3 DEF Clear, Unjoined
<1>6. /\ Apart(f, BytesIn(T0), BytesIn(J)) /\ Apart(f, BytesIn(T0), BytesIn(Q) \cup k)
      /\ Apart(f, BytesIn(J), BytesIn(Q) \cup k) /\ Apart(f, BytesIn(Q), k)
  BY <1>1, <1>4 DEF Apart
<1> QED  BY <1>1, <1>2, <1>3, <1>5, <1>6 DEF InOrder, D

\* One more range sent to node 2
LEMMA OrderStop ==
  ASSUME NEW X, Spans(X), NEW Y, Spans(Y), NEW f \in Nat,
         NEW S0 \in Seq(X), NEW S1 \in Seq(X), NEW I \in Seq(X), NEW Q \in Seq(Y), NEW h,
         InOrder(f, S0, S1, I, Q, h),
         NEW g \in X, \A c \in Stops(f, S1) : ~Straddles(g, c),
         f < g.end => /\ Clear(S0, {g.end}) /\ Clear(I, {g.end})
                      /\ Unjoined(BytesIn(Q) \cup h, {g.end})
  PROVE  InOrder(f, S0, Append(S1, g), I, Q, h)
<1> DEFINE C == Stops(f, S1)
           T == Append(S1, g)
           D == Stops(f, T)
           n == Len(S1)
<1>1. /\ n \in Nat /\ Len(T) = n + 1 /\ T[n + 1] = g
      /\ \A i \in 1..n : T[i] = S1[i]
  OBVIOUS
<1>2. /\ InTurn(S1, f) /\ Clear(S0, C) /\ Clear(I, C) /\ Unjoined(BytesIn(Q) \cup h, C)
  BY DEF InOrder
<1>3. \A i \in 1..n : S1[i].end \in Nat
  BY SpanFields
<1>4. g.end \in Nat
  BY DEF Spans
<1>5. f \in C /\ \A i \in 1..n : f <= S1[i].end => S1[i].end \in C
  BY <1>3 DEF Stops
<1> HIDE DEF T
<1>6. ASSUME NEW c \in D  PROVE c \in C \/ (f < g.end /\ c = g.end)
  <2>1. CASE c = f
    BY <1>5, <2>1
  <2>2. CASE c # f
    <3>1. PICK i \in 1..Len(T) : c \in Nat /\ f <= c /\ T[i].end = c
      BY <2>2 DEF Stops
    <3>2. CASE i = n + 1
      BY <1>1, <2>2, <3>1, <3>2
    <3>3. CASE i # n + 1
      <4>1. i \in 1..n
        BY <1>1, <3>3
      <4> QED  BY <1>1, <1>5, <3>1, <4>1
    <3> QED  BY <3>2, <3>3
  <2> QED  BY <2>1, <2>2
<1>7. InTurn(T, f)
  <2> SUFFICES ASSUME NEW j \in 1..Len(T)
               PROVE  /\ ~Straddles(T[j], f)
                      /\ \A i \in 1..(j - 1) : f <= T[i].end => ~Straddles(T[j], T[i].end)
    BY DEF InTurn
  <2>1. CASE j = n + 1
    <3>1. \A i \in 1..(j - 1) : i \in 1..n
      BY <2>1, <1>1
    <3> QED  BY <1>1, <1>5, <2>1, <3>1
  <2>2. CASE j # n + 1
    <3>1. j \in 1..n /\ \A i \in 1..(j - 1) : i \in 1..n
      BY <2>2, <1>1
    <3> QED  BY <1>1, <1>2, <3>1 DEF InTurn
  <2> QED  BY <2>1, <2>2
<1> HIDE DEF C, D
<1>8. Clear(S0, D) /\ Clear(I, D) /\ Unjoined(BytesIn(Q) \cup h, D)
  BY <1>2, <1>6 DEF Clear, Unjoined
<1> QED  BY <1>7, <1>8 DEF InOrder, D, T

\* Node 2 takes what comes first.
LEMMA OrderOn ==
  ASSUME NEW X, Spans(X), NEW Y, Spans(Y), NEW f \in Nat,
         NEW S0 \in Seq(X), NEW S1 \in Seq(X), NEW I \in Seq(X), NEW Q \in Seq(Y), NEW h,
         InOrder(f, S0, S1, I, Q, h), S1 # <<>>,
         NEW g, g = Head(S1), NEW e, e = IF f <= g.start THEN g.end ELSE f
  PROVE  ~Straddles(g, f) /\ InOrder(e, S0, Tail(S1), I, Q, h)
<1> DEFINE T == Tail(S1)
           C == Stops(f, S1)
           D == Stops(e, T)
<1>1. /\ Len(S1) \in Nat /\ 1 \in 1..Len(S1) /\ g = S1[1] /\ Len(T) = Len(S1) - 1
      /\ T \in Seq(X) /\ \A i \in 1..Len(T) : i + 1 \in 1..Len(S1) /\ T[i] = S1[i + 1]
  OBVIOUS
<1>2. /\ g.start \in Nat /\ g.end \in Nat /\ g.start < g.end
      /\ \A i \in 1..Len(S1) : S1[i].start \in Nat /\ S1[i].end \in Nat
  BY <1>1, SpanFields
<1>3. e \in Nat /\ f <= e /\ (e = f \/ e = g.end)
  BY <1>2
<1>4. /\ InTurn(S1, f) /\ Clear(S0, C) /\ Clear(I, C) /\ Unjoined(BytesIn(Q) \cup h, C)
      /\ Once(S0, f) /\ Once(I, f) /\ Once(Q, f)
      /\ Apart(f, BytesIn(S0), BytesIn(I)) /\ Apart(f, BytesIn(S0), BytesIn(Q) \cup h)
      /\ Apart(f, BytesIn(I), BytesIn(Q) \cup h) /\ Apart(f, BytesIn(Q), h)
  BY DEF InOrder
<1> HIDE DEF T
<1>5. ~Straddles(g, f)
  BY <1>1, <1>4 DEF InTurn
<1>6. D \subseteq C
  <2> SUFFICES ASSUME NEW c \in D  PROVE c \in C
    OBVIOUS
  <2>1. CASE c = e
    BY <1>1, <1>2, <1>3, <2>1 DEF Stops
  <2>2. CASE c # e
    <3>1. PICK i \in 1..Len(T) : c \in Nat /\ e <= c /\ T[i].end = c
      BY <2>2 DEF Stops
    <3>2. i + 1 \in 1..Len(S1) /\ S1[i + 1].end = c /\ f <= c
      BY <1>1, <1>3, <3>1
    <3> QED  BY <3>1, <3>2 DEF Stops
  <2> QED  BY <2>1, <2>2
<1>7. InTurn(T, e)
  <2> SUFFICES ASSUME NEW j \in 1..Len(T)
               PROVE  /\ ~Straddles(T[j], e)
                      /\ \A i \in 1..(j - 1) : e <= T[i].end => ~Straddles(T[j], T[i].end)
    BY DEF InTurn
  <2>1. j + 1 \in 1..Len(S1) /\ T[j] = S1[j + 1] /\ 1 \in 1..((j + 1) - 1)
    BY <1>1
  <2>2. ~Straddles(T[j], e)
    BY <1>1, <1>3, <1>4, <2>1 DEF InTurn
  <2>3. ASSUME NEW i \in 1..(j - 1), e <= T[i].end  PROVE ~Straddles(T[j], T[i].end)
    <3>1. i \in 1..Len(T) /\ i + 1 \in 1..((j + 1) - 1)
      BY <1>1
    <3>2. T[i] = S1[i + 1] /\ S1[i + 1].end \in Nat
      BY <1>1, <1>2, <3>1
    <3>3. f <= S1[i + 1].end
      BY <1>3, <2>3, <3>2
    <3> QED  BY <1>4, <2>1, <3>1, <3>2, <3>3 DEF InTurn
  <2> QED  BY <2>2, <2>3
<1> HIDE DEF C, D
<1>8. Clear(S0, D) /\ Clear(I, D) /\ Unjoined(BytesIn(Q) \cup h, D)
  BY <1>4, <1>6 DEF Clear, Unjoined
<1>9. \A x \in Nat : e <= x => f <= x
  BY <1>3
<1>10. /\ Once(S0, e) /\ Once(I, e) /\ Once(Q, e)
       /\ Apart(e, BytesIn(S0), BytesIn(I)) /\ Apart(e, BytesIn(S0), BytesIn(Q) \cup h)
       /\ Apart(e, BytesIn(I), BytesIn(Q) \cup h) /\ Apart(e, BytesIn(Q), h)
  BY <1>4, <1>9 DEF Once, Apart
<1> QED  BY <1>5, <1>7, <1>8, <1>10 DEF InOrder, D, T

LEMMA CatElems ==
  ASSUME NEW X, NEW a \in Seq(X), NEW b \in Seq(X), NEW c, c = a \o b
  PROVE  /\ c \in Seq(X) /\ Len(a) \in Nat /\ Len(b) \in Nat /\ Len(c) = Len(a) + Len(b)
         /\ \A i \in 1..Len(a) : c[i] = a[i]
         /\ \A i \in 1..Len(c) : \/ i \in 1..Len(a) /\ c[i] = a[i]
                                 \/ i - Len(a) \in 1..Len(b) /\ c[i] = b[i - Len(a)]
OBVIOUS

LEMMA CatOrder ==
  ASSUME NEW X, Spans(X), NEW a \in Seq(X), NEW b \in Seq(X), NEW f
  PROVE  /\ \A C : Clear(a, C) /\ Clear(b, C) => Clear(a \o b, C)
         /\ Once(a, f) /\ Once(b, f) /\ Apart(f, BytesIn(a), BytesIn(b)) => Once(a \o b, f)
<1> DEFINE c == a \o b
           n == Len(a)
<1>1. /\ c \in Seq(X) /\ n \in Nat /\ Len(b) \in Nat /\ Len(c) = n + Len(b)
      /\ \A i \in 1..Len(c) : \/ i \in 1..n /\ c[i] = a[i]
                              \/ i - n \in 1..Len(b) /\ c[i] = b[i - n]
  BY CatElems
<1> HIDE DEF c
<1>2. \A C : Clear(a, C) /\ Clear(b, C) => Clear(c, C)
  <2> SUFFICES ASSUME NEW C, Clear(a, C), Clear(b, C), NEW i \in 1..Len(c), NEW x \in C
               PROVE  ~Straddles(c[i], x)
    BY DEF Clear
  <2> QED  BY <1>1 DEF Clear
<1>3. ASSUME Once(a, f), Once(b, f), Apart(f, BytesIn(a), BytesIn(b))
      PROVE  Once(c, f)
  <2> SUFFICES ASSUME NEW i \in 1..Len(c), NEW j \in 1..Len(c), NEW x \in Nat, f <= x,
                      In(c[i], x), In(c[j], x)
               PROVE  i = j
    BY DEF Once
  <2>1. ~(Covered(a, x) /\ Covered(b, x))
    BY <1>3, SpanBytes DEF Apart
  <2>2. CASE i \in 1..n /\ c[i] = a[i] /\ j \in 1..n /\ c[j] = a[j]
    BY <1>3, <2>2 DEF Once
  <2>3. CASE /\ i - n \in 1..Len(b) /\ c[i] = b[i - n]
             /\ j - n \in 1..Len(b) /\ c[j] = b[j - n]
    <3>1. i - n = j - n
      BY <1>3, <2>3 DEF Once
    <3> QED  BY <1>1, <3>1
  <2>4. CASE i \in 1..n /\ c[i] = a[i] /\ j - n \in 1..Len(b) /\ c[j] = b[j - n]
    BY <2>1, <2>4 DEF Covered
  <2>5. CASE j \in 1..n /\ c[j] = a[j] /\ i - n \in 1..Len(b) /\ c[i] = b[i - n]
    BY <2>1, <2>5 DEF Covered
  <2> QED  BY <1>1, <2>2, <2>3, <2>4, <2>5
<1> QED  BY <1>2, <1>3 DEF c

LEMMA CatTurn ==
  ASSUME NEW X, Spans(X), NEW a \in Seq(X), NEW b \in Seq(X), NEW f \in Nat, InTurn(a, f),
         \A i \in 1..Len(b) : b[i].end <= f
  PROVE  InTurn(a \o b, f) /\ Stops(f, a \o b) \subseteq Stops(f, a)
<1> DEFINE c == a \o b
           n == Len(a)
<1>1. /\ c \in Seq(X) /\ n \in Nat /\ Len(b) \in Nat /\ Len(c) = n + Len(b)
      /\ \A i \in 1..n : c[i] = a[i]
      /\ \A i \in 1..Len(c) : \/ i \in 1..n /\ c[i] = a[i]
                              \/ i - n \in 1..Len(b) /\ c[i] = b[i - n]
  BY CatElems
<1> HIDE DEF c
<1>2. \A i \in 1..Len(c) : c[i].end \in Nat
  BY <1>1, SpanFields
<1>3. InTurn(c, f)
  <2> SUFFICES ASSUME NEW j \in 1..Len(c)
               PROVE  /\ ~Straddles(c[j], f)
                      /\ \A i \in 1..(j - 1) : f <= c[i].end => ~Straddles(c[j], c[i].end)
    BY DEF InTurn
  <2>1. CASE j \in 1..n
    <3>1. \A i \in 1..(j - 1) : i \in 1..n
      BY <2>1, <1>1
    <3> QED  BY <1>1, <2>1, <3>1 DEF InTurn
  <2>2. CASE j - n \in 1..Len(b) /\ c[j] = b[j - n]
    <3>1. c[j].end \in Nat /\ c[j].end <= f
      BY <1>2, <2>2
    <3>2. \A i \in 1..(j - 1) : i \in 1..Len(c)
      BY <1>1
    <3> QED  BY <1>2, <3>1, <3>2 DEF Straddles
  <2> QED  BY <1>1, <2>1, <2>2
<1>4. ASSUME NEW x \in Stops(f, c)  PROVE x \in Stops(f, a)
  <2>1. CASE x = f
    BY <2>1 DEF Stops
  <2>2. CASE x # f
    <3>1. PICK i \in 1..Len(c) : x \in Nat /\ f <= x /\ c[i].end = x
      BY <2>2 DEF Stops
    <3>2. CASE i \in 1..n /\ c[i] = a[i]
      BY <3>1, <3>2 DEF Stops
    <3>3. CASE i - n \in 1..Len(b) /\ c[i] = b[i - n]
      <4>1. c[i].end <= f /\ c[i].end \in Nat
        BY <1>2, <3>3
      <4> QED  BY <2>2, <3>1, <4>1
    <3> QED  BY <1>1, <3>2, <3>3
  <2> QED  BY <2>1, <2>2
<1> QED  BY <1>3, <1>4 DEF c

\* A packet, behind everything
LEMMA OrderRead ==
  ASSUME NEW X, Spans(X), NEW Y, Spans(Y), NEW f \in Nat,
         NEW S0 \in Seq(X), NEW S1 \in Seq(X), NEW I \in Seq(X), NEW Q \in Seq(Y), NEW h,
         InOrder(f, S0, S1, I, Q, h),
         NEW g \in X, \A c \in Stops(f, S1) : c <= g.start,
         \A x \in Nat : x \in BytesIn(S0) \cup BytesIn(I) \cup BytesIn(Q) \cup h => x < g.start
  PROVE  InOrder(f, Append(S0, g), S1, I, Q, h)
<1> DEFINE C == Stops(f, S1)
           B == BytesIn(Q) \cup h
           one == <<g>>
           T == Append(S0, g)
<1>1. /\ Clear(S0, C) /\ Once(S0, f)
      /\ Apart(f, BytesIn(S0), BytesIn(I)) /\ Apart(f, BytesIn(S0), B)
  BY DEF InOrder
<1>2. g.start \in Nat /\ g.end \in Nat /\ g.start < g.end
  BY DEF Spans
<1>3. one \in Seq(X) /\ Len(one) = 1 /\ one[1] = g /\ T = S0 \o one
  OBVIOUS
<1>4. BytesIn(one) = BytesOf(g) /\ \A x \in BytesOf(g) : x \in Nat /\ g.start <= x
  <2>1. BytesIn(one) = BytesOf(g)
    BY DEF BytesIn
  <2>2. \A x \in BytesOf(g) : x \in Nat /\ g.start <= x
    BY <1>2 DEF BytesOf
  <2> QED  BY <2>1, <2>2
<1>5. \A c \in C : c \in Int
  BY DEF Stops
<1> HIDE DEF C, one
<1>6. Clear(one, C) /\ Once(one, f)
  BY <1>2, <1>3, <1>5 DEF Clear, Once, Straddles, C
<1>7. /\ Apart(f, BytesIn(S0), BytesIn(one)) /\ Apart(f, BytesIn(one), BytesIn(I))
      /\ Apart(f, BytesIn(one), B)
  BY <1>2, <1>4 DEF Apart
<1>8. Clear(T, C) /\ Once(T, f)
  BY <1>1, <1>3, <1>6, <1>7, CatOrder
<1>9. BytesIn(T) = BytesIn(S0) \cup BytesIn(one)
  BY <1>3, CatBytes
<1> HIDE DEF T, B
<1>10. Apart(f, BytesIn(T), BytesIn(I)) /\ Apart(f, BytesIn(T), B)
  BY <1>1, <1>7, <1>9 DEF Apart
<1> QED  BY <1>8, <1>10 DEF InOrder, C, B, T

\* The sender answers an interest, in pieces.
LEMMA OrderAnswer ==
  ASSUME NEW X, Spans(X), NEW Y, Spans(Y), NEW f \in Nat,
         NEW S0 \in Seq(X), NEW S1 \in Seq(X), NEW I \in Seq(X), NEW Q \in Seq(Y), NEW h,
         InOrder(f, S0, S1, I, Q, h), I # <<>>,
         NEW ps \in Seq(X), Once(ps, f),
         \A i \in 1..Len(ps) : Head(I).start <= ps[i].start /\ ps[i].end <= Head(I).end
  PROVE  InOrder(f, S0 \o ps, S1, Tail(I), Q, h)
<1> DEFINE C == Stops(f, S1)
           B == BytesIn(Q) \cup h
           r == Head(I)
           J == Tail(I)
           T == S0 \o ps
<1>1. /\ Clear(S0, C) /\ Once(S0, f) /\ Clear(I, C) /\ Once(I, f)
      /\ Apart(f, BytesIn(S0), BytesIn(I)) /\ Apart(f, BytesIn(S0), B)
      /\ Apart(f, BytesIn(I), B)
  BY DEF InOrder
<1>2. /\ J \in Seq(X) /\ Len(I) \in Nat /\ 1 \in 1..Len(I) /\ r = I[1]
      /\ \A i \in 1..Len(J) : i + 1 \in 1..Len(I) /\ J[i] = I[i + 1] /\ i + 1 # 1
  OBVIOUS
<1> HIDE DEF r, J
<1>3. /\ r.start \in Nat /\ r.end \in Nat
      /\ \A i \in 1..Len(ps) : ps[i].start \in Nat /\ ps[i].end \in Nat
  BY <1>2, SpanFields
<1>4. Thins(J, I)
  <2>1. \A i \in 1..Len(J) : 1 + i \in 1..Len(I) /\ J[i] = I[1 + i]
    BY <1>2
  <2> QED  BY <2>1 DEF Thins
<1>5. \A c \in C : c \in Int
  BY DEF Stops
<1> HIDE DEF C
<1>6. Clear(J, C) /\ Once(J, f) /\ BytesIn(J) \subseteq BytesIn(I)
  BY <1>1, <1>2, <1>4, ThinOrder, ThinBytes
<1>7. Clear(ps, C)
  <2> SUFFICES ASSUME NEW i \in 1..Len(ps), NEW c \in C  PROVE ~Straddles(ps[i], c)
    BY DEF Clear
  <2>1. ~(r.start < c /\ c < r.end) /\ c \in Int
    BY <1>1, <1>2, <1>5 DEF Clear, Straddles
  <2>2. r.start <= ps[i].start /\ ps[i].end <= r.end
    BY DEF r
  <2> QED  BY <1>3, <2>1, <2>2 DEF Straddles
<1>8. \A x \in Nat : x \in BytesIn(ps) => In(r, x) /\ x \in BytesIn(I)
  <2>1. \A x \in Nat : Covered(ps, x) => In(r, x)
    BY <1>3 DEF Covered, In, r
  <2> QED  BY <1>2, <2>1, SpanBytes DEF Covered
<1>9. \A x \in Nat : f <= x => ~(In(r, x) /\ x \in BytesIn(J))
  <2> SUFFICES ASSUME NEW x \in Nat, f <= x, In(r, x), x \in BytesIn(J)  PROVE FALSE
    OBVIOUS
  <2>1. PICK i \in 1..Len(J) : In(J[i], x)
    BY <1>2, SpanBytes DEF Covered
  <2> QED  BY <1>1, <1>2, <2>1 DEF Once
<1>10. Apart(f, BytesIn(S0), BytesIn(ps)) /\ Apart(f, BytesIn(ps), BytesIn(J))
       /\ Apart(f, BytesIn(ps), B)
  BY <1>1, <1>8, <1>9 DEF Apart
<1>11. Clear(T, C) /\ Once(T, f) /\ BytesIn(T) = BytesIn(S0) \cup BytesIn(ps)
  BY <1>1, <1>7, <1>10, CatOrder, CatBytes
<1> HIDE DEF T, B
<1>12. Apart(f, BytesIn(T), BytesIn(J)) /\ Apart(f, BytesIn(T), B) /\ Apart(f, BytesIn(J), B)
  BY <1>1, <1>6, <1>10, <1>11 DEF Apart
<1> QED  BY <1>6, <1>11, <1>12 DEF InOrder, C, B, T, J

\* Node 1 answers node 2 below what node 2 expects next, or queues the rest.
LEMMA OrderServe ==
  ASSUME NEW X, Spans(X), NEW Y, Spans(Y), NEW f \in Nat,
         NEW S0 \in Seq(X), NEW S1 \in Seq(X), NEW I \in Seq(X), NEW Q \in Seq(Y), NEW h,
         InOrder(f, S0, S1, I, Q, h),
         NEW ps \in Seq(X), \A i \in 1..Len(ps) : ps[i].end <= f,
         NEW rs \in Seq(Y), \A i \in 1..Len(rs) : rs[i].end < f
  PROVE  InOrder(f, S0, S1 \o ps, I, Q \o rs, h)
<1> DEFINE C == Stops(f, S1)
           D == Stops(f, S1 \o ps)
           B == BytesIn(Q) \cup h
           R == Q \o rs
<1>1. /\ InTurn(S1, f) /\ Clear(S0, C) /\ Clear(I, C) /\ Unjoined(B, C) /\ Once(Q, f)
      /\ Apart(f, BytesIn(S0), B) /\ Apart(f, BytesIn(I), B) /\ Apart(f, BytesIn(Q), h)
  BY DEF InOrder
<1>2. InTurn(S1 \o ps, f) /\ D \subseteq C
  BY <1>1, CatTurn
<1>3. \A x \in Nat : x \in BytesIn(rs) => x + 1 < f
  <2>1. \A i \in 1..Len(rs) : rs[i].end \in Nat
    BY SpanFields
  <2>2. \A x \in Nat : Covered(rs, x) => x + 1 < f
    BY <2>1 DEF Covered, In
  <2> QED  BY <2>2, SpanBytes
<1>4. \A x \in BytesIn(rs) : x \in Nat
  BY SpanBytes
<1>5. Apart(f, BytesIn(Q), BytesIn(rs)) /\ Once(rs, f)
  <2>1. \A x \in Nat : f <= x => x \notin BytesIn(rs)
    BY <1>3
  <2>2. \A x \in Nat : f <= x => ~Covered(rs, x)
    BY <2>1, SpanBytes
  <2> QED  BY <2>1, <2>2 DEF Apart, Once, Covered
<1>6. Once(R, f) /\ BytesIn(R) = BytesIn(Q) \cup BytesIn(rs)
  BY <1>1, <1>5, CatOrder, CatBytes
<1>7. \A c \in C : c \in Nat /\ f <= c
  BY DEF Stops
<1> HIDE DEF C, D, R
<1>8. Unjoined(BytesIn(R) \cup h, D)
  <2> SUFFICES ASSUME NEW c \in D, c - 1 \in BytesIn(R) \cup h, c \in BytesIn(R) \cup h
               PROVE  FALSE
    BY DEF Unjoined
  <2>1. c \in C /\ c \in Nat /\ f <= c
    BY <1>2, <1>7
  <2>2. c \notin BytesIn(rs)
    BY <1>3, <2>1
  <2>3. c - 1 \notin BytesIn(rs)
    BY <1>3, <1>4, <2>1
  <2> QED  BY <1>1, <1>6, <2>1, <2>2, <2>3 DEF Unjoined
<1>9. Clear(S0, D) /\ Clear(I, D)
  BY <1>1, <1>2 DEF Clear
<1>10. /\ Apart(f, BytesIn(S0), BytesIn(R) \cup h) /\ Apart(f, BytesIn(I), BytesIn(R) \cup h)
       /\ Apart(f, BytesIn(R), h)
  BY <1>1, <1>3, <1>6 DEF Apart
<1> QED  BY <1>2, <1>6, <1>8, <1>9, <1>10 DEF InOrder, D, R

\* Node 1 sends its interests, and queues its ripe holes.
LEMMA OrderFlush ==
  ASSUME NEW X, Spans(X), NEW Y, Spans(Y), NEW f \in Nat,
         NEW S0 \in Seq(X), NEW S1 \in Seq(X), NEW I \in Seq(X), NEW Q \in Seq(Y), NEW h,
         InOrder(f, S0, S1, I, Q, h),
         NEW is \in Seq(X), Once(is, f), BytesIn(is) = BytesIn(Q),
         NEW rs \in Seq(Y), Once(rs, f), BytesIn(rs) \subseteq h,
         NEW k \in SUBSET h, Apart(f, BytesIn(rs), k)
  PROVE  InOrder(f, S0, S1, I \o is, rs, k)
<1> DEFINE C == Stops(f, S1)
           B == BytesIn(Q) \cup h
           J == I \o is
           A == BytesIn(rs) \cup k
<1>1. /\ Clear(S0, C) /\ Clear(I, C) /\ Unjoined(B, C) /\ Once(I, f)
      /\ Apart(f, BytesIn(S0), BytesIn(I)) /\ Apart(f, BytesIn(S0), B)
      /\ Apart(f, BytesIn(I), B) /\ Apart(f, BytesIn(Q), h)
  BY DEF InOrder
<1>2. A \subseteq h
  OBVIOUS
<1>3. \A c \in C : c \in Nat
  BY DEF Stops
<1> HIDE DEF C, A
<1>4. Clear(is, C)
  <2> SUFFICES ASSUME NEW i \in 1..Len(is), NEW c \in C, Straddles(is[i], c)  PROVE FALSE
    BY DEF Clear
  <2>1. is[i].start \in Nat /\ is[i].end \in Nat /\ c \in Nat
    BY <1>3, SpanFields
  <2>2. c - 1 \in Nat /\ In(is[i], c - 1) /\ In(is[i], c)
    BY <2>1 DEF Straddles, In
  <2>3. c - 1 \in BytesIn(is) /\ c \in BytesIn(is)
    BY <2>1, <2>2, SpanBytes DEF Covered
  <2> QED  BY <1>1, <2>3 DEF Unjoined
<1>5. Apart(f, BytesIn(I), BytesIn(is)) /\ Apart(f, BytesIn(S0), BytesIn(is))
  BY <1>1 DEF Apart
<1>6. Clear(J, C) /\ Once(J, f) /\ BytesIn(J) = BytesIn(I) \cup BytesIn(is)
  BY <1>1, <1>4, <1>5, CatOrder, CatBytes
<1> HIDE DEF J
<1>7. Unjoined(A, C)
  BY <1>1, <1>2 DEF Unjoined
<1>8. /\ Apart(f, BytesIn(S0), BytesIn(J)) /\ Apart(f, BytesIn(S0), A) /\ Apart(f, BytesIn(J), A)
  BY <1>1, <1>2, <1>5, <1>6 DEF Apart
<1>9. InTurn(S1, f) /\ Once(S0, f)
  BY DEF InOrder
<1> QED  BY <1>1, <1>6, <1>7, <1>8, <1>9 DEF InOrder, C, J, A

\* Node 1 finds a hole, above all that is queued or missing.
LEMMA OrderHole ==
  ASSUME NEW X, Spans(X), NEW Y, Spans(Y), NEW f \in Nat,
         NEW S0 \in Seq(X), NEW S1 \in Seq(X), NEW I \in Seq(X), NEW Q \in Seq(Y),
         NEW h \in SUBSET Nat, InOrder(f, S0, S1, I, Q, h),
         NEW e \in Nat, NEW b \in Nat, \A c \in Stops(f, S1) : c <= e,
         \A x \in Nat : x \in BytesIn(Q) \cup h => x + 1 < e,
         \A x \in e..(b - 1) : x \notin BytesIn(S0) /\ x \notin BytesIn(I)
  PROVE  InOrder(f, S0, S1, I, Q, h \cup e..(b - 1))
<1> DEFINE C == Stops(f, S1)
           B == BytesIn(Q) \cup h
           N == e..(b - 1)
<1>1. /\ Unjoined(B, C) /\ Apart(f, BytesIn(S0), B) /\ Apart(f, BytesIn(I), B)
      /\ Apart(f, BytesIn(Q), h)
  BY DEF InOrder
<1>2. \A c \in C : c \in Nat /\ c <= e
  BY DEF Stops
<1>3. \A x \in B : x \in Nat /\ x + 1 < e
  BY SpanBytes
<1>4. \A x \in N : x \in Nat /\ e <= x
  OBVIOUS
<1>5. Unjoined(B \cup N, C)
  <2> SUFFICES ASSUME NEW c \in C, c - 1 \in B \cup N, c \in B \cup N  PROVE FALSE
    BY DEF Unjoined
  <2>1. c - 1 \notin N
    BY <1>2
  <2>2. c \in N
    BY <1>1, <2>1 DEF Unjoined
  <2>3. c = e /\ c - 1 \in B
    BY <1>2, <2>1, <2>2
  <2> QED  BY <1>3, <2>3
<1> HIDE DEF C, N
<1>6. Apart(f, BytesIn(S0), B \cup N) /\ Apart(f, BytesIn(I), B \cup N)
  BY <1>1, <1>4 DEF Apart, N
<1>7. Apart(f, BytesIn(Q), h \cup N)
  <2>1. \A x \in N : x \notin BytesIn(Q)
    BY <1>3, <1>4
  <2> QED  BY <1>1, <2>1 DEF Apart
<1>8. B \cup N = BytesIn(Q) \cup (h \cup N)
  OBVIOUS
<1> HIDE DEF B
<1> QED  BY <1>5, <1>6, <1>7, <1>8 DEF InOrder, C, N

\* Node 1 takes what comes first, and passes it on.
LEMMA OrderPass ==
  ASSUME NEW X, Spans(X), NEW Y, Spans(Y), NEW f \in Nat,
         NEW S0 \in Seq(X), NEW S1 \in Seq(X), NEW I \in Seq(X), NEW Q \in Seq(Y), NEW h,
         InOrder(f, S0, S1, I, Q, h), S0 # <<>>, NEW g, g = Head(S0)
  PROVE  InOrder(f, Tail(S0), Append(S1, g), I, Q, h)
<1> DEFINE T == Tail(S0)
           B == BytesIn(Q) \cup h
           z == g.end - 1
<1>1. /\ Len(S0) \in Nat /\ 1 \in 1..Len(S0) /\ g = S0[1] /\ g \in X
      /\ T \in Seq(X) /\ \A i \in 1..Len(T) : i + 1 \in 1..Len(S0) /\ T[i] = S0[i + 1] /\ i + 1 # 1
  OBVIOUS
<1>2. g.start \in Nat /\ g.end \in Nat /\ g.start < g.end
  BY <1>1 DEF Spans
<1>3. /\ Clear(S0, Stops(f, S1)) /\ Once(S0, f)
      /\ Apart(f, BytesIn(S0), BytesIn(I)) /\ Apart(f, BytesIn(S0), B)
  BY DEF InOrder
<1> HIDE DEF T
<1>4. Thins(T, S0)
  <2>1. \A i \in 1..Len(T) : 1 + i \in 1..Len(S0) /\ T[i] = S0[1 + i]
    BY <1>1
  <2> QED  BY <2>1 DEF Thins
<1>5. Thins(S1, S1) /\ Thins(I, I)
  <2>1. \A i \in 1..Len(S1) : 0 + i \in 1..Len(S1) /\ S1[i] = S1[0 + i]
    OBVIOUS
  <2>2. \A i \in 1..Len(I) : 0 + i \in 1..Len(I) /\ I[i] = I[0 + i]
    OBVIOUS
  <2> QED  BY <2>1, <2>2 DEF Thins
<1>6. InOrder(f, T, S1, I, Q, h)
  BY <1>1, <1>4, <1>5, OrderLess
<1>7. z \in Nat /\ In(g, z)
  BY <1>2 DEF In
<1>8. z \in BytesIn(S0)
  BY <1>1, <1>7, SpanBytes DEF Covered
<1>9. ASSUME f < g.end
      PROVE  /\ Clear(T, {g.end}) /\ Clear(I, {g.end}) /\ Unjoined(B, {g.end})
  <2>0. f <= z
    BY <1>2, <1>9
  <2>1. ASSUME NEW r \in X, Straddles(r, g.end)  PROVE In(r, z)
    <3>1. r.start \in Nat /\ r.end \in Nat
      BY DEF Spans
    <3> QED  BY <1>2, <2>1, <3>1 DEF Straddles, In
  <2>2. ASSUME NEW i \in 1..Len(T), Straddles(T[i], g.end)  PROVE FALSE
    <3>1. In(S0[i + 1], z) /\ In(S0[1], z) /\ i + 1 # 1 /\ i + 1 \in 1..Len(S0)
      BY <1>1, <1>7, <2>1, <2>2
    <3> QED  BY <1>1, <1>3, <1>7, <2>0, <3>1 DEF Once
  <2>3. ASSUME NEW i \in 1..Len(I), Straddles(I[i], g.end)  PROVE FALSE
    <3>1. In(I[i], z)
      BY <2>1, <2>3
    <3>2. z \in BytesIn(I)
      BY <1>7, <3>1, SpanBytes DEF Covered
    <3> QED  BY <1>3, <1>7, <1>8, <2>0, <3>2 DEF Apart
  <2>4. z \notin B
    BY <1>3, <1>7, <1>8, <2>0 DEF Apart
  <2>5. Clear(T, {g.end}) /\ Clear(I, {g.end})
    BY <2>2, <2>3 DEF Clear
  <2> HIDE DEF B
  <2> QED  BY <2>4, <2>5 DEF Unjoined
<1>10. \A c \in Stops(f, S1) : ~Straddles(g, c)
  BY <1>1, <1>3 DEF Clear
<1>11. InOrder(f, T, Append(S1, g), I, Q, h)
  BY <1>1, <1>6, <1>9, <1>10, OrderStop
<1> QED  BY <1>11 DEF T

\* The same when g leaves a gap behind: [e, g.start) goes ahead as a header.
LEMMA OrderGap ==
  ASSUME NEW X, Spans(X), NEW Y, Spans(Y), NEW f \in Nat,
         NEW S0 \in Seq(X), NEW S1 \in Seq(X), NEW I \in Seq(X), NEW Q \in Seq(Y),
         NEW h \in SUBSET Nat,
         InOrder(f, S0, S1, I, Q, h), S0 # <<>>, NEW g, g = Head(S0),
         NEW e \in Nat, InLine(S0, e), e < g.start,
         f <= e, \A i \in 1..Len(S1) : S1[i].end <= e, \A i \in 1..Len(I) : I[i].end < e,
         \A x \in Nat : x \in BytesIn(Q) \cup h => x + 1 < e,
         NEW r \in X, r.start = e, r.end = g.start
  PROVE  InOrder(f, Tail(S0), Append(Append(S1, r), g), I, Q, h \cup e..(g.start - 1))
<1> DEFINE b == g.start
           k == h \cup e..(b - 1)
           S == Append(S1, r)
<1>1. Len(S0) \in Nat /\ 1 \in 1..Len(S0) /\ g = S0[1] /\ g \in X
  OBVIOUS
<1>2. /\ b \in Nat /\ g.end \in Nat /\ b < g.end
      /\ \A i \in 1..Len(S0) : S0[i].start \in Nat /\ S0[i].end \in Nat /\ S0[i].start < S0[i].end
      /\ \A i \in 1..Len(S1) : S1[i].end \in Nat
      /\ \A i \in 1..Len(I) : I[i].start \in Nat /\ I[i].end \in Nat /\ I[i].start < I[i].end
  BY <1>1, SpanFields
<1>3. \A c \in Stops(f, S1) : c \in Nat /\ c <= e
  BY DEF Stops
<1>4. \A i \in 1..Len(S0) : S0[i].end <= e \/ b <= S0[i].start
  <2> SUFFICES ASSUME NEW i \in 1..Len(S0), ~(S0[i].end <= e)  PROVE b <= S0[i].start
    OBVIOUS
  <2>1. \A j \in 1..(i - 1) : S0[j].end <= S0[i].start
    BY DEF InLine
  <2>2. CASE i = 1
    BY <1>1, <1>2, <2>2
  <2>3. CASE i # 1
    <3>1. 1 \in 1..(i - 1)
      BY <1>1, <2>3
    <3>2. S0[1].end <= S0[i].start
      BY <2>1, <3>1
    <3> QED  BY <1>1, <1>2, <3>2
  <2> QED  BY <2>2, <2>3
<1> HIDE DEF b
<1>5. ASSUME NEW x \in e..(b - 1)  PROVE x \notin BytesIn(S0) /\ x \notin BytesIn(I)
  <2>0. x \in Nat /\ e <= x /\ x < b
    BY <1>2
  <2>1. ~Covered(S0, x)
    <3>1. ASSUME NEW i \in 1..Len(S0), In(S0[i], x)  PROVE FALSE
      <4>1. S0[i].start <= x /\ x < S0[i].end /\ S0[i].start \in Nat /\ S0[i].end \in Nat
        BY <1>2, <3>1 DEF In
      <4>2. S0[i].end <= e \/ b <= S0[i].start
        BY <1>4
      <4> HIDE DEF b
      <4>3. b \in Nat
        BY <1>2
      <4> QED  BY <2>0, <4>1, <4>2, <4>3
    <3> QED  BY <3>1 DEF Covered
  <2>2. ~Covered(I, x)
    BY <1>2, <2>0 DEF Covered, In
  <2> QED  BY <2>1, <2>2, SpanBytes
<1>6. InOrder(f, S0, S1, I, Q, k)
  BY <1>2, <1>3, <1>5, OrderHole
<1>7. \A c \in Stops(f, S1) : ~Straddles(r, c)
  BY <1>3 DEF Straddles
<1>8. Clear(S0, {b}) /\ Clear(I, {b})
  <2>1. \A i \in 1..Len(S0) : ~Straddles(S0[i], b)
    BY <1>2, <1>4 DEF Straddles, b
  <2>2. \A i \in 1..Len(I) : ~Straddles(I[i], b)
    BY <1>2 DEF Straddles, b
  <2> QED  BY <2>1, <2>2 DEF Clear
<1>9. Unjoined(BytesIn(Q) \cup k, {b})
  <2>1. b \notin BytesIn(Q) \cup h
    BY <1>2 DEF b
  <2>2. b \notin e..(b - 1)
    BY <1>2
  <2>3. b \notin BytesIn(Q) \cup k
    BY <2>1, <2>2
  <2> HIDE DEF k
  <2> QED  BY <2>3 DEF Unjoined
<1>10. r.end = b
  BY DEF b
<1> HIDE DEF k
<1>11. InOrder(f, S0, S, I, Q, k)
  BY <1>6, <1>7, <1>8, <1>9, <1>10, OrderStop
<1>12. S \in Seq(X)
  OBVIOUS
<1> HIDE DEF S
<1>13. InOrder(f, Tail(S0), Append(S, g), I, Q, k)
  BY <1>11, <1>12, OrderPass
<1> QED  BY <1>13 DEF S, k, b

\* What node 1 expects next when it has taken what comes first.
LEMMA LineOn ==
  ASSUME NEW X, Spans(X), NEW S \in Seq(X), S # <<>>, NEW e \in Nat, InLine(S, e),
         NEW g, g = Head(S)
  PROVE  /\ g.end <= e \/ e <= g.start
         /\ InLine(Tail(S), IF e <= g.start THEN g.end ELSE e)
<1> DEFINE T == Tail(S)
<1>1. /\ Len(S) \in Nat /\ 1 \in 1..Len(S) /\ g = S[1] /\ T \in Seq(X) /\ Len(T) \in Nat
      /\ \A i \in 1..Len(T) : i + 1 \in 1..Len(S) /\ T[i] = S[i + 1] /\ 1 \in 1..((i + 1) - 1)
      /\ \A j \in 1..Len(T) : \A i \in 1..(j - 1) :
           i \in 1..Len(T) /\ i + 1 \in 1..((j + 1) - 1)
  OBVIOUS
<1>2. \A i \in 1..Len(S) : S[i].start \in Nat /\ S[i].end \in Nat /\ S[i].start < S[i].end
  BY SpanFields
<1>3. \A j \in 1..Len(S) :
        \/ S[j].end <= e
        \/ e <= S[j].start /\ \A i \in 1..(j - 1) : S[i].end <= S[j].start
  BY DEF InLine
<1> HIDE DEF T
<1>4. ASSUME NEW c, c = e \/ (e <= g.start /\ c = g.end), NEW j \in 1..Len(T)
      PROVE  \/ T[j].end <= c
             \/ c <= T[j].start /\ \A i \in 1..(j - 1) : T[i].end <= T[j].start
  <2>1. T[j] = S[j + 1] /\ j + 1 \in 1..Len(S)
    BY <1>1
  <2>2. c \in Nat /\ e <= c
    BY <1>1, <1>2, <1>4
  <2>3. CASE S[j + 1].end <= e
    BY <1>2, <2>1, <2>2, <2>3
  <2>4. CASE e <= S[j + 1].start /\ \A i \in 1..((j + 1) - 1) : S[i].end <= S[j + 1].start
    <3>1. S[1].end <= S[j + 1].start
      BY <1>1, <2>4
    <3>2. \A i \in 1..(j - 1) : T[i].end <= T[j].start
      BY <1>1, <2>1, <2>4
    <3>3. c <= T[j].start
      BY <1>1, <1>4, <2>1, <2>4, <3>1
    <3> QED  BY <3>2, <3>3
  <2> QED  BY <1>3, <2>1, <2>3, <2>4
<1> DEFINE c == IF e <= g.start THEN g.end ELSE e
<1>5. InLine(T, c)
  <2>1. c = e \/ (e <= g.start /\ c = g.end)
    OBVIOUS
  <2> HIDE DEF c
  <2>2. \A j \in 1..Len(T) : \/ T[j].end <= c
                             \/ c <= T[j].start /\ \A i \in 1..(j - 1) : T[i].end <= T[j].start
    BY <1>4, <2>1
  <2> QED  BY <2>2 DEF InLine
<1> QED  BY <1>1, <1>3, <1>5 DEF T

\* What comes last is new, or old.
LEMMA LineCat ==
  ASSUME NEW X, Spans(X), NEW S \in Seq(X), NEW e \in Nat, InLine(S, e)
  PROVE  /\ \A g \in X : e <= g.start /\ (\A i \in 1..Len(S) : S[i].end <= g.start)
                         => InLine(Append(S, g), e)
         /\ \A ps \in Seq(X) : (\A i \in 1..Len(ps) : ps[i].end <= e) => InLine(S \o ps, e)
<1>1. ASSUME NEW ps \in Seq(X), \A i \in 1..Len(ps) : ps[i].end <= e
      PROVE  InLine(S \o ps, e)
  <2> DEFINE c == S \o ps
             n == Len(S)
  <2>1. /\ n \in Nat /\ Len(c) = n + Len(ps) /\ Len(ps) \in Nat
        /\ \A i \in 1..n : c[i] = S[i]
        /\ \A i \in 1..Len(c) : \/ i \in 1..n /\ c[i] = S[i]
                                \/ i - n \in 1..Len(ps) /\ c[i] = ps[i - n]
    BY CatElems
  <2>2. \A j \in 1..n : \A i \in 1..(j - 1) : i \in 1..n
    BY <2>1
  <2> HIDE DEF c, n
  <2>3. ASSUME NEW j \in 1..Len(c)
        PROVE  \/ c[j].end <= e
               \/ e <= c[j].start /\ \A i \in 1..(j - 1) : c[i].end <= c[j].start
    <3>1. CASE j \in 1..n /\ c[j] = S[j]
      <4>1. \/ S[j].end <= e
            \/ e <= S[j].start /\ \A i \in 1..(j - 1) : S[i].end <= S[j].start
        BY <3>1 DEF InLine, n
      <4>2. \A i \in 1..(j - 1) : c[i] = S[i]
        BY <2>1, <2>2, <3>1
      <4> QED  BY <3>1, <4>1, <4>2
    <3>2. CASE j - n \in 1..Len(ps) /\ c[j] = ps[j - n]
      BY <1>1, <3>2
    <3> QED  BY <2>1, <3>1, <3>2
  <2>4. InLine(c, e)
    BY <2>3 DEF InLine
  <2> QED  BY <2>4 DEF c
<1>2. ASSUME NEW g \in X, e <= g.start, \A i \in 1..Len(S) : S[i].end <= g.start
      PROVE  InLine(Append(S, g), e)
  <2> DEFINE c == Append(S, g)
             n == Len(S)
  <2>1. /\ n \in Nat /\ Len(c) = n + 1 /\ c[n + 1] = g
        /\ \A i \in 1..n : c[i] = S[i]
        /\ \A j \in 1..n : \A i \in 1..(j - 1) : i \in 1..n
        /\ \A i \in 1..((n + 1) - 1) : i \in 1..n
        /\ \A i \in 1..Len(c) : i \in 1..n \/ i = n + 1
    OBVIOUS
  <2>2. \A i \in 1..n : S[i].end <= g.start
    BY <1>2
  <2> HIDE DEF c, n
  <2>3. \A j \in 1..n : \/ c[j].end <= e
                        \/ e <= c[j].start /\ \A i \in 1..(j - 1) : c[i].end <= c[j].start
    BY <2>1 DEF InLine, n
  <2>4. e <= c[n + 1].start /\ \A i \in 1..((n + 1) - 1) : c[i].end <= c[n + 1].start
    BY <1>2, <2>1, <2>2
  <2>5. \A j \in 1..Len(c) : \/ c[j].end <= e
                             \/ e <= c[j].start /\ \A i \in 1..(j - 1) : c[i].end <= c[j].start
    BY <2>1, <2>3, <2>4
  <2>6. InLine(c, e)
    BY <2>5 DEF InLine
  <2> QED  BY <2>6 DEF c
<1> QED  BY <1>1, <1>2

-----------------------------------------------------------------------------
(***************************************************************************)
(* Bytes asked for once stay so: in what is cut, joined and answered.      *)
(***************************************************************************)
\* What lies in order is there once.
LEMMA SortedOnce ==
  ASSUME NEW X, Spans(X), NEW rs \in Seq(X), Sorted(rs), NEW f
  PROVE  Once(rs, f)
<1>1. \A i \in 1..Len(rs) : rs[i].start \in Nat /\ rs[i].end \in Nat /\ rs[i].start < rs[i].end
  BY SpanFields
<1>2. ASSUME NEW i \in 1..Len(rs), NEW j \in 1..Len(rs), NEW x \in Nat,
             In(rs[i], x), In(rs[j], x), i < j
      PROVE  FALSE
  <2>1. rs[i].end <= rs[j].start
    BY <1>2 DEF Sorted
  <2> QED  BY <1>1, <1>2, <2>1 DEF In
<1>3. Len(rs) \in Nat
  OBVIOUS
<1>4. ASSUME NEW i \in 1..Len(rs), NEW j \in 1..Len(rs), NEW x \in Nat,
             In(rs[i], x), In(rs[j], x)
      PROVE  i = j
  <2>1. ~(i < j) /\ ~(j < i)
    BY <1>2, <1>4
  <2> QED  BY <1>3, <2>1
<1> QED  BY <1>4 DEF Once

LEMMA PiecesSorted ==
  ASSUME NEW a \in Nat, NEW b \in Nat, a <= b
  PROVE  Sorted(Pieces(a, b))
<1> DEFINE P == Pieces(a, b)
           n == HowMany(a, b)
<1>0. MSS \in Nat /\ n \in Nat /\ Len(P) = n
  BY MSSAssumption, HowManyIs, PiecesAre
<1>1. P = [i \in 1..n |-> ByteRange(a + (i - 1) * MSS, Least(a + i * MSS, b))]
  BY DEF Pieces, HowMany
<1> HIDE DEF P, n
<1>2. \A i \in 1..n : P[i].start = a + (i - 1) * MSS /\ P[i].end = Least(a + i * MSS, b)
  BY <1>1 DEF ByteRange
<1>3. ASSUME NEW i \in 1..n, NEW j \in 1..n, i < j  PROVE P[i].end <= P[j].start
  <2>1. i \in Int /\ j - 1 \in Int /\ i <= j - 1
    BY <1>0, <1>3
  <2> DEFINE u == i * MSS
             v == (j - 1) * MSS
  <2>2. u \in Int /\ v \in Int /\ u <= v
    BY <1>0, <2>1, Multiple
  <2>3. P[i].end = Least(a + u, b) /\ P[j].start = a + v
    BY <1>2
  <2> HIDE DEF u, v
  <2>4. Least(a + u, b) <= a + u
    BY <2>2 DEF Least
  <2>5. Least(a + u, b) \in Int
    BY <2>2 DEF Least
  <2> QED  BY <2>2, <2>3, <2>4, <2>5
<1> QED  BY <1>0, <1>3 DEF Sorted, P

LEMMA RngSpans == Spans(Rng) /\ Spans(Hole)
BY DEF Spans, Rng, Hole

\* Sequences that each stay within a range of their own.
LEMMA FlattenOnce ==
  ASSUME NEW X, Spans(X), NEW seqs \in Seq(Seq(X)), NEW f, NEW rs, Once(rs, f),
         Len(rs) = Len(seqs),
         \A i \in 1..Len(seqs) :
           /\ Once(seqs[i], f)
           /\ \A m \in 1..Len(seqs[i]) : \A x \in Nat : In(seqs[i][m], x) => In(rs[i], x)
  PROVE  Once(FlattenSeq(seqs), f)
<1> DEFINE F == FlattenSeq(seqs)
           n == Len(seqs)
<1>1. F \in Seq(X) /\ InPlace(F, seqs, n)
  BY FlattenPlaces
<1>2. Len(F) \in Nat /\ n \in Nat
  BY <1>1
<1> HIDE DEF F
<1>3. ASSUME NEW i \in 1..Len(F), NEW j \in 1..Len(F), NEW x \in Nat, f <= x,
             In(F[i], x), In(F[j], x), i < j
      PROVE  FALSE
  <2>1. Before(F[i], F[j], seqs, n)
    BY <1>1, <1>3 DEF InPlace
  <2>2. PICK p \in 1..n, q \in 1..n : \E m \in 1..Len(seqs[p]), o \in 1..Len(seqs[q]) :
          /\ F[i] = seqs[p][m] /\ F[j] = seqs[q][o] /\ (p < q \/ (p = q /\ m < o))
    BY <2>1 DEF Before
  <2>3. PICK m \in 1..Len(seqs[p]), o \in 1..Len(seqs[q]) :
          /\ F[i] = seqs[p][m] /\ F[j] = seqs[q][o] /\ (p < q \/ (p = q /\ m < o))
    BY <2>2
  <2>4. In(seqs[p][m], x) /\ In(seqs[q][o], x)
    BY <1>3, <2>3
  <2>5. In(rs[p], x) /\ In(rs[q], x)
    BY <2>4
  <2>6. p = q
    BY <1>3, <2>5 DEF Once
  <2>7. Once(seqs[p], f)
    OBVIOUS
  <2>8. m = o
    BY <1>3, <2>4, <2>6, <2>7 DEF Once
  <2>9. seqs[p] \in Seq(X)
    OBVIOUS
  <2> QED  BY <1>2, <2>3, <2>6, <2>8, <2>9
<1>4. ASSUME NEW i \in 1..Len(F), NEW j \in 1..Len(F), NEW x \in Nat, f <= x,
             In(F[i], x), In(F[j], x)
      PROVE  i = j
  <2>1. ~(i < j) /\ ~(j < i)
    BY <1>3, <1>4
  <2> QED  BY <1>2, <2>1
<1> QED  BY <1>4 DEF Once, F

LEMMA AskedOnce ==
  ASSUME NEW rs \in Seq(Rng), NEW f, Once(rs, f)
  PROVE  Once(Asked(rs), f)
<1> DEFINE S == Cuts(rs)
<1>1. /\ S \in Seq(Seq(Rng)) /\ Len(S) = Len(rs)
      /\ \A p \in 1..Len(rs) : S[p] = Pieces(rs[p].start, rs[p].end) /\ S[p] \in Seq(Rng)
  BY CutsAre
<1>2. ASSUME NEW p \in 1..Len(rs)
      PROVE  /\ Once(S[p], f)
             /\ \A m \in 1..Len(S[p]) : \A x \in Nat : In(S[p][m], x) => In(rs[p], x)
  <2> DEFINE a == rs[p].start
             b == rs[p].end
  <2>1. a \in Nat /\ b \in Nat /\ a <= b
    BY RngFields
  <2>2. S[p] = Pieces(a, b) /\ S[p] \in Seq(Rng)
    BY <1>1
  <2>3. \A x : In(rs[p], x) <=> a <= x /\ x < b
    BY DEF In
  <2> HIDE DEF S, a, b
  <2>4. Once(S[p], f)
    BY <2>1, <2>2, PiecesSorted, RngSpans, SortedOnce
  <2>5. \A m \in 1..Len(S[p]) : a <= S[p][m].start /\ S[p][m].end <= b
    BY <2>1, <2>2, PiecesAre
  <2>6. \A m \in 1..Len(S[p]) : S[p][m].start \in Nat /\ S[p][m].end \in Nat
    BY <2>2, RngFields
  <2>7. \A m \in 1..Len(S[p]) : \A x \in Nat : In(S[p][m], x) => a <= x /\ x < b
    BY <2>1, <2>5, <2>6 DEF In
  <2> QED  BY <2>3, <2>4, <2>7
<1> HIDE DEF S
<1>3. Once(FlattenSeq(S), f)
  BY <1>1, <1>2, RngSpans, FlattenOnce
<1> QED  BY <1>3 DEF Asked, S

LEMMA AppendOnce ==
  ASSUME NEW X, Spans(X), NEW rs \in Seq(X), NEW r \in X, NEW f
  PROVE  Once(Append(rs, r), f) <=>
           /\ Once(rs, f)
           /\ \A x \in Nat : f <= x => ~(Covered(rs, x) /\ In(r, x))
<1> DEFINE more == Append(rs, r)
           n == Len(rs)
<1>1. /\ n \in Nat /\ Len(more) = n + 1 /\ more[n + 1] = r
      /\ \A i \in 1..n : more[i] = rs[i] /\ i \in 1..(n + 1) /\ i # n + 1
      /\ \A i \in 1..(n + 1) : i \in 1..n \/ i = n + 1
      /\ n + 1 \in 1..(n + 1)
  OBVIOUS
<1> HIDE DEF more, n
<1>2. ASSUME Once(more, f)
      PROVE  Once(rs, f) /\ \A x \in Nat : f <= x => ~(Covered(rs, x) /\ In(r, x))
  <2>1. \A i, j \in 1..n : \A x \in Nat : f <= x /\ In(rs[i], x) /\ In(rs[j], x) => i = j
    BY <1>1, <1>2 DEF Once
  <2>2. \A i \in 1..n : \A x \in Nat : f <= x => ~(In(rs[i], x) /\ In(r, x))
    BY <1>1, <1>2 DEF Once
  <2> QED  BY <2>1, <2>2 DEF Once, Covered, n
<1>3. ASSUME Once(rs, f), \A x \in Nat : f <= x => ~(Covered(rs, x) /\ In(r, x))
      PROVE  Once(more, f)
  <2>1. \A i, j \in 1..n : \A x \in Nat : f <= x /\ In(rs[i], x) /\ In(rs[j], x) => i = j
    BY <1>3 DEF Once, n
  <2>2. \A i \in 1..n : \A x \in Nat : f <= x => ~(In(rs[i], x) /\ In(r, x))
    BY <1>3 DEF Covered, n
  <2>3. \A i, j \in 1..(n + 1) : \A x \in Nat :
          f <= x /\ In(more[i], x) /\ In(more[j], x) => i = j
    BY <1>1, <2>1, <2>2
  <2> QED  BY <1>1, <2>3 DEF Once
<1> QED  BY <1>2, <1>3 DEF more

\* Joining neighbours keeps every byte single.
LEMMA JoinOnce ==
  ASSUME NEW rs \in Seq(Rng), NEW r \in Rng, NEW f, Once(rs, f),
         \A x \in Nat : f <= x => ~(Covered(rs, x) /\ In(r, x)),
         NEW new, new = JoinNext(rs, r)
  PROVE  Once(new, f)
<1>0. r.start \in Nat /\ r.end \in Nat /\ r.start < r.end
  BY DEF Rng
<1>1. CASE rs # <<>> /\ Last(rs).end = r.start
  <2> DEFINE n == Len(rs)
             l == rs[n]
             w == [l EXCEPT !.end = r.end]
  <2>1. l \in Rng /\ l.end = r.start
    BY <1>1 DEF Last
  <2>2. l.start \in Nat /\ l.end \in Nat /\ l.start < l.end
        /\ l = [start |-> l.start, end |-> l.end]
    BY <2>1 DEF Rng
  <2>3. w.start = l.start /\ w.end = r.end /\ w \in Rng
    BY <1>0, <2>1, <2>2 DEF Rng
  <2>4. new = [rs EXCEPT ![n] = w]
    BY <1>1 DEF JoinNext
  <2> HIDE DEF w
  <2>5. PICK front \in Seq(Rng) : rs = Append(front, l) /\ [rs EXCEPT ![n] = w] = Append(front, w)
    <3> HIDE DEF n
    <3>1. rs # <<>> /\ w \in Rng /\ n = Len(rs)
      BY <1>1, <2>3 DEF n
    <3>2. PICK front : LastOf(front, Rng, rs, n, w)
      BY <3>1, LastChanged
    <3> QED  BY <3>2 DEF LastOf
  <2> HIDE DEF l
  <2>6. \A x : Covered(rs, x) <=> Covered(front, x) \/ In(l, x)
    BY <2>1, <2>5, AppendCovers
  <2>7. Once(front, f) /\ \A x \in Nat : f <= x => ~(Covered(front, x) /\ In(l, x))
    <3>1. Once(Append(front, l), f)
      BY <2>5
    <3> QED  BY <2>1, <3>1, AppendOnce, RngSpans
  <2>8. \A x \in Nat : In(w, x) <=> In(l, x) \/ In(r, x)
    BY <1>0, <2>1, <2>2, <2>3 DEF In
  <2>9. \A x \in Nat : f <= x => ~(Covered(front, x) /\ In(w, x))
    BY <2>6, <2>7, <2>8
  <2>10. Once(Append(front, w), f)
    BY <2>3, <2>7, <2>9, AppendOnce, RngSpans
  <2> QED  BY <2>4, <2>5, <2>10
<1>2. CASE ~(rs # <<>> /\ Last(rs).end = r.start)
  <2>1. new = Append(rs, r)
    BY <1>2 DEF JoinNext
  <2> QED  BY <2>1, AppendOnce, RngSpans
<1> QED  BY <1>1, <1>2

LEMMA RunsOnce ==
  ASSUME NEW q \in Seq(Rng), NEW f, Once(q, f)
  PROVE  Once(Runs(q), f)
<1> DEFINE n == Len(q)
<1>0. /\ n \in Nat /\ q \in [1..n -> Rng] /\ <<>> \in Seq(Rng)
      /\ \A k \in 1..n : q[k] \in Rng
  OBVIOUS
<1>1. \A k \in 1..n : \A c \in Seq(Rng) : JoinNext(c, q[k]) \in Seq(Rng)
  BY <1>0, JoinNextIs
<1>2. PICK acc : JoinedBy(acc, Seq(Rng), n, q)
  <2> HIDE DEF n
  <2> QED  BY <1>0, <1>1, RunsFold
<1>3. /\ acc \in [0..n -> Seq(Rng)] /\ acc[0] = <<>> /\ acc[n] = Runs(q)
      /\ \A k \in 1..n : acc[k] = JoinNext(acc[k - 1], q[k])
  BY <1>2 DEF JoinedBy
<1> DEFINE Good(k) ==
             /\ Once(acc[k], f)
             /\ \A x \in Nat : Covered(acc[k], x) <=> \E i \in 1..k : In(q[i], x)
           T == {k \in 0..n : Good(k)}
<1> HIDE DEF n
<1>4. 0 \in T
  <2>1. Len(acc[0]) = 0
    BY <1>3
  <2>2. Once(acc[0], f) /\ \A x : ~Covered(acc[0], x)
    BY <2>1 DEF Covered, Once
  <2> QED  BY <1>0, <2>2
<1>5. ASSUME NEW k \in 1..n, k - 1 \in T  PROVE k \in T
  <2>1. Good(k - 1) /\ k \in 0..n /\ k - 1 \in 0..n
    BY <1>0, <1>5
  <2>2. acc[k - 1] \in Seq(Rng) /\ q[k] \in Rng /\ acc[k] = JoinNext(acc[k - 1], q[k])
    BY <1>0, <1>3, <2>1
  <2>3. \A x \in Nat : Covered(acc[k], x) <=> Covered(acc[k - 1], x) \/ In(q[k], x)
    BY <2>2, JoinNextIs
  <2>4. \A i : i \in 1..k <=> i \in 1..(k - 1) \/ i = k
    BY <1>0
  <2>5. ASSUME NEW x \in Nat, f <= x, Covered(acc[k - 1], x), In(q[k], x)  PROVE FALSE
    <3>1. PICK i \in 1..(k - 1) : In(q[i], x)
      BY <2>1, <2>5
    <3>2. i \in 1..n /\ i # k
      BY <1>0
    <3> QED  BY <2>5, <3>1, <3>2 DEF Once, n
  <2>6. Once(acc[k], f)
    BY <2>1, <2>2, <2>5, JoinOnce
  <2>7. ASSUME NEW x \in Nat
        PROVE  Covered(acc[k], x) <=> \E i \in 1..k : In(q[i], x)
    BY <2>1, <2>3, <2>4
  <2> QED  BY <2>1, <2>6, <2>7
<1>6. Good(n)
  <2> HIDE DEF Good
  <2>1. \A k \in 1..n : k - 1 \in T => k \in T  BY <1>5
  <2>2. \A k \in 0..n : k \in T
    <3> HIDE DEF T
    <3> QED  BY <1>0, <1>4, <2>1, Induct
  <2>3. n \in 0..n  BY <1>0
  <2> QED  BY <2>2, <2>3
<1> QED  BY <1>3, <1>6

\* Interests for every byte queued once ask for it once.
LEMMA FlushQueueOnce ==
  ASSUME NEW q \in Seq(Rng), NEW f, Once(q, f)
  PROVE  Once(FlushIntQueue(q), f)
<1>1. Runs(q) \in Seq(Rng) /\ Once(Runs(q), f)
  BY RunsAre, RunsOnce
<1>2. FlushIntQueue(q) = Asked(Runs(q))
  BY DEF FlushIntQueue, Runs, Asked, Cuts
<1> QED  BY <1>1, <1>2, AskedOnce

LEMMA SegsOnce ==
  ASSUME NEW k \in Kinds, NEW lo \in Nat, NEW hi \in Int, NEW rs, RangesOK(rs, lo, hi), NEW f
  PROVE  /\ Once(rs, f) => Once(Segs(k, rs), f)
         /\ BytesIn(Segs(k, rs)) = BytesIn(rs)
<1> DEFINE S == Segs(k, rs)
<1>1. /\ S \in Seq(SegIn(lo, hi)) /\ Len(S) = Len(rs)
      /\ \A i \in 1..Len(rs) : S[i].start = rs[i].start /\ S[i].end = rs[i].end
  <2>1. /\ Segs(k, rs) \in Seq(SegIn(lo, hi)) /\ Len(Segs(k, rs)) = Len(rs)
        /\ \A i \in 1..Len(rs) : /\ Segs(k, rs)[i].kind = k
                                 /\ Segs(k, rs)[i].start = rs[i].start
                                 /\ Segs(k, rs)[i].end = rs[i].end
    BY SegsIs
  <2> QED  BY <2>1
<1>2. Len(rs) \in Nat /\ DOMAIN rs = 1..Len(rs) /\ DOMAIN S = 1..Len(rs)
  BY <1>1 DEF RangesOK
<1> HIDE DEF S
<1>3. \A i \in 1..Len(rs) : BytesOf(S[i]) = BytesOf(rs[i]) /\ \A x : In(S[i], x) <=> In(rs[i], x)
  BY <1>1 DEF BytesOf, In
<1>4. Once(rs, f) => Once(S, f)
  BY <1>1, <1>3 DEF Once
<1>5. BytesIn(S) = BytesIn(rs)
  BY <1>2, <1>3 DEF BytesIn
<1> QED  BY <1>4, <1>5 DEF S

\* The answer to one interest is there once, and so is what is left of holes.
LEMMA AnswerOnce ==
  ASSUME NEW held, NEW lo \in Nat, NEW hi \in Int, NEW rs, RangesOK(rs, lo, hi), NEW f, Once(rs, f)
  PROVE  /\ Once(SentFor(held, rs), f) /\ Once(RestFor(held, rs), f)
         /\ BytesIn(RestFor(held, rs)) \subseteq BytesIn(rs)
<1> DEFINE n == Len(rs)
           p == [i \in 1..n |-> Answer(held, rs[i]).sent]
           q == [i \in 1..n |-> Answer(held, rs[i]).rest]
<1>0. /\ n \in Nat /\ DOMAIN rs = 1..n
      /\ \A i \in 1..n : rs[i].start \in Nat /\ rs[i].end \in Nat /\ rs[i].start < rs[i].end
  BY DEF RangesOK
<1>1. SentFor(held, rs) = FlattenSeq(p) /\ RestFor(held, rs) = FlattenSeq(q)
  BY <1>0 DEF SentFor, RestFor
<1>2. ASSUME NEW i \in 1..n
      PROVE  /\ p[i] \in Seq(Rng) /\ Once(p[i], f)
             /\ \A m \in 1..Len(p[i]) : \A x \in Nat : In(p[i][m], x) => In(rs[i], x)
             /\ q[i] \in Seq(Rng) /\ Once(q[i], f)
             /\ \A m \in 1..Len(q[i]) : \A x \in Nat : In(q[i][m], x) => In(rs[i], x)
  <2> DEFINE a == Answer(held, rs[i])
             b == rs[i].start
             c == rs[i].end
             e == SentEnd(held, b, c)
  <2>1. AnswerOf(a, held, rs[i])
    BY <1>0, AnswerAll
  <2>2. p[i] = a.sent /\ q[i] = a.rest
    OBVIOUS
  <2>3. /\ a.sent = Pieces(b, e)
        /\ a.rest = IF e < c THEN <<ByteRange(e, c)>> ELSE <<>>
    BY DEF Answer
  <2>4. b \in Nat /\ e \in Nat /\ b <= e
    <3>1. b \in Nat /\ c \in Nat /\ b < c
      BY <1>0
    <3> HIDE DEF b, c, e
    <3>2. SentEnd(held, b, c) \in b..c
      BY <3>1, SentEndIs
    <3> QED  BY <3>1, <3>2 DEF e
  <2> HIDE DEF a, b, c, e, p, q
  <2>5. a.sent \in Seq(Rng) /\ a.rest \in Seq(Rng)
    BY <2>1 DEF AnswerOf
  <2>6. Sorted(a.sent)
    BY <2>3, <2>4, PiecesSorted
  <2>7. Sorted(a.rest)
    <3>1. Len(a.rest) <= 1 /\ Len(a.rest) \in Nat
      BY <2>3
    <3> QED  BY <3>1 DEF Sorted
  <2>8. Once(a.sent, f) /\ Once(a.rest, f)
    BY <2>5, <2>6, <2>7, RngSpans, SortedOnce
  <2>9. ASSUME NEW m \in 1..Len(a.sent), NEW x \in Nat, In(a.sent[m], x)  PROVE In(rs[i], x)
    <3>1. a.sent[m].start \in Nat /\ a.sent[m].end \in Nat
      BY <2>5, RngFields
    <3>2. rs[i].start <= a.sent[m].start /\ a.sent[m].end <= rs[i].end
      BY <2>1 DEF AnswerOf
    <3> QED  BY <1>0, <2>9, <3>1, <3>2 DEF In
  <2>10. ASSUME NEW m \in 1..Len(a.rest), NEW x \in Nat, In(a.rest[m], x)  PROVE In(rs[i], x)
    <3>1. a.rest[m].start \in Nat /\ a.rest[m].end \in Nat
      BY <2>5, RngFields
    <3>2. rs[i].start <= a.rest[m].start /\ a.rest[m].end = rs[i].end
      BY <2>1 DEF AnswerOf
    <3> QED  BY <1>0, <2>10, <3>1, <3>2 DEF In
  <2> QED  BY <2>2, <2>5, <2>8, <2>9, <2>10
<1>3. p \in Seq(Seq(Rng)) /\ Len(p) = n /\ q \in Seq(Seq(Rng)) /\ Len(q) = n
  <2> DEFINE Z == Seq(Rng)
  <2>1. p = [i \in 1..n |-> p[i]] /\ q = [i \in 1..n |-> q[i]]
    OBVIOUS
  <2>3. \A i \in 1..n : p[i] \in Z /\ q[i] \in Z
    BY <1>2
  <2> HIDE DEF p, q, Z, n
  <2>2. p \in [1..n -> Z] /\ q \in [1..n -> Z]
    BY <2>1, <2>3
  <2>4. p \in Seq(Z) /\ Len(p) = n /\ q \in Seq(Z) /\ Len(q) = n
    BY <1>0, <2>2
  <2> QED  BY <2>4 DEF Z
<1> HIDE DEF p, q
<1>4. Once(FlattenSeq(p), f)
  BY <1>2, <1>3, RngSpans, FlattenOnce
<1>5. Once(FlattenSeq(q), f)
  BY <1>2, <1>3, RngSpans, FlattenOnce
<1>6. /\ FlattenSeq(q) \in Seq(Rng)
      /\ \A j \in 1..Len(FlattenSeq(q)) : \E i \in 1..n : \E m \in 1..Len(q[i]) : FlattenSeq(q)[j] = q[i][m]
  <2>1. FlattenSeq(q) \in Seq(Rng) /\ InPlace(FlattenSeq(q), q, n)
    BY <1>3, FlattenPlaces
  <2> QED  BY <2>1 DEF InPlace
<1>7. BytesIn(FlattenSeq(q)) \subseteq BytesIn(rs)
  <2>1. \A x : x \in BytesIn(FlattenSeq(q)) <=> x \in Nat /\ Covered(FlattenSeq(q), x)
    BY <1>6, RngBytes
  <2>2. \A x : x \in BytesIn(rs) <=> x \in Nat /\ Covered(rs, x)
    BY <1>0, BytesInIs
  <2>3. ASSUME NEW x \in Nat, Covered(FlattenSeq(q), x)  PROVE Covered(rs, x)
    <3>1. PICK j \in 1..Len(FlattenSeq(q)) : In(FlattenSeq(q)[j], x)
      BY <2>3 DEF Covered
    <3>2. PICK i \in 1..n : \E m \in 1..Len(q[i]) : FlattenSeq(q)[j] = q[i][m]
      BY <1>6
    <3>3. In(rs[i], x)
      BY <1>2, <3>1, <3>2
    <3> QED  BY <3>3 DEF Covered
  <2> QED  BY <2>1, <2>2, <2>3
<1> QED  BY <1>1, <1>4, <1>5, <1>7

\* A cache answers nothing of ranges it holds no byte of.
LEMMA NothingSent ==
  ASSUME NEW held, NEW lo \in Nat, NEW hi \in Int, NEW rs, RangesOK(rs, lo, hi),
         held \cap BytesIn(rs) = {}
  PROVE  SentFor(held, rs) = <<>>
<1> DEFINE F == SentFor(held, rs)
<1>1. /\ F \in Seq(RngIn(lo, hi))
      /\ \A j \in 1..Len(F) : \E i \in 1..Len(rs) : PieceOf(F[j], held, rs[i])
  BY SentForIs
<1> HIDE DEF F
<1>2. F \in Seq(Rng)
  BY <1>1, RngInOK
<1>3. ASSUME NEW j \in 1..Len(F)  PROVE FALSE
  <2>1. PICK i \in 1..Len(rs) : PieceOf(F[j], held, rs[i])
    BY <1>1
  <2>2. F[j].start \in Nat /\ F[j].end \in Nat /\ F[j].start < F[j].end
    BY <1>2, RngFields
  <2>3. rs[i].start \in Nat /\ rs[i].end \in Nat /\ i \in DOMAIN rs
    BY DEF RangesOK
  <2> DEFINE x == F[j].start
  <2>4. x \in BytesOf(F[j]) /\ x \in BytesOf(rs[i])
    BY <2>1, <2>2, <2>3 DEF PieceOf, BytesOf
  <2>5. x \in held /\ x \in BytesIn(rs)
    BY <2>1, <2>3, <2>4 DEF PieceOf, BytesIn
  <2> QED  BY <2>5
<1> QED  BY <1>2, <1>3 DEF F

-----------------------------------------------------------------------------
(***************************************************************************)
(* Links and queues; what a session has seen.                              *)
(***************************************************************************)
\* What a link and the queue behind it hold together.
LEMMA QueueCuts ==
  ASSUME NEW X, NEW a \in Seq(X), NEW q \in Seq(X), NEW k \in 0..Len(q)
  PROVE  (a \o SubSeq(q, 1, k)) \o SubSeq(q, k + 1, Len(q)) = a \o q
<1>1. SubSeq(q, 1, k) \in Seq(X) /\ SubSeq(q, k + 1, Len(q)) \in Seq(X)
  BY CutQueue
<1>2. SubSeq(q, 1, k) \o SubSeq(q, k + 1, Len(q)) = q
  <2>1. 1 \in 1..(Len(q) + 1) /\ k \in (1 - 1)..Len(q) /\ Len(q) \in k..Len(q)
    OBVIOUS
  <2>2. SubSeq(q, 1, k) \o SubSeq(q, k + 1, Len(q)) = SubSeq(q, 1, Len(q))
    BY <2>1, ConcatAdjacentSubSeq, Zenon
  <2>3. SubSeq(q, 1, Len(q)) = q
    BY SubSeqFull, Zenon
  <2> QED  BY <2>2, <2>3
<1> DEFINE front == SubSeq(q, 1, k)
           back == SubSeq(q, k + 1, Len(q))
<1>3. front \in Seq(X) /\ back \in Seq(X)
  BY <1>1
<1>5. front \o back = q
  BY <1>2
<1> HIDE DEF front, back
<1>4. (a \o front) \o back = a \o (front \o back)
  BY <1>3, ConcatAssociative
<1> QED  BY <1>5, <1>4 DEF front, back

LEMMA QueueMoves ==
  ASSUME NEW X, NEW a \in Seq(X), NEW q \in Seq(X)
  PROVE  /\ a \o q \in Seq(X)
         /\ a # <<>> => /\ a \o q # <<>> /\ Head(a \o q) = Head(a)
                        /\ Tail(a \o q) = Tail(a) \o q
         /\ \A g \in X : a \o Append(q, g) = Append(a \o q, g)
         /\ \A p \in Seq(X) : a \o (q \o p) = (a \o q) \o p
<1>1. a \o q \in Seq(X)
  OBVIOUS
<1>2. ASSUME a # <<>>
      PROVE  /\ a \o q # <<>> /\ Head(a \o q) = Head(a)
             /\ Tail(a \o q) = Tail(a) \o q
  <2>1. a \o q # <<>> /\ Head(a \o q) = Head(a)
    BY <1>2
  <2>2. Tail(a \o q) = Tail(a) \o q
    BY <1>2
  <2> QED  BY <2>1, <2>2
<1>3. \A g \in X : a \o Append(q, g) = Append(a \o q, g)
  OBVIOUS
<1>4. \A p \in Seq(X) : a \o (q \o p) = (a \o q) \o p
  BY ConcatAssociative
<1> QED  BY <1>1, <1>2, <1>3, <1>4

LEMMA ThinParts ==
  ASSUME NEW X, NEW a \in Seq(X)
  PROVE  /\ Thins(a, a)
         /\ \A p \in Nat : p <= Len(a) =>
              \A q \in Seq(X) : Thins(SubSeq(a, p + 1, Len(a)) \o q, a \o q)
         /\ \A p \in Nat : p <= Len(a) => Thins(SubSeq(a, p + 1, Len(a)), a)
         /\ a # <<>> => Thins(Tail(a), a)
<1>1. Len(a) \in Nat
  OBVIOUS
<1>2. Thins(a, a)
  <2>1. \A i \in 1..Len(a) : 0 + i \in 1..Len(a) /\ a[i] = a[0 + i]
    OBVIOUS
  <2> QED  BY <2>1 DEF Thins
<1>3. ASSUME NEW p \in Nat, p <= Len(a)
      PROVE  /\ Thins(SubSeq(a, p + 1, Len(a)), a)
             /\ \A q \in Seq(X) : Thins(SubSeq(a, p + 1, Len(a)) \o q, a \o q)
  <2> DEFINE back == SubSeq(a, p + 1, Len(a))
  <2>1. back \in Seq(X) /\ Len(back) = Len(a) - p
    BY <1>3
  <2>2. \A i \in 1..Len(back) : p + i \in 1..Len(a) /\ back[i] = a[p + i]
    BY <1>3
  <2>b. back \in Seq(X)
    BY <2>1
  <2> HIDE DEF back
  <2>3. Thins(back, a)
    BY <2>2 DEF Thins
  <2>4. ASSUME NEW q \in Seq(X)  PROVE Thins(back \o q, a \o q)
    <3> DEFINE less == back \o q
               all == a \o q
    <3>c. less = back \o q
      OBVIOUS
    <3>d. all = a \o q
      OBVIOUS
    <3> HIDE DEF less, all
    <3>1. /\ less \in Seq(X) /\ Len(less) = Len(back) + Len(q) /\ Len(q) \in Nat /\ Len(back) \in Nat
          /\ \A i \in 1..Len(less) : \/ i \in 1..Len(back) /\ less[i] = back[i]
                                     \/ i - Len(back) \in 1..Len(q) /\ less[i] = q[i - Len(back)]
      BY <2>b, <3>c, CatElems
    <3>2. /\ all \in Seq(X) /\ Len(all) = Len(a) + Len(q)
          /\ \A i \in 1..Len(a) : all[i] = a[i]
          /\ \A i \in 1..Len(all) : \/ i \in 1..Len(a) /\ all[i] = a[i]
                                    \/ i - Len(a) \in 1..Len(q) /\ all[i] = q[i - Len(a)]
      BY <3>d, CatElems
    <3>3. ASSUME NEW i \in 1..Len(less)  PROVE p + i \in 1..Len(all) /\ less[i] = all[p + i]
      <4>1. CASE i \in 1..Len(back) /\ less[i] = back[i]
        <5>1. p + i \in 1..Len(a) /\ back[i] = a[p + i]
          BY <2>2, <4>1
        <5> QED  BY <1>1, <3>1, <3>2, <4>1, <5>1
      <4>2. CASE i - Len(back) \in 1..Len(q) /\ less[i] = q[i - Len(back)]
        <5>1. /\ p + i \in 1..Len(all) /\ p + i \notin 1..Len(a)
              /\ (p + i) - Len(a) = i - Len(back)
          BY <1>1, <2>1, <3>1, <3>2, <4>2
        <5> QED  BY <3>2, <4>2, <5>1
      <4> QED  BY <3>1, <4>1, <4>2
    <3> QED  BY <3>3 DEF Thins, less, all
  <2> QED  BY <2>3, <2>4 DEF back
<1>4. ASSUME a # <<>>  PROVE Thins(Tail(a), a)
  <2>1. \A i \in 1..Len(Tail(a)) : 1 + i \in 1..Len(a) /\ Tail(a)[i] = a[1 + i]
    BY <1>4
  <2> QED  BY <2>1 DEF Thins
<1> QED  BY <1>2, <1>3, <1>4

-----------------------------------------------------------------------------
\* A session that met no range across its next takes no byte it has for a hole.
SeenOK(s) ==
  \/ s.straddled
  \/ /\ \A x \in s.seen : x < s.next
     /\ \A m \in MissOf(s.holes) : m[1] \notin s.seen

LEMMA SeenMoves ==
  ASSUME NEW lo \in Nat, NEW hi \in Nat, NEW hj \in Nat, NEW s, SessOK(s, lo, hi),
         NEW t, Moves(s, t, lo, hj), SeenOK(s)
  PROVE  SeenOK(t) /\ s.seen \subseteq t.seen
<1>1. /\ s.next \in Nat /\ s.seen \in SUBSET Nat /\ HolesOK(s.holes, lo, s.next - 1)
      /\ s.straddled \in BOOLEAN
  BY DEF SessOK, Sess
<1>2. \A m \in MissOf(s.holes) : m[1] \in Nat /\ m[1] < s.next
  <2>1. /\ s.holes \in Seq(Hole)
        /\ \A i \in 1..Len(s.holes) : s.holes[i].end <= s.next - 1
    BY <1>1 DEF HolesOK
  <2>2. \A i \in 1..Len(s.holes) : s.holes[i].end \in Nat
    BY <2>1, HoleFields
  <2> SUFFICES ASSUME NEW m \in MissOf(s.holes)  PROVE m[1] \in Nat /\ m[1] < s.next
    OBVIOUS
  <2>3. PICK i \in 1..Len(s.holes), x \in Nat : In(s.holes[i], x) /\ m = <<x, s.holes[i].age>>
    BY <2>1, MissIs
  <2>4. m[1] = x
    BY <2>3
  <2> QED  BY <1>1, <2>1, <2>2, <2>3, <2>4 DEF In
<1>3. CASE Keeps(s, t)
  BY <1>3 DEF Keeps, SeenOK
<1>4. CASE \E g \in SegIn(lo, hj) : Arrives(s, t, g)
  <2>1. PICK g \in SegIn(lo, hj) : Arrives(s, t, g)
    BY <1>4
  <2>2. g.start \in Nat /\ g.end \in Nat /\ g.start < g.end
    BY SegFields
  <2>3. t.seen = s.seen \cup (g.start..(g.end - 1))
    BY <2>1 DEF Arrives
  <2>4. CASE t.straddled
    BY <2>3, <2>4 DEF SeenOK
  <2>5. CASE ~t.straddled
    <3>1. ~s.straddled
      BY <2>1, <2>5 DEF Arrives
    <3>2. /\ \A x \in s.seen : x < s.next
          /\ \A m \in MissOf(s.holes) : m[1] \notin s.seen
      BY <3>1 DEF SeenOK
    <3>3. CASE g.start >= s.next /\ t.next = g.end /\ MissOf(t.holes) = MissOf(s.holes)
      BY <1>1, <1>2, <2>2, <2>3, <3>2, <3>3 DEF SeenOK
    <3>4. CASE /\ g.start < s.next /\ t.next = s.next /\ g.end <= s.next
               /\ MissOf(t.holes) = {m \in MissOf(s.holes) : m[1] \notin g.start..(g.end - 1)}
      BY <1>1, <1>2, <2>2, <2>3, <3>2, <3>4 DEF SeenOK
    <3>5. CASE /\ g.start > s.next /\ t.next = g.end
               /\ MissOf(t.holes) = MissOf(s.holes) \cup ((s.next..(g.start - 1)) \X {0})
      <4>1. \A x \in t.seen : x < t.next
        BY <1>1, <2>2, <2>3, <3>2, <3>5
      <4>2. ASSUME NEW m \in MissOf(t.holes)  PROVE m[1] \notin t.seen
        <5>1. CASE m \in MissOf(s.holes)
          BY <1>1, <1>2, <2>2, <2>3, <3>2, <3>5, <5>1
        <5>2. CASE m \in (s.next..(g.start - 1)) \X {0}
          <6>1. m[1] \in s.next..(g.start - 1)
            BY <5>2
          <6> QED  BY <1>1, <2>2, <2>3, <3>2, <6>1
        <5> QED  BY <3>5, <5>1, <5>2
      <4>3. \A m \in MissOf(t.holes) : m[1] \notin t.seen
        BY <4>2
      <4> QED  BY <2>3, <4>1, <4>3 DEF SeenOK
    <3>6. \/ g.start >= s.next /\ t.next = g.end /\ MissOf(t.holes) = MissOf(s.holes)
          \/ /\ g.start < s.next /\ t.next = s.next /\ g.end <= s.next
             /\ MissOf(t.holes) = {m \in MissOf(s.holes) : m[1] \notin g.start..(g.end - 1)}
          \/ /\ g.start > s.next /\ t.next = g.end
             /\ MissOf(t.holes) = MissOf(s.holes) \cup ((s.next..(g.start - 1)) \X {0})
      <4>1. CASE g.start < s.next
        <5>0. t.straddled = (s.straddled \/ g.end > s.next)
          BY <1>1, <2>1, <2>2, <4>1 DEF Arrives
        <5>1. ~(g.end > s.next)
          BY <2>5, <5>0
        <5> QED  BY <1>1, <2>1, <2>2, <4>1, <5>1 DEF Arrives
      <4>2. CASE ~(g.start < s.next)
        BY <1>1, <2>1, <2>2, <4>2 DEF Arrives
      <4> QED  BY <4>1, <4>2
    <3> QED  BY <3>3, <3>4, <3>5, <3>6
  <2> QED  BY <2>3, <2>4, <2>5
<1>5. CASE \E F \in SUBSET (lo..(hj - 1)) : Flushes(s, t, F)
  <2>1. PICK F : Flushes(s, t, F)
    BY <1>5
  <2>2. /\ MissOf(t.holes) \subseteq MissOf(s.holes)
        /\ t.next = s.next /\ t.seen = s.seen /\ t.straddled = s.straddled
    BY <2>1 DEF Flushes
  <2> QED  BY <2>2 DEF SeenOK
<1>6. CASE Ages(s, t)
  <2>1. /\ MissOf(t.holes) = {<<m[1], m[2] + 1>> : m \in MissOf(s.holes)}
        /\ t.next = s.next /\ t.seen = s.seen /\ t.straddled = s.straddled
    BY <1>6 DEF Ages
  <2>2. \A m \in MissOf(t.holes) : \E k \in MissOf(s.holes) : m[1] = k[1]
    BY <2>1
  <2> QED  BY <2>1, <2>2 DEF SeenOK
<1> QED  BY <1>3, <1>4, <1>5, <1>6 DEF Moves

-----------------------------------------------------------------------------
(***************************************************************************)
(* What node n expects next is the front of all that is under way behind   *)
(* it: data up to there, interests strictly below.                         *)
(***************************************************************************)
Below(s, lo, m, e) ==
  /\ s.next <= e /\ s.intQueue \in Seq(RngIn(lo, e - 1))
  /\ m # K => s.sndQueue \in Seq(SegIn(lo, e))

BehindBy(lo, n, e) ==
  /\ \A m \in n..K : Below(tcb[m], lo, m, e) /\ net[<<"int", m>>] \in Seq(SegIn(lo, e - 1))
  /\ \A m \in n..(K - 1) : net[<<"data", m + 1>>] \in Seq(SegIn(lo, e))

BehindAt(lo, n) == tcb[n].straddled \/ \E e \in Nat : e = tcb[n].next /\ BehindBy(lo, n, e)

LEMMA Wider ==
  ASSUME NEW lo \in Nat, NEW hi \in Int, NEW hj \in Int, hi <= hj
  PROVE  Seq(SegIn(lo, hi)) \subseteq Seq(SegIn(lo, hj)) /\ Seq(RngIn(lo, hi)) \subseteq Seq(RngIn(lo, hj))
<1>1. SegIn(lo, hi) \subseteq SegIn(lo, hj)
  BY DEF SegIn
<1>2. RngIn(lo, hi) \subseteq RngIn(lo, hj)
  BY DEF RngIn, Rng
<1> DEFINE S == SegIn(lo, hi)
           T == SegIn(lo, hj)
           Q == RngIn(lo, hi)
           R == RngIn(lo, hj)
<1>3. S \subseteq T /\ Q \subseteq R
  BY <1>1, <1>2
<1> HIDE DEF S, T, Q, R
<1>4. Seq(S) \subseteq Seq(T) /\ Seq(Q) \subseteq Seq(R)
  BY <1>3
<1> QED  BY <1>4 DEF S, T, Q, R

LEMMA BelowMore ==
  ASSUME NEW lo \in Nat, NEW hi \in Nat, NEW m, NEW e \in Nat, NEW f \in Nat, e <= f,
         NEW s, SessOK(s, lo, hi), Below(s, lo, m, e)
  PROVE  Below(s, lo, m, f)
<1>1. s.next \in Nat
  BY DEF SessOK, Sess
<1>2. e - 1 \in Int /\ f - 1 \in Int /\ e - 1 <= f - 1 /\ e \in Int /\ f \in Int
  OBVIOUS
<1>3. Seq(RngIn(lo, e - 1)) \subseteq Seq(RngIn(lo, f - 1)) /\ Seq(SegIn(lo, e)) \subseteq Seq(SegIn(lo, f))
  BY <1>2, Wider
<1> QED  BY <1>1, <1>3 DEF Below

LEMMA BehindMore ==
  ASSUME NEW lo \in Nat, PathInvAt(lo), NEW n \in 1..K, NEW e \in Nat, NEW f \in Nat, e <= f,
         BehindBy(lo, n, e)
  PROVE  BehindBy(lo, n, f)
<1>1. e - 1 \in Int /\ f - 1 \in Int /\ e - 1 <= f - 1 /\ e \in Int /\ f \in Int
  OBVIOUS
<1>2. Seq(SegIn(lo, e - 1)) \subseteq Seq(SegIn(lo, f - 1)) /\ Seq(SegIn(lo, e)) \subseteq Seq(SegIn(lo, f))
  BY <1>1, Wider
<1>3. \A m \in n..K : SessOK(tcb[m], lo, packetId) /\ packetId \in Nat
  BY HopChainAssumption DEF PathInvAt, Nodes
<1>4. \A m \in n..K : Below(tcb[m], lo, m, f)
  BY <1>3, BelowMore DEF BehindBy
<1> QED  BY <1>2, <1>4 DEF BehindBy

\* A step that changes one session, and links.
LEMMA BehindOne ==
  ASSUME NEW lo \in Nat, NEW n \in 1..K, NEW e \in Nat, BehindBy(lo, n, e), PathInvAt(lo),
         NEW p \in Nodes, NEW t, tcb' = [tcb EXCEPT ![p] = t],
         n <= p => Below(t, lo, p, e),
         \A m \in n..K : net'[<<"int", m>>] \in Seq(SegIn(lo, e - 1)),
         \A m \in n..(K - 1) : net'[<<"data", m + 1>>] \in Seq(SegIn(lo, e))
  PROVE  BehindBy(lo, n, e)'
<1>1. tcb \in [Nodes -> Sess(lo, packetId)]
  BY DEF PathInvAt
<1>2. \A m \in n..K : m \in Nodes /\ n <= m
  BY HopChainAssumption DEF Nodes
<1>3. \A m \in n..K : tcb'[m] = IF m = p THEN t ELSE tcb[m]
  BY <1>1, <1>2
<1>4. \A m \in n..K : Below(tcb[m], lo, m, e)
  BY DEF BehindBy
<1>5. \A m \in n..K : Below(tcb'[m], lo, m, e)
  BY <1>2, <1>3, <1>4
<1> QED  BY <1>5 DEF BehindBy

\* What is left of a step when a link of the stretch gets a new queue.
LEMMA OneLink ==
  ASSUME NEW X, NEW l \in Links, NEW q, net \in [Links -> Seq(X)], net' = [net EXCEPT ![l] = q]
  PROVE  \A k \in Links : net'[k] = IF k = l THEN q ELSE net[k]
OBVIOUS

\* A session with ranges below e answers from its cache and queues the rest.
LEMMA BelowServed ==
  ASSUME NEW lo \in Nat, NEW m, m # 0, NEW e \in Nat, NEW s, Below(s, lo, m, e),
         NEW rs, RangesOK(rs, lo, e - 1), NEW t, Served(m, s, rs, t)
  PROVE  Below(t, lo, m, e)
<1> DEFINE X == SegIn(lo, e)
           Y == RngIn(lo, e - 1)
           F == SentFor(cache[m], rs)
           R == RestFor(cache[m], rs)
           G == Segs("data", F)
<1>1. e - 1 \in Int /\ e \in Int /\ e - 1 <= e
  OBVIOUS
<1>2. F \in Seq(Y) /\ R \in Seq(Y)
  BY <1>1, SentForIs, RestForIs
<1> HIDE DEF F, R
<1>3. G \in Seq(SegIn(lo, e - 1))
  <2>1. RangesOK(F, lo, e - 1)
    BY <1>1, <1>2, RngInOK
  <2> QED  BY <1>1, <2>1, SegsIs DEF Kinds
<1>4. G \in Seq(X)
  BY <1>1, <1>3, Wider
<1> HIDE DEF G
<1>5. s.next <= e /\ s.intQueue \in Seq(Y) /\ (m # K => s.sndQueue \in Seq(X))
  BY DEF Below
<1> HIDE DEF X, Y
<1>6. s.intQueue \o R \in Seq(Y) /\ (m # K => s.sndQueue \o G \in Seq(X))
  BY <1>2, <1>4, <1>5
<1>7. t.next = s.next /\ t.intQueue = s.intQueue \o R /\ t.sndQueue = s.sndQueue \o G
  BY DEF Served, F, R, G
<1> QED  BY <1>5, <1>6, <1>7 DEF Below, X, Y

\* A session takes a segment that ends at e or before.
LEMMA BelowTaken ==
  ASSUME NEW lo \in Nat, NEW hi \in Nat, NEW m \in Nodes, NEW e \in Nat,
         NEW s, SessOK(s, lo, hi), Below(s, lo, m, e),
         NEW g \in SegIn(lo, e), NEW t, Taken(m, s, g, t, lo)
  PROVE  Below(t, lo, m, e)
<1> DEFINE X == SegIn(lo, e)
           h == Seg("header", ByteRange(s.next, g.start))
<1>1. s.next \in Nat /\ s.next <= e /\ (s.next = 0 \/ lo <= s.next)
  BY DEF SessOK, Sess, Below
<1>2. g.start \in Nat /\ g.end \in Nat /\ g.start < g.end /\ g.end <= e
  BY SegFields
<1>3. t.intQueue = s.intQueue /\ t.intQueue \in Seq(RngIn(lo, e - 1))
  BY DEF Taken, Below
<1>4. t.next <= e
  BY <1>1, <1>2 DEF Taken, Arrives
<1>5. ASSUME m # K  PROVE t.sndQueue \in Seq(X)
  <2>1. s.sndQueue \in Seq(X) /\ g \in X
    BY <1>5 DEF Below
  <2>2. t.sndQueue = Append(Announced(m, s, g), g)
    BY <1>5 DEF Taken
  <2>3. g.start > s.next /\ s.next # 0 => h \in X
    BY <1>1, <1>2 DEF Seg, ByteRange, SegIn, Kinds
  <2>4. Announced(m, s, g) = s.sndQueue \/
        (g.start > s.next /\ s.next # 0 /\ Announced(m, s, g) = Append(s.sndQueue, h))
    BY DEF Announced
  <2> HIDE DEF X, h
  <2>5. Announced(m, s, g) \in Seq(X)
    <3>1. CASE Announced(m, s, g) = s.sndQueue
      BY <2>1, <3>1
    <3>2. CASE g.start > s.next /\ s.next # 0 /\ Announced(m, s, g) = Append(s.sndQueue, h)
      <4>1. h \in X /\ s.sndQueue \in Seq(X)
        BY <2>1, <2>3, <3>2
      <4>2. Append(s.sndQueue, h) \in Seq(X)
        BY <4>1
      <4> QED  BY <3>2, <4>2
    <3> QED  BY <2>4, <3>1, <3>2
  <2> QED  BY <2>1, <2>2, <2>5
<1> QED  BY <1>3, <1>4, <1>5 DEF Below

LEMMA BehindReceive ==
  ASSUME NEW lo \in Nat, PathInvAt(lo), NEW n \in 1..K, NEW e \in Nat, BehindBy(lo, n, e),
         NEW p \in Nodes, p # 0, NEW g, NEW t, Received(p, lo, g, t),
         p = n => g \in SegIn(lo, e)
  PROVE  BehindBy(lo, n, e)'
<1> DEFINE l == <<"data", p>>
           q == net[l]
           X == SegIn(lo, packetId)
<1>1. /\ q # <<>> /\ g = Head(q) /\ net' = [net EXCEPT ![l] = Tail(q)]
      /\ tcb' = [tcb EXCEPT ![p] = t] /\ Taken(p, tcb[p], g, t, lo)
  BY DEF Received
<1>2. /\ p \in 1..K /\ l \in Links /\ n \in Nat /\ p \in Nat /\ K \in Nat
      /\ \A m \in n..K : <<"int", m>> \in Links
      /\ \A m \in n..(K - 1) : <<"data", m + 1>> \in Links
  BY NodesAre, HopChainAssumption DEF Nodes, Links
<1>3. net \in [Links -> Seq(X)] /\ SessOK(tcb[p], lo, packetId) /\ packetId \in Nat
  BY DEF PathInvAt
<1>4. \A k \in Links : net'[k] = IF k = l THEN Tail(q) ELSE net[k]
  <2> HIDE DEF l, X
  <2> QED  BY <1>1, <1>2, <1>3
<1>5. ASSUME NEW m \in n..(K - 1)  PROVE net'[<<"data", m + 1>>] \in Seq(SegIn(lo, e))
  <2> DEFINE Z == SegIn(lo, e)
  <2>1. net[<<"data", m + 1>>] \in Seq(Z)
    BY DEF BehindBy
  <2> HIDE DEF Z
  <2>2. CASE <<"data", m + 1>> = l
    <3>1. q \in Seq(Z) /\ q # <<>>
      BY <1>1, <2>1, <2>2
    <3>2. Tail(q) \in Seq(Z)
      <4> HIDE DEF q
      <4> QED  BY <3>1, HeadTail
    <3> QED  BY <1>2, <1>4, <2>2, <3>2 DEF Z
  <2>3. CASE <<"data", m + 1>> # l
    <3>1. net'[<<"data", m + 1>>] = net[<<"data", m + 1>>]
      BY <1>2, <1>4, <2>3
    <3> QED  BY <2>1, <3>1 DEF Z
  <2> QED  BY <2>2, <2>3
<1>6. ASSUME NEW m \in n..K  PROVE net'[<<"int", m>>] \in Seq(SegIn(lo, e - 1))
  <2>1. <<"int", m>> # l
    OBVIOUS
  <2>2. net'[<<"int", m>>] = net[<<"int", m>>]
    BY <1>2, <1>4, <2>1
  <2> QED  BY <2>2 DEF BehindBy
<1>7. ASSUME n <= p  PROVE Below(t, lo, p, e)
  <2>1. g \in SegIn(lo, e)
    <3>1. CASE p = n
      BY <3>1
    <3>2. CASE p # n
      <4>1. p - 1 \in n..(K - 1) /\ (p - 1) + 1 = p
        BY <1>2, <1>7, <3>2
      <4> DEFINE Z == SegIn(lo, e)
      <4>2. net[<<"data", (p - 1) + 1>>] \in Seq(Z)
        BY <4>1 DEF BehindBy
      <4>3. q \in Seq(Z)
        BY <4>1, <4>2
      <4> HIDE DEF Z, q
      <4>4. g \in Z
        BY <1>1, <4>3, HeadTail
      <4> QED  BY <4>4 DEF Z
    <3> QED  BY <3>1, <3>2
  <2>2. p \in n..K
    BY <1>2, <1>7
  <2>3. Below(tcb[p], lo, p, e)
    BY <2>2 DEF BehindBy
  <2> QED  BY <1>1, <1>3, <2>1, <2>3, BelowTaken
<1> QED  BY <1>1, <1>5, <1>6, <1>7, BehindOne

LEMMA BehindAsk ==
  ASSUME NEW lo \in Nat, PathInvAt(lo), NEW n \in 1..K, NEW e \in Nat, BehindBy(lo, n, e),
         NEW p \in Nodes, p # K, NEW g, NEW t, Asks(p, lo, g, t)
  PROVE  BehindBy(lo, n, e)'
<1> DEFINE l == <<"int", p + 1>>
           q == net[l]
           X == SegIn(lo, packetId)
           Z == SegIn(lo, e - 1)
<1>1. /\ q # <<>> /\ g = Head(q) /\ net' = [net EXCEPT ![l] = Tail(q)]
      /\ tcb' = [tcb EXCEPT ![p] = t] /\ Served(p, tcb[p], <<g>>, t)
  BY DEF Asks
<1>2. /\ p \in Nat /\ p + 1 \in 1..K /\ l \in Links /\ n \in Nat /\ K \in Nat /\ n # 0
      /\ \A m \in n..K : <<"int", m>> \in Links
      /\ \A m \in n..(K - 1) : <<"data", m + 1>> \in Links
  BY NodesAre, HopChainAssumption DEF Nodes, Links
<1>3. net \in [Links -> Seq(X)]
  BY DEF PathInvAt
<1>4. \A k \in Links : net'[k] = IF k = l THEN Tail(q) ELSE net[k]
  <2> HIDE DEF l, X
  <2> QED  BY <1>1, <1>2, <1>3
<1>5. ASSUME NEW m \in n..K  PROVE net'[<<"int", m>>] \in Seq(Z)
  <2>1. net[<<"int", m>>] \in Seq(Z)
    BY DEF BehindBy
  <2> HIDE DEF Z
  <2>2. CASE <<"int", m>> = l
    <3>1. q \in Seq(Z) /\ q # <<>>
      BY <1>1, <2>1, <2>2
    <3>2. Tail(q) \in Seq(Z)
      <4> HIDE DEF q
      <4> QED  BY <3>1, HeadTail
    <3> QED  BY <1>2, <1>4, <2>2, <3>2
  <2>3. CASE <<"int", m>> # l
    <3>1. net'[<<"int", m>>] = net[<<"int", m>>]
      BY <1>2, <1>4, <2>3
    <3> QED  BY <2>1, <3>1
  <2> QED  BY <2>2, <2>3
<1>6. ASSUME NEW m \in n..(K - 1)  PROVE net'[<<"data", m + 1>>] \in Seq(SegIn(lo, e))
  <2>1. <<"data", m + 1>> # l
    OBVIOUS
  <2>2. net'[<<"data", m + 1>>] = net[<<"data", m + 1>>]
    BY <1>2, <1>4, <2>1
  <2> QED  BY <2>2 DEF BehindBy
<1>7. ASSUME n <= p  PROVE Below(t, lo, p, e)
  <2>1. p \in n..K /\ p + 1 \in n..K /\ p # 0
    BY <1>2, <1>7
  <2>2. q \in Seq(Z) /\ Below(tcb[p], lo, p, e)
    BY <2>1 DEF BehindBy
  <2>3. g \in Z
    <3> HIDE DEF Z, q
    <3> QED  BY <1>1, <2>2, HeadTail
  <2>4. RangesOK(<<g>>, lo, e - 1)
    <3>1. e - 1 \in Int
      OBVIOUS
    <3> QED  BY <2>3, <3>1, OneRange
  <2> QED  BY <1>1, <2>1, <2>2, <2>4, BelowServed
<1> QED  BY <1>1, <1>5, <1>6, <1>7, BehindOne DEF Z

\* A flush of a session with ranges below e.
LEMMA BelowFlushed ==
  ASSUME NEW lo \in Nat, NEW hi \in Nat, NEW p \in Nodes, p # 0, NEW e \in Nat,
         SessOK(tcb[p], lo, hi), Below(tcb[p], lo, p, e),
         NEW u, u.next = tcb[p].next, Queued(p, tcb[p], u)
  PROVE  /\ Below(u, lo, p, e)
         /\ RangesOK(RipeHoles(OpenHoles(p), HoleWait), lo, e - 1)
         /\ ForwardedInts(p) \in Seq(RngIn(lo, e - 1))
         /\ OutputInts(p) \in Seq(SegIn(lo, e - 1))
<1> DEFINE s == tcb[p]
           w == HoleWait
           F == ForwardedInts(p)
           D == OpenHoles(p)
           R == RipeHoles(D, w)
           Y == RngIn(lo, e - 1)
<1>1. e - 1 \in Int /\ e \in Int /\ e - 1 <= e /\ w \in Nat
  BY HopChainAssumption
<1>2. s.next \in Nat /\ s.next <= e /\ HolesOK(s.holes, lo, s.next - 1) /\ s.intQueue \in Seq(Y)
  BY DEF SessOK, Sess, Below
<1>3. HolesOK(s.holes, lo, e - 1)
  <2>1. s.next - 1 \in Int /\ s.next - 1 <= e - 1
    BY <1>2
  <2> QED  BY <1>1, <1>2, <2>1, HolesLater
<1>4. F \in Seq(Y)
  BY <1>1, <1>2, FlushQueueIs DEF ForwardedInts
<1>5. OutputInts(p) \in Seq(SegIn(lo, e - 1))
  BY <1>1, <1>3, <1>4, OutputIntsIs
<1>6. HolesOK(D, lo, e - 1)
  <2> DEFINE H == s.holes
  <2>1. F \in Seq(Rng)
    BY <1>1, <1>4, RngInOK
  <2>2. HolesOK(H, lo, e - 1) /\ D = DeleteDataHoles(H, F)
    BY <1>3 DEF OpenHoles
  <2> HIDE DEF H, F, D
  <2> QED  BY <1>1, <2>1, <2>2, DeleteAllMiss
<1> HIDE DEF D, w
<1>7. HolesOK(R, lo, e - 1)
  BY <1>1, <1>6, RipeIs
<1> HIDE DEF R
<1>8. RangesOK(R, lo, e - 1)
  <2> DEFINE x == e - 1
  <2>1. x \in Int /\ x <= x /\ HolesOK(R, lo, x)
    BY <1>1, <1>7
  <2> HIDE DEF x
  <2>2. RangesOK(R, lo, x)
    BY <2>1, HolesRanges
  <2> QED  BY <2>2 DEF x
<1>9. /\ p # K => u.sndQueue = s.sndQueue \o Segs("data", SentFor(cache[p], R))
      /\ u.intQueue = (IF p = K THEN <<>> ELSE RestFor(cache[p], R))
  BY DEF Queued, R, D, w
<1>10. RestFor(cache[p], R) \in Seq(Y) /\ SentFor(cache[p], R) \in Seq(Y)
  BY <1>1, <1>8, SentForIs, RestForIs
<1>11. u.intQueue \in Seq(Y)
  <2>1. <<>> \in Seq(Y)
    <3> HIDE DEF Y
    <3> QED  OBVIOUS
  <2> QED  BY <1>9, <1>10, <2>1
<1>12. ASSUME p # K  PROVE u.sndQueue \in Seq(SegIn(lo, e))
  <2> DEFINE G == Segs("data", SentFor(cache[p], R))
             X == SegIn(lo, e)
  <2>1. G \in Seq(SegIn(lo, e - 1))
    <3> DEFINE P == SentFor(cache[p], R)
    <3>0. P \in Seq(Y)
      BY <1>10
    <3> HIDE DEF P
    <3>1. RangesOK(P, lo, e - 1)
      BY <1>1, <3>0, RngInOK
    <3>2. Segs("data", P) \in Seq(SegIn(lo, e - 1))
      BY <1>1, <3>1, SegsIs DEF Kinds
    <3> QED  BY <3>2 DEF P
  <2>2. G \in Seq(X)
    BY <1>1, <2>1, Wider
  <2>3. s.sndQueue \in Seq(X) /\ u.sndQueue = s.sndQueue \o G
    BY <1>9, <1>12 DEF Below
  <2> HIDE DEF G, X
  <2>4. s.sndQueue \o G \in Seq(X)
    BY <2>2, <2>3
  <2> QED  BY <2>3, <2>4 DEF X
<1>13. Below(u, lo, p, e)
  BY <1>2, <1>11, <1>12 DEF Below
<1> QED  BY <1>4, <1>5, <1>8, <1>13 DEF R, D, w

LEMMA BehindFlush ==
  ASSUME NEW lo \in Nat, PathInvAt(lo), NEW n \in 1..K, NEW e \in Nat, BehindBy(lo, n, e),
         NEW p \in Nodes, NEW u, NEW k, NEW t, Sends(p, lo, u, k, t)
  PROVE  BehindBy(lo, n, e)'
<1> DEFINE X == SegIn(lo, packetId)
           Y == SegIn(lo, e - 1)
           Z == SegIn(lo, e)
           gs == SubSeq(u.sndQueue, 1, k)
           is == OutputInts(p)
           q == u.sndQueue
           li == <<"int", p>>
           ld == <<"data", p + 1>>
           asked == IF p = 0 THEN net ELSE OutputTo(li, is, net)
<1>1. /\ tcb' = [tcb EXCEPT ![p] = t]
      /\ net' = IF p = K THEN asked ELSE OutputTo(ld, gs, asked)
      /\ SessOK(u, lo, packetId) /\ k \in 0..Len(q)
      /\ t.next = u.next /\ t.intQueue = u.intQueue /\ t.sndQueue = SubSeq(q, k + 1, Len(q))
  BY DEF Sends
<1>2. /\ p \in Nat /\ n \in Nat /\ K \in Nat /\ n # 0 /\ p <= K
      /\ \A m \in n..K : <<"int", m>> \in Links
      /\ \A m \in n..(K - 1) : <<"data", m + 1>> \in Links
      /\ p # 0 => li \in Links
      /\ p # K => ld \in Links
  BY NodesAre, HopChainAssumption DEF Nodes, Links
<1>3. net \in [Links -> Seq(X)] /\ packetId \in Nat /\ SessOK(tcb[p], lo, packetId)
  BY DEF PathInvAt
<1>4. /\ p # 0 => li # ld
      /\ \A m \in n..K : <<"int", m>> # ld /\ (<<"int", m>> = li => m = p)
      /\ \A m \in n..(K - 1) : <<"data", m + 1>> # li /\ (<<"data", m + 1>> = ld => m = p)
  BY <1>2
<1>5. ASSUME NEW m \in n..K
      PROVE  net'[<<"int", m>>] = IF m = p THEN net[li] \o is ELSE net[<<"int", m>>]
  <2> DEFINE c == <<"int", m>>
  <2>1. c \in Links /\ c # ld /\ (c = li <=> m = p) /\ (m = p => p # 0)
    BY <1>2, <1>4
  <2> HIDE DEF c, li, ld
  <2>2. asked[c] = IF m = p THEN net[li] \o is ELSE net[c]
    BY <1>2, <1>3, <2>1 DEF OutputTo
  <2>3. asked = [x \in Links |-> asked[x]]
    BY <1>3 DEF OutputTo
  <2>4. net'[c] = asked[c]
    <3> HIDE DEF asked
    <3> QED  BY <1>1, <1>2, <2>1, <2>3 DEF OutputTo
  <2> QED  BY <2>2, <2>4 DEF c
<1>6. ASSUME NEW m \in n..(K - 1)
      PROVE  net'[<<"data", m + 1>>] = IF m = p THEN net[ld] \o gs ELSE net[<<"data", m + 1>>]
  <2> DEFINE c == <<"data", m + 1>>
  <2>1. c \in Links /\ c # li /\ (c = ld <=> m = p) /\ (m = p => p # K)
    BY <1>2, <1>4
  <2> HIDE DEF c, li, ld
  <2>2. asked[c] = net[c]
    BY <1>2, <1>3, <2>1 DEF OutputTo
  <2>3. asked = [x \in Links |-> asked[x]]
    BY <1>3 DEF OutputTo
  <2>4. net'[c] = IF m = p THEN asked[ld] \o gs ELSE asked[c]
    <3> HIDE DEF asked, gs
    <3> QED  BY <1>1, <1>2, <2>1, <2>3 DEF OutputTo
  <2>5. m = p => asked[ld] = net[ld]
    BY <2>1, <2>2
  <2> QED  BY <2>2, <2>4, <2>5 DEF c
<1>7. ASSUME n <= p
      PROVE  Below(u, lo, p, e) /\ is \in Seq(Y)
  <2>1. p # 0 /\ p \in n..K
    BY <1>2, <1>7
  <2>2. Below(tcb[p], lo, p, e)
    BY <2>1 DEF BehindBy
  <2>3. Queued(p, tcb[p], u) /\ u.next = tcb[p].next
    BY <2>1 DEF Sends, Flushes
  <2> QED  BY <1>3, <2>1, <2>2, <2>3, BelowFlushed
<1>8. ASSUME n <= p, p # K  PROVE gs \in Seq(Z) /\ t.sndQueue \in Seq(Z)
  <2>1. q \in Seq(Z)
    BY <1>7, <1>8 DEF Below
  <2> HIDE DEF Z, q
  <2> QED  BY <1>1, <2>1, CutQueue DEF q
<1>9. n <= p => Below(t, lo, p, e)
  BY <1>1, <1>7, <1>8 DEF Below
<1> HIDE DEF gs, is
<1>10. ASSUME NEW m \in n..K  PROVE net'[<<"int", m>>] \in Seq(Y)
  <2>1. net[<<"int", m>>] \in Seq(Y)
    BY DEF BehindBy
  <2> HIDE DEF Y
  <2>2. ASSUME m = p  PROVE net[li] \o is \in Seq(Y)
    <3>1. net[li] \in Seq(Y) /\ is \in Seq(Y)
      BY <1>2, <1>7, <2>1, <2>2
    <3> QED  BY <3>1
  <2> QED  BY <1>5, <2>1, <2>2
<1>11. ASSUME NEW m \in n..(K - 1)  PROVE net'[<<"data", m + 1>>] \in Seq(Z)
  <2>1. net[<<"data", m + 1>>] \in Seq(Z)
    BY DEF BehindBy
  <2> HIDE DEF Z
  <2>2. ASSUME m = p  PROVE net[ld] \o gs \in Seq(Z)
    <3>1. net[ld] \in Seq(Z) /\ gs \in Seq(Z)
      BY <1>2, <1>8, <2>1, <2>2
    <3> QED  BY <3>1
  <2> QED  BY <1>6, <2>1, <2>2
<1> QED  BY <1>1, <1>9, <1>10, <1>11, BehindOne DEF Y, Z

\* A session's holes age, or its application takes a segment: nothing is sent.
Idles(n, t) ==
  /\ tcb' = [tcb EXCEPT ![n] = t]
  /\ packetId' = packetId /\ net' = net /\ faults' = faults
  /\ t.next = tcb[n].next /\ t.straddled = tcb[n].straddled
  /\ t.sndQueue = tcb[n].sndQueue /\ t.intQueue = tcb[n].intQueue
  /\ BytesIn(t.holes) = BytesIn(tcb[n].holes)

LEMMA AgeIdles ==
  ASSUME NEW lo \in Nat, PathInvAt(lo), NEW n \in Nodes, Age(n)
  PROVE  \E t : Idles(n, t) /\ t.rcvQueue = tcb[n].rcvQueue /\ cache' = cache
<1> DEFINE s == tcb[n]
           t == [s EXCEPT !.holes = Older(@)]
<1>1. /\ s.holes # <<>> /\ RipeHoles(s.holes, HoleWait) = <<>>
      /\ packetId' = packetId /\ cache' = cache /\ net' = net /\ faults' = faults
      /\ tcb' = [tcb EXCEPT ![n] = t]
  BY DEF Age
<1>2. packetId \in Nat /\ SessOK(s, lo, packetId)
  BY DEF PathInvAt
<1>0. t = [s EXCEPT !.holes = Older(@)]
  OBVIOUS
<1> HIDE DEF s
<1>3. /\ SessOK(t, lo, packetId) /\ Ages(s, t)
      /\ t.sndQueue = s.sndQueue /\ t.rcvQueue = s.rcvQueue /\ t.intQueue = s.intQueue
  <2> HIDE DEF t
  <2> QED  BY <1>0, <1>1, <1>2, AgedIs
<1> HIDE DEF t
<1>4. s.holes \in Seq(Hole) /\ t.holes \in Seq(Hole)
  BY <1>2, <1>3 DEF SessOK, Sess
<1>5. BytesIn(s.holes) = {m[1] : m \in MissOf(s.holes)} /\ BytesIn(t.holes) = {m[1] : m \in MissOf(t.holes)}
  BY <1>4, MissBytes
<1>6. MissOf(t.holes) = {<<m[1], m[2] + 1>> : m \in MissOf(s.holes)}
  BY <1>3 DEF Ages
<1>7. {m[1] : m \in MissOf(t.holes)} = {m[1] : m \in MissOf(s.holes)}
  <2> DEFINE M == MissOf(s.holes)
             N == MissOf(t.holes)
  <2>1. N = {<<m[1], m[2] + 1>> : m \in M}
    BY <1>6
  <2> HIDE DEF M, N
  <2>2. \A k \in N : \E m \in M : k[1] = m[1]
    BY <2>1
  <2>3. \A m \in M : \E k \in N : k[1] = m[1]
    <3> SUFFICES ASSUME NEW m \in M  PROVE \E k \in N : k[1] = m[1]
      OBVIOUS
    <3>1. <<m[1], m[2] + 1>> \in N
      BY <2>1
    <3> QED  BY <3>1
  <2>4. {m[1] : m \in N} = {m[1] : m \in M}
    BY <2>2, <2>3
  <2> QED  BY <2>4 DEF M, N
<1>8. t.next = s.next /\ t.straddled = s.straddled
  BY <1>3 DEF Ages
<1>9. Idles(n, t) /\ t.rcvQueue = tcb[n].rcvQueue
  BY <1>1, <1>3, <1>5, <1>7, <1>8 DEF Idles, s
<1> QED  BY <1>1, <1>9

LEMMA TakeIdles ==
  ASSUME NEW lo \in Nat, PathInvAt(lo), NEW n \in Nodes, TakeReceived(n)
  PROVE  /\ tcb[n].rcvQueue # <<>>
         /\ \E t : Idles(n, t) /\ t.rcvQueue = Tail(tcb[n].rcvQueue) /\ t.seen = tcb[n].seen
<1> DEFINE s == tcb[n]
           q == Tail(s.rcvQueue)
           t == [s EXCEPT !.rcvQueue = q]
<1>1. /\ s.rcvQueue # <<>> /\ tcb' = [tcb EXCEPT ![n] = t]
      /\ packetId' = packetId /\ net' = net /\ faults' = faults
  BY DEF TakeReceived
<1>2. s \in Sess(lo, packetId)
  BY DEF PathInvAt
<1>3. q = Tail(s.rcvQueue) /\ t = [s EXCEPT !.rcvQueue = q]
  OBVIOUS
<1> HIDE DEF s, q, t
<1>4. /\ t.holes = s.holes /\ t.rcvQueue = q /\ t.seen = s.seen
      /\ t.next = s.next /\ t.straddled = s.straddled
      /\ t.sndQueue = s.sndQueue /\ t.intQueue = s.intQueue
  BY <1>2, <1>3 DEF Sess
<1>5. Idles(n, t)
  BY <1>1, <1>4 DEF Idles, s
<1> QED  BY <1>1, <1>3, <1>4, <1>5 DEF s

LEMMA BehindIdle ==
  ASSUME NEW lo \in Nat, PathInvAt(lo), NEW n \in 1..K, NEW e \in Nat, BehindBy(lo, n, e),
         NEW p \in Nodes, NEW t, Idles(p, t)
  PROVE  BehindBy(lo, n, e)'
<1>1. tcb' = [tcb EXCEPT ![p] = t] /\ net' = net
  BY DEF Idles
<1>2. n <= p => p \in n..K
  BY HopChainAssumption DEF Nodes
<1>3. n <= p => Below(tcb[p], lo, p, e)
  BY <1>2 DEF BehindBy
<1>4. n <= p => Below(t, lo, p, e)
  BY <1>3 DEF Idles, Below
<1>5. /\ \A m \in n..K : net'[<<"int", m>>] \in Seq(SegIn(lo, e - 1))
      /\ \A m \in n..(K - 1) : net'[<<"data", m + 1>>] \in Seq(SegIn(lo, e))
  BY <1>1 DEF BehindBy
<1> QED  BY <1>1, <1>4, <1>5, BehindOne

LEMMA BehindRead ==
  ASSUME NEW lo \in Nat, PathInvAt(lo), NEW n \in 1..K, NEW e \in Nat, BehindBy(lo, n, e),
         NEW g, NEW t, Read(lo, g, t)
  PROVE  BehindBy(lo, n, e)'
<1>1. tcb' = [tcb EXCEPT ![0] = t] /\ net' = net
  BY DEF Read
<1>2. ~(n <= 0) /\ 0 \in Nodes
  BY NodesAre
<1>5. /\ \A m \in n..K : net'[<<"int", m>>] \in Seq(SegIn(lo, e - 1))
      /\ \A m \in n..(K - 1) : net'[<<"data", m + 1>>] \in Seq(SegIn(lo, e))
  BY <1>1 DEF BehindBy
<1> QED  BY <1>1, <1>2, <1>5, BehindOne

\* The network takes segments from a link, or gives it those it carries again.
Mangles(l, q) ==
  /\ net' = [net EXCEPT ![l] = q] /\ tcb' = tcb /\ packetId' = packetId /\ cache' = cache
  /\ \A X : net[l] \in Seq(X) => q \in Seq(X)

LEMMA FaultIs ==
  ASSUME NEW lo \in Nat, PathInvAt(lo), NEW l \in Links, Lose(l) \/ Reorder(l) \/ Duplicate(l)
  PROVE  \E q : Mangles(l, q)
<1>1. packetId' = packetId /\ cache' = cache /\ tcb' = tcb
  BY DEF Lose, Reorder, Duplicate, Fault
<1> DEFINE a == net[l]
<1>2. ASSUME Lose(l)  PROVE \E q : Mangles(l, q)
  <2>1. PICK p \in 1..Packed : p <= Len(net[l]) /\ net' = [net EXCEPT ![l] = SubSeq(@, p + 1, Len(@))]
    BY <1>2 DEF Lose
  <2>2. p \in Nat
    BY HopChainAssumption
  <2> DEFINE q == SubSeq(a, p + 1, Len(a))
  <2>3. p <= Len(a) /\ net' = [net EXCEPT ![l] = q]
    BY <2>1
  <2>4. \A X : a \in Seq(X) => q \in Seq(X)
    <3> HIDE DEF a
    <3> QED  BY <2>2, <2>3, FaultyLink
  <2> HIDE DEF q
  <2>5. Mangles(l, q)
    BY <1>1, <2>3, <2>4 DEF Mangles
  <2> QED  BY <2>5
<1>3. ASSUME Reorder(l)  PROVE \E q : Mangles(l, q)
  <2> DEFINE q == <<a[2], a[1]>> \o SubSeq(a, 3, Len(a))
  <2>3. Len(a) >= 2 /\ net' = [net EXCEPT ![l] = q]
    BY <1>3 DEF Reorder
  <2>4. \A X : a \in Seq(X) => q \in Seq(X)
    <3> HIDE DEF a
    <3> QED  BY <2>3, FaultyLink
  <2> HIDE DEF q
  <2>5. Mangles(l, q)
    BY <1>1, <2>3, <2>4 DEF Mangles
  <2> QED  BY <2>5
<1>4. ASSUME Duplicate(l)  PROVE \E q : Mangles(l, q)
  <2> DEFINE q == <<Head(a)>> \o a
  <2>3. a # <<>> /\ net' = [net EXCEPT ![l] = q]
    BY <1>4 DEF Duplicate
  <2>4. \A X : a \in Seq(X) => q \in Seq(X)
    <3> HIDE DEF a
    <3> QED  BY <2>3, FaultyLink
  <2> HIDE DEF q
  <2>5. Mangles(l, q)
    BY <1>1, <2>3, <2>4 DEF Mangles
  <2> QED  BY <2>5
<1> QED  BY <1>2, <1>3, <1>4

LEMMA BehindFault ==
  ASSUME NEW lo \in Nat, PathInvAt(lo), NEW n \in 1..K, NEW e \in Nat, BehindBy(lo, n, e),
         NEW l \in Links, NEW q, Mangles(l, q)
  PROVE  BehindBy(lo, n, e)'
<1>1. net' = [net EXCEPT ![l] = q] /\ tcb' = tcb
  BY DEF Mangles
<1>2. \A X : net[l] \in Seq(X) => q \in Seq(X)
  BY DEF Mangles
<1>3. net \in [Links -> Seq(SegIn(lo, packetId))]
  BY DEF PathInvAt
<1>4. \A k \in Links : net'[k] = IF k = l THEN q ELSE net[k]
  BY <1>1, <1>3
<1>5. ASSUME NEW k \in Links, NEW X, net[k] \in Seq(X)  PROVE net'[k] \in Seq(X)
  BY <1>2, <1>4, <1>5
<1>6. /\ \A m \in n..K : <<"int", m>> \in Links
      /\ \A m \in n..(K - 1) : <<"data", m + 1>> \in Links
  BY HopChainAssumption DEF Links
<1>7. \A m \in n..K : net'[<<"int", m>>] \in Seq(SegIn(lo, e - 1))
  <2> TAKE m \in n..K
  <2>1. net[<<"int", m>>] \in Seq(SegIn(lo, e - 1))
    BY DEF BehindBy
  <2> QED  BY <1>5, <1>6, <2>1
<1>8. \A m \in n..(K - 1) : net'[<<"data", m + 1>>] \in Seq(SegIn(lo, e))
  <2> TAKE m \in n..(K - 1)
  <2>1. net[<<"data", m + 1>>] \in Seq(SegIn(lo, e))
    BY DEF BehindBy
  <2> QED  BY <1>5, <1>6, <2>1
<1>9. \A m \in n..K : Below(tcb'[m], lo, m, e)
  BY <1>1 DEF BehindBy
<1> QED  BY <1>7, <1>8, <1>9 DEF BehindBy

LEMMA NextGrows ==
  ASSUME NEW lo \in Nat, NEW hi \in Nat, NEW hj \in Nat, NEW s, SessOK(s, lo, hi),
         NEW t, Moves(s, t, lo, hj)
  PROVE  s.next <= t.next /\ (~t.straddled => ~s.straddled)
<1>1. s.next \in Nat
  BY DEF SessOK, Sess
<1>2. CASE \E g \in SegIn(lo, hj) : Arrives(s, t, g)
  <2>1. PICK g \in SegIn(lo, hj) : Arrives(s, t, g)
    BY <1>2
  <2>2. g.start \in Nat /\ g.end \in Nat /\ g.start < g.end
    BY SegFields
  <2>3. s.next <= t.next
    BY <1>1, <2>1, <2>2 DEF Arrives
  <2>4. ~t.straddled => ~s.straddled
    BY <2>1 DEF Arrives
  <2> QED  BY <2>3, <2>4
<1>3. CASE Keeps(s, t) \/ Ages(s, t)
  BY <1>1, <1>3 DEF Keeps, Ages
<1>4. CASE \E F \in SUBSET (lo..(hj - 1)) : Flushes(s, t, F)
  <2>1. PICK F : Flushes(s, t, F)
    BY <1>4
  <2> QED  BY <1>1, <2>1 DEF Flushes
<1> QED  BY <1>2, <1>3, <1>4 DEF Moves

LEMMA BehindStep ==
  ASSUME NEW lo \in Nat, PathInvAt(lo), [Next]_vars, NEW n \in 1..K, BehindAt(lo, n)
  PROVE  BehindAt(lo, n)'
<1>0. n \in Nodes /\ n # 0
  BY HopChainAssumption DEF Nodes
<1> SUFFICES ASSUME ~tcb'[n].straddled  PROVE BehindAt(lo, n)'
  BY DEF BehindAt
<1>1. /\ PathInvAt(lo)' /\ Moves(tcb[n], tcb'[n], lo, packetId')
  BY <1>0, NextOK DEF StepOK
<1>2. /\ SessOK(tcb[n], lo, packetId) /\ packetId \in Nat /\ packetId' \in Nat
      /\ SessOK(tcb'[n], lo, packetId')
  BY <1>0, <1>1 DEF PathInvAt
<1>3. tcb[n].next \in Nat /\ tcb'[n].next \in Nat
  BY <1>2 DEF SessOK, Sess
<1>4. tcb[n].next <= tcb'[n].next /\ ~tcb[n].straddled
  BY <1>1, <1>2, NextGrows
<1>5. PICK e \in Nat : e = tcb[n].next /\ BehindBy(lo, n, e)
  BY <1>4 DEF BehindAt
<1>6. PICK f \in Nat : f = tcb'[n].next
  BY <1>3
<1>7. BehindBy(lo, n, f)
  BY <1>4, <1>5, <1>6, BehindMore
<1> SUFFICES BehindBy(lo, n, f)'
  BY <1>6 DEF BehindAt
<1>8. CASE \E size \in Sizes : TunRead(size)
  BY <1>7, <1>8, TunReadIs, BehindRead
<1>9. ASSUME NEW p \in Nodes \ {0}, ReceiveData(p)  PROVE BehindBy(lo, n, f)'
  <2>1. PICK g, t : Received(p, lo, g, t)
    BY <1>9, ReceiveDataIs
  <2>2. ASSUME p = n  PROVE g \in SegIn(lo, f)
    <3>1. /\ g \in SegIn(lo, packetId) /\ Arrives(tcb[p], t, g) /\ tcb' = [tcb EXCEPT ![p] = t]
      BY <2>1 DEF Received, Taken
    <3>2. tcb \in [Nodes -> Sess(lo, packetId)]
      BY DEF PathInvAt
    <3>3. tcb'[n] = t
      BY <1>0, <2>2, <3>1, <3>2
    <3>4. g.start \in Nat /\ g.end \in Nat
      BY <1>2, <3>1, SegFields
    <3>5. CASE g.start < tcb[n].next
      <4>1. t.straddled = (tcb[n].straddled \/ g.end > tcb[n].next) /\ t.next = tcb[n].next
        BY <1>3, <2>2, <3>1, <3>4, <3>5 DEF Arrives
      <4>2. ~(g.end > tcb[n].next)
        BY <3>3, <4>1
      <4>3. g.end <= f
        BY <1>3, <1>6, <3>3, <3>4, <4>1, <4>2
      <4> QED  BY <3>1, <4>3 DEF SegIn
    <3>6. CASE ~(g.start < tcb[n].next)
      <4>1. t.next = g.end
        BY <1>3, <2>2, <3>1, <3>4, <3>6 DEF Arrives
      <4>2. g.end <= f
        BY <1>6, <3>3, <3>4, <4>1
      <4> QED  BY <3>1, <4>2 DEF SegIn
    <3> QED  BY <3>5, <3>6
  <2> QED  BY <1>7, <1>9, <2>1, <2>2, BehindReceive
<1>10. ASSUME NEW p \in Nodes \ {0}, Age(p)  PROVE BehindBy(lo, n, f)'
  BY <1>7, <1>10, AgeIdles, BehindIdle
<1>11. ASSUME NEW p \in Nodes \ {K}, ReceiveInt(p)  PROVE BehindBy(lo, n, f)'
  BY <1>7, <1>11, ReceiveIntIs, BehindAsk
<1>12. ASSUME NEW p \in Nodes, FlushSome(p)  PROVE BehindBy(lo, n, f)'
  BY <1>7, <1>12, FlushIs, BehindFlush
<1>13. ASSUME NEW p \in Nodes, TakeReceived(p)  PROVE BehindBy(lo, n, f)'
  BY <1>7, <1>13, TakeIdles, BehindIdle
<1>14. ASSUME NEW l \in Links, Lose(l) \/ Reorder(l) \/ Duplicate(l)  PROVE BehindBy(lo, n, f)'
  BY <1>7, <1>14, FaultIs, BehindFault
<1>15. CASE UNCHANGED vars
  BY <1>7, <1>15 DEF vars, BehindBy
<1>16. \A p \in Nodes : CacheReceived(p) => TakeReceived(p)
  BY DEF CacheReceived
<1>17. TunWrite => TakeReceived(K) /\ K \in Nodes
  BY NodesAre DEF TunWrite
<1> QED  BY <1>8, <1>9, <1>10, <1>11, <1>12, <1>13, <1>14, <1>15, <1>16, <1>17 DEF Next

-----------------------------------------------------------------------------
(***************************************************************************)
(* The order, of a state of the path.                                      *)
(***************************************************************************)
\* What is on its way from node n to the next, in order.
Stream(n) == net[<<"data", n + 1>>] \o tcb[n].sndQueue

Second ==
  InOrder(tcb[2].next, Stream(0), Stream(1), net[<<"int", 1>>], tcb[1].intQueue,
          BytesIn(tcb[1].holes))

OrderAt ==
  /\ ~tcb[0].straddled /\ tcb[0].next \in {0, packetId}
  /\ ~tcb[1].straddled /\ InLine(Stream(0), tcb[1].next)
  /\ K >= 2 => ~tcb[2].straddled /\ Second

LEMMA SegSpans == \A lo \in Nat, hi \in Int : Spans(SegIn(lo, hi))
BY SegFields DEF Spans

LEMMA NearNodes ==
  /\ 0 \in Nodes /\ 1 \in Nodes /\ (K >= 2 => 2 \in Nodes) /\ K \in Nat /\ K # 0
  /\ <<"data", 1>> \in Links /\ <<"int", 1>> \in Links
  /\ K >= 2 => <<"data", 2>> \in Links /\ <<"int", 2>> \in Links
  /\ ~(K >= 2) => K = 1
BY HopChainAssumption DEF Nodes, Links

\* The parts of the path that the invariant is about, of sessions tc and links nt.
StreamOf(tc, nt, n) == nt[<<"data", n + 1>>] \o tc[n].sndQueue

PartsOK(tc, nt, X, hi) ==
  /\ StreamOf(tc, nt, 0) \in Seq(X) /\ (K >= 2 => StreamOf(tc, nt, 1) \in Seq(X))
  /\ nt[<<"int", 1>>] \in Seq(X) /\ tc[1].intQueue \in Seq(Rng)
  /\ tc[1].next \in Nat /\ (K >= 2 => tc[2].next \in Nat)
  /\ tc[1].next <= hi /\ (K >= 2 => tc[2].next <= hi)
  /\ tc[1].holes \in Seq(Hole) /\ BytesIn(tc[1].holes) \in SUBSET Nat
  /\ nt[<<"data", 1>>] \in Seq(X) /\ tc[0].sndQueue \in Seq(X)
  /\ K >= 2 => nt[<<"data", 2>>] \in Seq(X) /\ tc[1].sndQueue \in Seq(X)

LEMMA PartsAre ==
  ASSUME NEW lo \in Nat, NEW hi \in Nat, NEW nt \in [Links -> Seq(SegIn(lo, hi))],
         NEW tc, \A n \in Nodes : SessOK(tc[n], lo, hi)
  PROVE  PartsOK(tc, nt, SegIn(lo, hi), hi)
<1> DEFINE X == SegIn(lo, hi)
<1>2. \A n \in Nodes : /\ tc[n].sndQueue \in Seq(X) /\ tc[n].next \in Nat
                       /\ tc[n].next <= hi
                       /\ tc[n].intQueue \in Seq(RngIn(lo, hi))
                       /\ tc[n].holes \in Seq(Hole)
  BY DEF SessOK, Sess
<1>1. nt \in [Links -> Seq(X)]
  OBVIOUS
<1> HIDE DEF X
<1>4. nt[<<"data", 1>>] \in Seq(X) /\ nt[<<"int", 1>>] \in Seq(X) /\ tc[0].sndQueue \in Seq(X)
      /\ (K >= 2 => nt[<<"data", 2>>] \in Seq(X) /\ tc[1].sndQueue \in Seq(X))
  BY <1>1, <1>2, NearNodes
<1>5. StreamOf(tc, nt, 0) \in Seq(X)
  <2>1. nt[<<"data", 1>>] \o tc[0].sndQueue \in Seq(X)
    BY <1>4
  <2> QED  BY <2>1 DEF StreamOf
<1>6. K >= 2 => StreamOf(tc, nt, 1) \in Seq(X)
  <2> SUFFICES ASSUME K >= 2  PROVE StreamOf(tc, nt, 1) \in Seq(X)
    OBVIOUS
  <2>1. nt[<<"data", 2>>] \o tc[1].sndQueue \in Seq(X)
    BY <1>4
  <2>2. 1 + 1 = 2
    OBVIOUS
  <2> QED  BY <2>1, <2>2 DEF StreamOf
<1>7. tc[1].intQueue \in Seq(Rng)
  BY <1>2, NearNodes, RngInOK
<1>8. BytesIn(tc[1].holes) \in SUBSET Nat
  BY <1>2, NearNodes, HoleBytes
<1>9. tc[1].next \in Nat /\ tc[1].next <= hi /\ tc[1].holes \in Seq(Hole)
      /\ (K >= 2 => tc[2].next \in Nat /\ tc[2].next <= hi)
  BY <1>2, NearNodes
<1>10. PartsOK(tc, nt, X, hi)
  BY <1>4, <1>5, <1>6, <1>7, <1>8, <1>9 DEF PartsOK
<1> QED  BY <1>10 DEF X

LEMMA StreamIs ==
  ASSUME NEW lo \in Nat, PathInvAt(lo)
  PROVE  /\ packetId \in Nat /\ Spans(SegIn(lo, packetId)) /\ Spans(Rng)
         /\ PartsOK(tcb, net, SegIn(lo, packetId), packetId)
<1>1. /\ packetId \in Nat /\ net \in [Links -> Seq(SegIn(lo, packetId))]
      /\ \A n \in Nodes : SessOK(tcb[n], lo, packetId)
  BY DEF PathInvAt
<1>2. packetId \in Int
  BY <1>1
<1>3. PartsOK(tcb, net, SegIn(lo, packetId), packetId)
  BY <1>1, PartsAre
<1> QED  BY <1>1, <1>2, <1>3, SegSpans, RngSpans

LEMMA StreamNext ==
  ASSUME NEW lo \in Nat, PathInvAt(lo)'
  PROVE  /\ packetId' \in Nat /\ Spans(SegIn(lo, packetId'))
         /\ PartsOK(tcb', net', SegIn(lo, packetId'), packetId')
<1>1. /\ packetId' \in Nat /\ net' \in [Links -> Seq(SegIn(lo, packetId'))]
      /\ \A n \in Nodes : SessOK(tcb'[n], lo, packetId')
  BY DEF PathInvAt
<1>2. packetId' \in Int
  BY <1>1
<1>3. PartsOK(tcb', net', SegIn(lo, packetId'), packetId')
  BY <1>1, PartsAre
<1> QED  BY <1>1, <1>2, <1>3, SegSpans

\* A step that takes from what is under way, or leaves it.
LEMMA OrderStays ==
  ASSUME NEW lo \in Nat, PathInvAt(lo), PathInvAt(lo)', packetId' = packetId, OrderAt,
         tcb'[0].next = tcb[0].next, tcb'[0].straddled = tcb[0].straddled,
         tcb'[1].next = tcb[1].next, tcb'[1].straddled = tcb[1].straddled,
         Thins(Stream(0)', Stream(0)),
         K >= 2 => /\ tcb'[2].next = tcb[2].next /\ tcb'[2].straddled = tcb[2].straddled
                   /\ Thins(Stream(1)', Stream(1))
                   /\ Thins(net'[<<"int", 1>>], net[<<"int", 1>>])
                   /\ tcb'[1].intQueue = tcb[1].intQueue
                   /\ BytesIn(tcb'[1].holes) \subseteq BytesIn(tcb[1].holes)
  PROVE  OrderAt'
<1> DEFINE X == SegIn(lo, packetId)
           S0 == Stream(0)
           S1 == Stream(1)
           T0 == Stream(0)'
           T1 == Stream(1)'
           I == net[<<"int", 1>>]
           J == net'[<<"int", 1>>]
           Q == tcb[1].intQueue
           h == BytesIn(tcb[1].holes)
           k == BytesIn(tcb'[1].holes)
           f == tcb[2].next
<1>1. /\ Spans(X) /\ Spans(Rng) /\ S0 \in Seq(X) /\ (K >= 2 => S1 \in Seq(X))
      /\ I \in Seq(X) /\ Q \in Seq(Rng)
  BY StreamIs DEF PartsOK, Stream, StreamOf
<1>2. T0 \in Seq(X) /\ (K >= 2 => T1 \in Seq(X)) /\ J \in Seq(X)
  BY StreamNext DEF PartsOK, Stream, StreamOf
<1>3. InLine(T0, tcb[1].next)
  <2> HIDE DEF X, S0, T0
  <2>1. Thins(T0, S0) /\ InLine(S0, tcb[1].next)
    BY DEF OrderAt, S0, T0
  <2> QED  BY <1>1, <1>2, <2>1, ThinOrder
<1>4. ASSUME K >= 2  PROVE ~tcb'[2].straddled /\ Second'
  <2>1. /\ ~tcb[2].straddled /\ InOrder(f, S0, S1, I, Q, h)
        /\ Thins(T0, S0) /\ Thins(T1, S1) /\ Thins(J, I) /\ k \in SUBSET h
    BY <1>4 DEF OrderAt, Second
  <2>2. S1 \in Seq(X) /\ T1 \in Seq(X)
    BY <1>1, <1>2, <1>4
  <2> HIDE DEF X, S0, S1, T0, T1, I, J, Q, h, k, f
  <2>3. InOrder(f, T0, T1, J, Q, k)
    BY <1>1, <1>2, <2>1, <2>2, OrderLess
  <2> QED  BY <1>4, <2>1, <2>3 DEF Second, T0, T1, J, Q, k, f
<1> QED  BY <1>3, <1>4 DEF OrderAt

-----------------------------------------------------------------------------
(***************************************************************************)
(* The steps that leave the order alone.                                   *)
(***************************************************************************)
LEMMA OneOf ==
  ASSUME NEW lo \in Nat, PathInvAt(lo), NEW p \in Nodes, NEW t, tcb' = [tcb EXCEPT ![p] = t]
  PROVE  \A m \in Nodes : tcb'[m] = IF m = p THEN t ELSE tcb[m]
<1>1. tcb \in [Nodes -> Sess(lo, packetId)]
  BY DEF PathInvAt
<1> QED  BY <1>1

LEMMA NetOf ==
  ASSUME NEW lo \in Nat, PathInvAt(lo), NEW l \in Links, NEW q, net' = [net EXCEPT ![l] = q]
  PROVE  \A k \in Links : net'[k] = IF k = l THEN q ELSE net[k]
<1>1. net \in [Links -> Seq(SegIn(lo, packetId))]
  BY DEF PathInvAt
<1> QED  BY <1>1

\* Sessions and links near the responder that stay as they are, in all that counts.
Near(m, t) ==
  /\ t.next = tcb[m].next /\ t.straddled = tcb[m].straddled
  /\ m \in {0, 1} => t.sndQueue = tcb[m].sndQueue
  /\ m = 1 => t.intQueue = tcb[m].intQueue /\ BytesIn(t.holes) = BytesIn(tcb[m].holes)

LEMMA OrderAway ==
  ASSUME NEW lo \in Nat, PathInvAt(lo), PathInvAt(lo)', packetId' = packetId, OrderAt,
         NEW p \in Nodes, NEW t, tcb' = [tcb EXCEPT ![p] = t],
         p \in {0, 1, 2} => Near(p, t),
         net'[<<"data", 1>>] = net[<<"data", 1>>], net'[<<"int", 1>>] = net[<<"int", 1>>],
         K >= 2 => net'[<<"data", 2>>] = net[<<"data", 2>>]
  PROVE  OrderAt'
<1>1. \A m \in Nodes : tcb'[m] = IF m = p THEN t ELSE tcb[m]
  <2>1. tcb \in [Nodes -> Sess(lo, packetId)]
    BY DEF PathInvAt
  <2>2. tcb' = [tcb EXCEPT ![p] = t]
    OBVIOUS
  <2> QED  BY <2>1, <2>2
<1>2. \A m \in Nodes \cap {0, 1, 2} : Near(m, tcb'[m])
  <2> TAKE m \in Nodes \cap {0, 1, 2}
  <2>1. CASE m = p
    BY <1>1, <2>1
  <2>2. CASE m # p
    BY <1>1, <2>2 DEF Near
  <2> QED  BY <2>1, <2>2
<1>3. Near(0, tcb'[0]) /\ Near(1, tcb'[1]) /\ (K >= 2 => Near(2, tcb'[2]))
  BY <1>2, NearNodes
<1>4. 0 + 1 = 1 /\ 1 + 1 = 2
  OBVIOUS
<1>5. Stream(0)' = Stream(0)
  <2>1. tcb'[0].sndQueue = tcb[0].sndQueue
    BY <1>3 DEF Near
  <2> QED  BY <1>4, <2>1 DEF Stream
<1>6. K >= 2 => Stream(1)' = Stream(1)
  <2>1. tcb'[1].sndQueue = tcb[1].sndQueue
    BY <1>3 DEF Near
  <2> QED  BY <1>4, <2>1 DEF Stream
<1> DEFINE X == SegIn(lo, packetId)
<1>7. /\ Stream(0) \in Seq(X) /\ (K >= 2 => Stream(1) \in Seq(X)) /\ net[<<"int", 1>>] \in Seq(X)
  BY StreamIs DEF PartsOK, Stream, StreamOf
<1> HIDE DEF X
<1>8. /\ Thins(Stream(0), Stream(0)) /\ (K >= 2 => Thins(Stream(1), Stream(1)))
      /\ Thins(net[<<"int", 1>>], net[<<"int", 1>>])
  BY <1>7, ThinParts
<1>9. /\ tcb'[0].next = tcb[0].next /\ tcb'[0].straddled = tcb[0].straddled
      /\ tcb'[1].next = tcb[1].next /\ tcb'[1].straddled = tcb[1].straddled
      /\ tcb'[1].intQueue = tcb[1].intQueue
      /\ BytesIn(tcb'[1].holes) \subseteq BytesIn(tcb[1].holes)
      /\ K >= 2 => tcb'[2].next = tcb[2].next /\ tcb'[2].straddled = tcb[2].straddled
  BY <1>3 DEF Near
<1>10. Thins(Stream(0)', Stream(0))
  BY <1>5, <1>8
<1>11. Thins(net'[<<"int", 1>>], net[<<"int", 1>>])
  BY <1>8
<1>12. K >= 2 => Thins(Stream(1)', Stream(1))
  BY <1>6, <1>8
<1> QED  BY <1>9, <1>10, <1>11, <1>12, OrderStays

LEMMA OrderIdle ==
  ASSUME NEW lo \in Nat, PathInvAt(lo), PathInvAt(lo)', OrderAt,
         NEW p \in Nodes, NEW t, Idles(p, t)
  PROVE  OrderAt'
<1>1. tcb' = [tcb EXCEPT ![p] = t] /\ packetId' = packetId /\ net' = net /\ Near(p, t)
  BY DEF Idles, Near
<1> QED  BY <1>1, OrderAway

Down(p) == <<"data", p + 1>>
Batch(u, k) == SubSeq(u.sndQueue, 1, k)

\* The links of a flush.
LEMMA SendsLinks ==
  ASSUME NEW lo \in Nat, PathInvAt(lo), NEW p \in Nodes, NEW u, NEW k, NEW t, Sends(p, lo, u, k, t)
  PROVE  /\ \A c \in Links : c # <<"int", p>> /\ c # Down(p) => net'[c] = net[c]
         /\ p # 0 => net'[<<"int", p>>] = net[<<"int", p>>] \o OutputInts(p)
         /\ p # K => net'[Down(p)] = net[Down(p)] \o Batch(u, k)
<1> DEFINE gs == Batch(u, k)
           is == OutputInts(p)
           li == <<"int", p>>
           ld == Down(p)
           asked == IF p = 0 THEN net ELSE OutputTo(li, is, net)
<1>1. net' = IF p = K THEN asked ELSE OutputTo(ld, gs, asked)
  BY DEF Sends, Batch, Down
<1>2. (p # 0 => li \in Links) /\ (p # K => ld \in Links) /\ li # ld
  BY NodesAre DEF Nodes, Down
<1>3. net = [c \in Links |-> net[c]]
  BY DEF PathInvAt
<1> HIDE DEF li, ld, gs, is
<1>4. asked = [c \in Links |-> asked[c]]
  BY <1>3 DEF OutputTo
<1>5. /\ \A c \in Links : c # li => asked[c] = net[c]
      /\ p # 0 => asked[li] = net[li] \o is
      /\ p = 0 => asked = net
  BY <1>2, <1>3 DEF OutputTo
<1> HIDE DEF asked
<1>6. /\ \A c \in Links : c # ld => net'[c] = asked[c]
      /\ p # K => net'[ld] = asked[ld] \o gs
  BY <1>1, <1>2, <1>4 DEF OutputTo
<1>7. \A c \in Links : c # li /\ c # ld => net'[c] = net[c]
  BY <1>5, <1>6
<1>8. p # 0 => net'[li] = net[li] \o is
  BY <1>2, <1>5, <1>6
<1>9. p # K => net'[ld] = net[ld] \o gs
  BY <1>2, <1>5, <1>6
<1> QED  BY <1>7, <1>8, <1>9 DEF li, ld, gs, is

LEMMA OrderFar ==
  ASSUME NEW lo \in Nat, PathInvAt(lo), PathInvAt(lo)', OrderAt, NEW p \in Nodes, p # 0, p # 1
  PROVE  /\ \A g, t : p # 2 /\ Received(p, lo, g, t) => OrderAt'
         /\ \A g, t : p # K /\ Asks(p, lo, g, t) => OrderAt'
         /\ \A u, k, t : Sends(p, lo, u, k, t) => OrderAt'
<1>0. p \in Nat /\ p >= 2 /\ K >= 2
  BY HopChainAssumption DEF Nodes
<1>1. /\ <<"data", 1>> \in Links /\ <<"data", 2>> \in Links /\ <<"int", 1>> \in Links
      /\ <<"data", p>> \in Links /\ (p # K => <<"int", p + 1>> \in Links)
  BY <1>0, NearNodes, NodesAre
<1>2. ASSUME NEW g, NEW t, p # 2, Received(p, lo, g, t)  PROVE OrderAt'
  <2>1. /\ tcb' = [tcb EXCEPT ![p] = t] /\ packetId' = packetId
        /\ net' = [net EXCEPT ![<<"data", p>>] = Tail(net[<<"data", p>>])]
    BY <1>2 DEF Received
  <2>2. <<"data", p>> # <<"data", 1>> /\ <<"data", p>> # <<"data", 2>> /\ <<"data", p>> # <<"int", 1>>
    BY <1>0, <1>2
  <2>3. /\ net'[<<"data", 1>>] = net[<<"data", 1>>] /\ net'[<<"int", 1>>] = net[<<"int", 1>>]
        /\ net'[<<"data", 2>>] = net[<<"data", 2>>]
    BY <1>1, <2>1, <2>2, NetOf
  <2> QED  BY <1>2, <2>1, <2>3, OrderAway
<1>3. ASSUME NEW g, NEW t, p # K, Asks(p, lo, g, t)  PROVE OrderAt'
  <2>1. /\ tcb' = [tcb EXCEPT ![p] = t] /\ packetId' = packetId
        /\ net' = [net EXCEPT ![<<"int", p + 1>>] = Tail(net[<<"int", p + 1>>])]
        /\ Served(p, tcb[p], <<g>>, t)
    BY <1>3 DEF Asks
  <2>2. /\ <<"int", p + 1>> # <<"data", 1>> /\ <<"int", p + 1>> # <<"data", 2>>
        /\ <<"int", p + 1>> # <<"int", 1>>
    BY <1>0
  <2>3. /\ net'[<<"data", 1>>] = net[<<"data", 1>>] /\ net'[<<"int", 1>>] = net[<<"int", 1>>]
        /\ net'[<<"data", 2>>] = net[<<"data", 2>>]
    BY <1>1, <1>3, <2>1, <2>2, NetOf
  <2>4. Near(p, t)
    BY <1>0, <2>1 DEF Served, Near
  <2> QED  BY <2>1, <2>3, <2>4, OrderAway
<1>4. ASSUME NEW u, NEW k, NEW t, Sends(p, lo, u, k, t)  PROVE OrderAt'
  <2>1. /\ tcb' = [tcb EXCEPT ![p] = t] /\ packetId' = packetId
        /\ t.next = tcb[p].next /\ t.straddled = tcb[p].straddled
    BY <1>4 DEF Sends, Flushes
  <2>2. /\ <<"int", p>> # <<"data", 1>> /\ <<"int", p>> # <<"data", 2>> /\ <<"int", p>> # <<"int", 1>>
        /\ <<"data", p + 1>> # <<"data", 1>> /\ <<"data", p + 1>> # <<"data", 2>>
        /\ <<"data", p + 1>> # <<"int", 1>>
    BY <1>0
  <2>3. /\ net'[<<"data", 1>>] = net[<<"data", 1>>] /\ net'[<<"int", 1>>] = net[<<"int", 1>>]
        /\ net'[<<"data", 2>>] = net[<<"data", 2>>]
    BY <1>1, <1>4, <2>2, SendsLinks DEF Down
  <2>4. Near(p, t)
    BY <1>0, <2>1 DEF Near
  <2> QED  BY <2>1, <2>3, <2>4, OrderAway
<1> QED  BY <1>2, <1>3, <1>4

\* The network loses a datagram.
LEMMA OrderLost ==
  ASSUME NEW lo \in Nat, PathInvAt(lo), PathInvAt(lo)', OrderAt, NEW l \in Links, Lose(l)
  PROVE  OrderAt'
<1> DEFINE X == SegIn(lo, packetId)
           d1 == <<"data", 1>>
           d2 == <<"data", 2>>
           i1 == <<"int", 1>>
<1>1. packetId' = packetId /\ tcb' = tcb
  BY DEF Lose, Fault
<1>2. PICK p \in 1..Packed : p <= Len(net[l]) /\ net' = [net EXCEPT ![l] = SubSeq(@, p + 1, Len(@))]
  BY DEF Lose
<1>3. p \in Nat
  BY HopChainAssumption
<1> DEFINE q == SubSeq(net[l], p + 1, Len(net[l]))
<1>4. net' = [net EXCEPT ![l] = q]
  BY <1>2
<1> HIDE DEF q
<1>5. \A k \in Links : net'[k] = IF k = l THEN q ELSE net[k]
  BY <1>4, NetOf
<1>6. net \in [Links -> Seq(X)]
  BY DEF PathInvAt
<1>7. tcb[0].sndQueue \in Seq(X) /\ (K >= 2 => tcb[1].sndQueue \in Seq(X))
  BY StreamIs DEF PartsOK
<1> HIDE DEF X
<1>8. ASSUME NEW k \in Links
      PROVE  Thins(net'[k], net[k]) /\ \A s \in Seq(X) : Thins(net'[k] \o s, net[k] \o s)
  <2> DEFINE a == net[k]
  <2>1. a \in Seq(X)
    BY <1>6
  <2>2. CASE k = l
    <3>1. net'[k] = SubSeq(a, p + 1, Len(a)) /\ p <= Len(a)
      BY <1>2, <1>5, <2>2 DEF q
    <3> HIDE DEF a
    <3>2. Thins(SubSeq(a, p + 1, Len(a)), a)
          /\ \A s \in Seq(X) : Thins(SubSeq(a, p + 1, Len(a)) \o s, a \o s)
      BY <1>3, <2>1, <3>1, ThinParts
    <3> QED  BY <3>1, <3>2 DEF a
  <2>3. CASE k # l
    <3>1. net'[k] = a
      BY <1>5, <2>3
    <3> HIDE DEF a
    <3>2. Thins(a, a)
      BY <2>1, ThinParts
    <3>3. \A s \in Seq(X) : Thins(a \o s, a \o s)
      <4> TAKE s \in Seq(X)
      <4>1. a \o s \in Seq(X)
        BY <2>1
      <4> QED  BY <4>1, ThinParts
    <3> QED  BY <3>1, <3>2, <3>3 DEF a
  <2> QED  BY <2>2, <2>3
<1>9. d1 \in Links /\ i1 \in Links /\ (K >= 2 => d2 \in Links)
  BY NearNodes
<1>10. Thins(Stream(0)', Stream(0))
  <2>1. 0 + 1 = 1
    OBVIOUS
  <2>2. Thins(net'[d1] \o tcb[0].sndQueue, net[d1] \o tcb[0].sndQueue)
    BY <1>7, <1>8, <1>9
  <2> QED  BY <1>1, <2>1, <2>2 DEF Stream
<1>11. ASSUME K >= 2  PROVE Thins(Stream(1)', Stream(1))
  <2>1. 1 + 1 = 2
    OBVIOUS
  <2>2. Thins(net'[d2] \o tcb[1].sndQueue, net[d2] \o tcb[1].sndQueue)
    BY <1>7, <1>8, <1>9, <1>11
  <2> QED  BY <1>1, <2>1, <2>2 DEF Stream
<1>12. Thins(net'[i1], net[i1])
  BY <1>8, <1>9
<1> QED  BY <1>1, <1>10, <1>11, <1>12, OrderStays

-----------------------------------------------------------------------------
(***************************************************************************)
(* The steps of the responder.                                             *)
(***************************************************************************)
LEMMA SegInOK ==
  ASSUME NEW lo \in Nat, NEW hi \in Int, NEW rs \in Seq(SegIn(lo, hi))
  PROVE  RangesOK(rs, lo, hi)
<1> DEFINE X == SegIn(lo, hi)
<1>1. \A g \in X : /\ g.start \in Nat /\ g.end \in Nat /\ g.start < g.end
                   /\ lo <= g.start /\ g.end <= hi
  BY SegFields
<1>2. rs \in Seq(X)
  OBVIOUS
<1> HIDE DEF X
<1>3. Len(rs) \in Nat /\ DOMAIN rs = 1..Len(rs) /\ \A i \in 1..Len(rs) : rs[i] \in X
  BY <1>2
<1> QED  BY <1>1, <1>3 DEF RangesOK

LEMMA BytesBelow ==
  ASSUME NEW lo \in Nat, NEW hi \in Int, NEW rs, RangesOK(rs, lo, hi)
  PROVE  \A x \in BytesIn(rs) : x \in Nat /\ x < hi
<1>1. DOMAIN rs = 1..Len(rs)
  BY DEF RangesOK
<1> SUFFICES ASSUME NEW x \in BytesIn(rs)  PROVE x \in Nat /\ x < hi
  OBVIOUS
<1>2. PICK i \in 1..Len(rs) : x \in BytesOf(rs[i])
  BY <1>1 DEF BytesIn
<1>3. /\ rs[i].start \in Nat /\ rs[i].end \in Nat /\ rs[i].end <= hi
  BY DEF RangesOK
<1>4. x \in rs[i].start..(rs[i].end - 1)
  BY <1>2 DEF BytesOf
<1> QED  BY <1>3, <1>4

\* The responder's queue gives k segments to the link: the stream is the same.
LEMMA OrderDrain ==
  ASSUME NEW lo \in Nat, PathInvAt(lo), PathInvAt(lo)', OrderAt,
         NEW u, NEW k, NEW t, Sends(0, lo, u, k, t)
  PROVE  OrderAt'
<1> DEFINE d1 == <<"data", 1>>
           d2 == <<"data", 2>>
           i1 == <<"int", 1>>
           q == tcb[0].sndQueue
           X == SegIn(lo, packetId)
<1>1. /\ tcb' = [tcb EXCEPT ![0] = t] /\ packetId' = packetId
      /\ u = tcb[0] /\ k \in 0..Len(q)
      /\ t.sndQueue = SubSeq(q, k + 1, Len(q))
      /\ t.next = tcb[0].next /\ t.straddled = tcb[0].straddled
  BY DEF Sends
<1>2. d1 \in Links /\ i1 \in Links /\ (K >= 2 => d2 \in Links) /\ 0 # K /\ 0 \in Nodes /\ 0 + 1 = 1
  BY NearNodes
<1>3. /\ \A c \in Links : c # <<"int", 0>> /\ c # <<"data", 0 + 1>> => net'[c] = net[c]
      /\ net'[<<"data", 0 + 1>>] = net[<<"data", 0 + 1>>] \o Batch(u, k)
  <2> DEFINE p == 0
  <2>1. p \in Nodes /\ p # K /\ Sends(p, lo, u, k, t)
    BY <1>2
  <2> HIDE DEF p
  <2>2. /\ \A c \in Links : c # <<"int", p>> /\ c # Down(p) => net'[c] = net[c]
        /\ net'[Down(p)] = net[Down(p)] \o Batch(u, k)
    BY <2>1, SendsLinks
  <2> QED  BY <2>2 DEF p, Down
<1>4. /\ net'[d1] = net[d1] \o SubSeq(q, 1, k) /\ net'[i1] = net[i1]
      /\ (K >= 2 => net'[d2] = net[d2])
  <2>1. i1 # <<"int", 0>> /\ i1 # <<"data", 0 + 1>> /\ d2 # <<"int", 0>> /\ d2 # <<"data", 0 + 1>>
    OBVIOUS
  <2> QED  BY <1>1, <1>2, <1>3, <2>1 DEF Batch
<1>5. /\ net[d1] \in Seq(X) /\ net[i1] \in Seq(X) /\ q \in Seq(X)
      /\ Stream(0) \in Seq(X) /\ (K >= 2 => Stream(1) \in Seq(X))
  BY StreamIs DEF PartsOK, Stream, StreamOf
<1>6. \A m \in Nodes : tcb'[m] = IF m = 0 THEN t ELSE tcb[m]
  BY <1>1, <1>2, OneOf
<1>7. tcb'[0] = t /\ tcb'[1] = tcb[1] /\ (K >= 2 => tcb'[2] = tcb[2])
  BY <1>6, NearNodes
<1>8. Stream(0)' = Stream(0)
  <2>1. Stream(0)' = (net[d1] \o SubSeq(q, 1, k)) \o SubSeq(q, k + 1, Len(q))
    BY <1>1, <1>2, <1>4, <1>7 DEF Stream
  <2>2. Stream(0) = net[d1] \o q
    BY <1>2 DEF Stream
  <2> HIDE DEF X, q, d1
  <2> QED  BY <1>1, <1>5, <2>1, <2>2, QueueCuts
<1>9. K >= 2 => Stream(1)' = Stream(1)
  <2>1. 1 + 1 = 2
    OBVIOUS
  <2> QED  BY <1>4, <1>7, <2>1 DEF Stream
<1> HIDE DEF X
<1>10. /\ Thins(Stream(0), Stream(0)) /\ (K >= 2 => Thins(Stream(1), Stream(1)))
       /\ Thins(net[i1], net[i1])
  BY <1>5, ThinParts
<1>11. /\ Thins(Stream(0)', Stream(0)) /\ (K >= 2 => Thins(Stream(1)', Stream(1)))
       /\ Thins(net'[i1], net[i1])
  BY <1>4, <1>8, <1>9, <1>10
<1> QED  BY <1>1, <1>7, <1>11, OrderStays

\* The responder reads a packet.
LEMMA OrderTun ==
  ASSUME NEW lo \in Nat, PathInvAt(lo), PathInvAt(lo)', OrderAt, NEW g, NEW t, Read(lo, g, t)
  PROVE  OrderAt'
<1> DEFINE d1 == <<"data", 1>>
           s == tcb[0]
           Y == SegIn(lo, packetId)
           X == SegIn(lo, packetId')
           S0 == Stream(0)
           S1 == Stream(1)
           I == net[<<"int", 1>>]
           Q == tcb[1].intQueue
           h == BytesIn(tcb[1].holes)
           e == tcb[1].next
           f == tcb[2].next
<1>1. /\ g.start = packetId /\ g.end = packetId' /\ packetId' \in Nat /\ packetId < packetId'
      /\ tcb' = [tcb EXCEPT ![0] = t] /\ net' = net /\ g \in X
      /\ Taken(0, s, g, t, lo)
  BY DEF Read
<1>2. packetId \in Nat /\ packetId \in Int /\ SessOK(s, lo, packetId) /\ SessOK(tcb[1], lo, packetId)
  BY NearNodes DEF PathInvAt
<1>3. \A m \in Nodes : tcb'[m] = IF m = 0 THEN t ELSE tcb[m]
  BY <1>1, NearNodes, OneOf
<1>4. tcb'[0] = t /\ tcb'[1] = tcb[1] /\ (K >= 2 => tcb'[2] = tcb[2])
  BY <1>3, NearNodes
<1>5. t.next = packetId' /\ t.straddled = s.straddled
  <2>1. s.next \in {0, packetId} /\ Arrives(s, t, g)
    BY <1>1 DEF OrderAt, Taken
  <2> QED  BY <1>1, <1>2, <2>1 DEF Arrives
<1>6. t.sndQueue = Append(s.sndQueue, g)
  <2>1. ~IsMidnode(0) /\ 0 # K
    BY NearNodes DEF IsMidnode
  <2> QED  BY <1>1, <2>1 DEF Taken, Announced
<1>7. /\ S0 \in Seq(Y) /\ (K >= 2 => S1 \in Seq(Y)) /\ I \in Seq(Y) /\ Q \in Seq(Rng)
      /\ e \in Nat /\ e <= packetId /\ (K >= 2 => f \in Nat /\ f <= packetId)
      /\ net[d1] \in Seq(Y) /\ s.sndQueue \in Seq(Y)
  BY StreamIs DEF PartsOK, Stream, StreamOf
<1>8. Y \subseteq X
  BY <1>1, <1>2, Longer
<1>9. Spans(X) /\ Spans(Rng)
  BY <1>1, SegSpans, RngSpans
<1>10. /\ RangesOK(S0, lo, packetId) /\ RangesOK(I, lo, packetId) /\ RangesOK(Q, lo, packetId)
       /\ (K >= 2 => RangesOK(S1, lo, packetId)) /\ RangesOK(tcb[1].holes, lo, packetId)
  <2>1. tcb[1].intQueue \in Seq(RngIn(lo, packetId)) /\ HolesOK(tcb[1].holes, lo, e - 1)
    BY <1>2 DEF SessOK, Sess
  <2>2. e - 1 \in Int /\ e - 1 <= packetId
    BY <1>2, <1>7
  <2>3. RangesOK(tcb[1].holes, lo, packetId)
    BY <1>2, <2>1, <2>2, HolesRanges
  <2>4. RangesOK(Q, lo, packetId)
    BY <1>2, <2>1, RngInOK
  <2> QED  BY <1>2, <1>7, <2>3, <2>4, SegInOK
<1>11. Stream(0)' = Append(S0, g)
  <2>1. Stream(0)' = net[d1] \o Append(s.sndQueue, g)
    <3>1. 0 + 1 = 1
      OBVIOUS
    <3> QED  BY <1>1, <1>4, <1>6, <3>1 DEF Stream
  <2>2. S0 = net[d1] \o s.sndQueue
    <3>1. 0 + 1 = 1
      OBVIOUS
    <3> QED  BY <3>1 DEF Stream
  <2>3. net[d1] \in Seq(X) /\ s.sndQueue \in Seq(X) /\ g \in X
    <3> HIDE DEF X, Y, S0, d1, s
    <3> QED  BY <1>1, <1>7, <1>8
  <2> HIDE DEF X, S0, d1, s
  <2>4. net[d1] \o Append(s.sndQueue, g) = Append(net[d1] \o s.sndQueue, g)
    <3> DEFINE a == net[d1]
               q == s.sndQueue
    <3>1. a \in Seq(X) /\ q \in Seq(X) /\ g \in X
      BY <2>3
    <3> HIDE DEF a, q
    <3>2. a \o Append(q, g) = Append(a \o q, g)
      BY <3>1, QueueMoves
    <3> QED  BY <3>2 DEF a, q
  <2> QED  BY <2>1, <2>2, <2>4
<1>12. Stream(1)' = S1 \/ ~(K >= 2)
  BY <1>1, <1>4 DEF Stream
<1>13. h \in SUBSET Nat /\ \A x \in h : x < packetId
  BY <1>2, <1>10, BytesBelow
<1> HIDE DEF X, Y, S0, S1, I, Q
<1>14. S0 \in Seq(X) /\ (K >= 2 => S1 \in Seq(X)) /\ I \in Seq(X)
  BY <1>7, <1>8
<1>15. InLine(Append(S0, g), e)
  <2>1. \A i \in 1..Len(S0) : S0[i].end <= g.start
    BY <1>1, <1>10 DEF RangesOK
  <2>2. InLine(S0, e)
    BY DEF OrderAt, S0
  <2>3. e \in Nat /\ e <= g.start /\ g \in X
    BY <1>1, <1>7
  <2> HIDE DEF e
  <2> QED  BY <1>9, <1>14, <2>1, <2>2, <2>3, LineCat
<1>16. ASSUME K >= 2  PROVE ~tcb'[2].straddled /\ Second'
  <2>1. ~tcb[2].straddled /\ InOrder(f, S0, S1, I, Q, h)
    BY <1>16 DEF OrderAt, Second, S0, S1, I, Q
  <2>2. \A c \in Stops(f, S1) : c <= g.start
    BY <1>1, <1>7, <1>10, <1>16 DEF Stops, RangesOK
  <2>3. \A x \in Nat : x \in BytesIn(S0) \cup BytesIn(I) \cup BytesIn(Q) \cup h => x < g.start
    BY <1>1, <1>2, <1>10, <1>13, BytesBelow
  <2>4. f \in Nat /\ S1 \in Seq(X) /\ g \in X
    BY <1>1, <1>7, <1>14, <1>16
  <2> HIDE DEF f, h
  <2>5. InOrder(f, Append(S0, g), S1, I, Q, h)
    BY <1>7, <1>9, <1>14, <2>1, <2>2, <2>3, <2>4, OrderRead
  <2>6. Second' = InOrder(f, Append(S0, g), S1, I, Q, h)
    BY <1>1, <1>4, <1>11, <1>12, <1>16 DEF Second, I, Q, h, f
  <2> QED  BY <1>4, <1>16, <2>1, <2>5, <2>6
<1>17. ~tcb'[0].straddled /\ tcb'[0].next \in {0, packetId'}
  BY <1>4, <1>5 DEF OrderAt
<1>18. ~tcb'[1].straddled /\ InLine(Stream(0)', tcb'[1].next)
  BY <1>4, <1>11, <1>15 DEF OrderAt
<1> QED  BY <1>16, <1>17, <1>18 DEF OrderAt

\* The interests that reach a node's upstream neighbour are for bytes it is past.
LEMMA BehindInts ==
  ASSUME NEW lo \in Nat, NEW n \in 1..K, BehindAt(lo, n), ~tcb[n].straddled, NEW e, e = tcb[n].next
  PROVE  /\ e \in Nat /\ BehindBy(lo, n, e) /\ net[<<"int", n>>] \in Seq(SegIn(lo, e - 1))
         /\ Below(tcb[n], lo, n, e)
<1>1. e \in Nat /\ BehindBy(lo, n, e)
  BY DEF BehindAt
<1>2. n \in n..K
  BY NodesAre
<1> QED  BY <1>1, <1>2 DEF BehindBy

LEMMA QueueJoins ==
  ASSUME NEW X, NEW a \in Seq(X), NEW q \in Seq(X), NEW p \in Seq(X)
  PROVE  a \o (q \o p) = (a \o q) \o p
BY ConcatAssociative

\* The answers to one interest lie in it, and no two of them meet.
LEMMA AnswersTo ==
  ASSUME NEW held, NEW lo \in Nat, NEW hi \in Int, NEW g \in SegIn(lo, hi), NEW f,
         NEW ps, ps = Segs("data", SentFor(held, <<g>>))
  PROVE  /\ ps \in Seq(SegIn(lo, hi)) /\ Once(ps, f)
         /\ \A i \in 1..Len(ps) : g.start <= ps[i].start /\ ps[i].end <= g.end
<1> DEFINE rs == <<g>>
           ss == SentFor(held, rs)
<1>1. RangesOK(rs, lo, hi)
  BY OneRange
<1>2. Once(rs, f)
  BY DEF Once
<1>3. Len(rs) = 1 /\ rs[1] = g
  OBVIOUS
<1>4. ps = Segs("data", ss) /\ "data" \in Kinds
  BY DEF Kinds
<1> HIDE DEF rs
<1>5. /\ ss \in Seq(RngIn(lo, hi))
      /\ \A j \in 1..Len(ss) : \E i \in 1..Len(rs) : PieceOf(ss[j], held, rs[i])
  BY <1>1, SentForIs
<1>6. Once(ss, f)
  BY <1>1, <1>2, AnswerOnce
<1> HIDE DEF ss
<1>7. RangesOK(ss, lo, hi)
  BY <1>5, RngInOK
<1>8. /\ ps \in Seq(SegIn(lo, hi)) /\ Len(ps) = Len(ss)
      /\ \A i \in 1..Len(ss) : ps[i].start = ss[i].start /\ ps[i].end = ss[i].end
  BY <1>4, <1>7, SegsIs
<1>9. Once(ps, f)
  BY <1>4, <1>6, <1>7, SegsOnce
<1>10. \A j \in 1..Len(ss) : PieceOf(ss[j], held, g)
  BY <1>3, <1>5
<1>11. ASSUME NEW i \in 1..Len(ps)  PROVE g.start <= ps[i].start /\ ps[i].end <= g.end
  BY <1>8, <1>10 DEF PieceOf
<1> QED  BY <1>8, <1>9, <1>11

\* An interest reaches the responder.
LEMMA OrderAsk0 ==
  ASSUME NEW lo \in Nat, PathInvAt(lo), PathInvAt(lo)', OrderAt, BehindAt(lo, 1),
         NEW g, NEW t, Asks(0, lo, g, t)
  PROVE  OrderAt'
<1> DEFINE d1 == <<"data", 1>>
           i1 == <<"int", 1>>
           s == tcb[0]
           X == SegIn(lo, packetId)
           S0 == Stream(0)
           S1 == Stream(1)
           I == net[i1]
           Q == tcb[1].intQueue
           h == BytesIn(tcb[1].holes)
           e == tcb[1].next
           f == tcb[2].next
           Z == SegIn(lo, e - 1)
           ps == Segs("data", SentFor(cache[0], <<g>>))
<1>1. /\ I # <<>> /\ g = Head(I) /\ net' = [net EXCEPT ![i1] = Tail(@)]
      /\ tcb' = [tcb EXCEPT ![0] = t] /\ packetId' = packetId
  <2>1. 0 + 1 = 1
    OBVIOUS
  <2> QED  BY <2>1 DEF Asks
<1>2. /\ t.next = s.next /\ t.straddled = s.straddled /\ t.sndQueue = s.sndQueue \o ps
  BY DEF Asks, Served
<1>3. tcb'[0] = t /\ tcb'[1] = tcb[1] /\ (K >= 2 => tcb'[2] = tcb[2])
  <2>1. \A m \in Nodes : tcb'[m] = IF m = 0 THEN t ELSE tcb[m]
    <3>1. 0 \in Nodes /\ tcb' = [tcb EXCEPT ![0] = t]
      BY <1>1, NearNodes
    <3> QED  BY <3>1, OneOf
  <2> QED  BY <2>1, NearNodes
<1>4. net'[i1] = Tail(I) /\ net'[d1] = net[d1] /\ (K >= 2 => net'[<<"data", 2>>] = net[<<"data", 2>>])
  <2>1. \A c \in Links : net'[c] = IF c = i1 THEN Tail(net[i1]) ELSE net[c]
    <3>1. i1 \in Links /\ net' = [net EXCEPT ![i1] = Tail(net[i1])]
      BY <1>1, NearNodes
    <3> HIDE DEF i1
    <3> QED  BY <3>1, NetOf
  <2>2. d1 # i1 /\ <<"data", 2>> # i1
    OBVIOUS
  <2> QED  BY <2>1, <2>2, NearNodes
<1>5. /\ S0 \in Seq(X) /\ (K >= 2 => S1 \in Seq(X)) /\ I \in Seq(X) /\ Q \in Seq(Rng)
      /\ e \in Nat /\ e <= packetId /\ (K >= 2 => f \in Nat) /\ packetId \in Nat
      /\ net[d1] \in Seq(X) /\ s.sndQueue \in Seq(X) /\ Spans(X) /\ Spans(Rng)
  BY StreamIs DEF PartsOK, Stream, StreamOf
<1>6. I \in Seq(Z) /\ e - 1 \in Int /\ e - 1 <= packetId
  <2>1. ~tcb[1].straddled /\ 1 \in 1..K
    BY NearNodes DEF OrderAt
  <2>2. I \in Seq(Z)
    BY <2>1, BehindInts
  <2> QED  BY <1>5, <2>2
<1>7. g \in Z
  <2> HIDE DEF I, Z
  <2> QED  BY <1>1, <1>6, HeadTail
<1>8. /\ ps \in Seq(Z) /\ Once(ps, f)
      /\ \A i \in 1..Len(ps) : g.start <= ps[i].start /\ ps[i].end <= g.end
  <2> DEFINE hi == e - 1
  <2>1. hi \in Int /\ g \in SegIn(lo, hi)
    BY <1>6, <1>7
  <2>2. ps = Segs("data", SentFor(cache[0], <<g>>))
    OBVIOUS
  <2> HIDE DEF hi, ps, f
  <2>3. /\ ps \in Seq(SegIn(lo, hi)) /\ Once(ps, f)
        /\ \A i \in 1..Len(ps) : g.start <= ps[i].start /\ ps[i].end <= g.end
    BY <2>1, <2>2, AnswersTo
  <2> QED  BY <2>3 DEF hi
<1> HIDE DEF ps
<1>9. ps \in Seq(X) /\ \A i \in 1..Len(ps) : ps[i].end <= e
  <2>1. Seq(Z) \subseteq Seq(X)
    <3> DEFINE hi == e - 1
               hj == packetId
    <3>1. hi \in Int /\ hj \in Int /\ hi <= hj
      BY <1>5, <1>6
    <3> HIDE DEF hi, hj
    <3>2. Seq(SegIn(lo, hi)) \subseteq Seq(SegIn(lo, hj))
      BY <3>1, Wider
    <3> QED  BY <3>2 DEF hi, hj
  <2>2. g.end <= e - 1 /\ g.end \in Nat
    BY <1>6, <1>7, SegFields
  <2>3. ps \in Seq(X)
    BY <1>8, <2>1
  <2>4. \A i \in 1..Len(ps) : ps[i].end \in Nat
    BY <1>5, <2>3, SpanFields
  <2> HIDE DEF X, e, Z
  <2> QED  BY <1>5, <1>8, <2>2, <2>3, <2>4
<1>10. Stream(0)' = S0 \o ps
  <2>1. 0 + 1 = 1
    OBVIOUS
  <2>2. Stream(0)' = net[d1] \o (s.sndQueue \o ps) /\ S0 = net[d1] \o s.sndQueue
    BY <1>2, <1>3, <1>4, <2>1 DEF Stream
  <2>3. net[d1] \o (s.sndQueue \o ps) = (net[d1] \o s.sndQueue) \o ps
    <3> DEFINE a == net[d1]
               q == s.sndQueue
               p == ps
    <3>1. a \in Seq(X) /\ q \in Seq(X) /\ p \in Seq(X)
      BY <1>5, <1>9
    <3> HIDE DEF a, q, p, X
    <3>2. a \o (q \o p) = (a \o q) \o p
      BY <3>1, QueueJoins
    <3> QED  BY <3>2 DEF a, q, p
  <2> QED  BY <2>2, <2>3
<1>11. K >= 2 => Stream(1)' = S1
  <2>1. 1 + 1 = 2
    OBVIOUS
  <2> QED  BY <1>3, <1>4, <2>1 DEF Stream
<1>12. InLine(S0 \o ps, e)
  <2>1. InLine(S0, e)
    BY DEF OrderAt
  <2> HIDE DEF S0, X, e
  <2> QED  BY <1>5, <1>9, <2>1, LineCat
<1>13. ASSUME K >= 2  PROVE ~tcb'[2].straddled /\ Second'
  <2>1. ~tcb[2].straddled /\ InOrder(f, S0, S1, I, Q, h)
    BY <1>13 DEF OrderAt, Second
  <2> HIDE DEF S0, S1, I, Q, h, f, X
  <2>2. InOrder(f, S0 \o ps, S1, Tail(I), Q, h)
    BY <1>1, <1>5, <1>8, <1>9, <1>13, <2>1, OrderAnswer
  <2>3. Second' = InOrder(f, S0 \o ps, S1, Tail(I), Q, h)
    BY <1>3, <1>4, <1>10, <1>11, <1>13 DEF Second, Q, h, f
  <2> QED  BY <1>3, <1>13, <2>1, <2>2, <2>3
<1>14. ~tcb'[0].straddled /\ tcb'[0].next \in {0, packetId'}
  BY <1>1, <1>2, <1>3 DEF OrderAt
<1>15. ~tcb'[1].straddled /\ InLine(Stream(0)', tcb'[1].next)
  BY <1>3, <1>10, <1>12 DEF OrderAt
<1> QED  BY <1>13, <1>14, <1>15 DEF OrderAt

-----------------------------------------------------------------------------
(***************************************************************************)
(* The steps of the first session behind it.                               *)
(***************************************************************************)
Gap(s, g) == g.start > s.next /\ s.next # 0

\* A range that does not straddle next, as a session takes it.
LEMMA InTake ==
  ASSUME NEW lo \in Nat, NEW hi \in Nat, NEW s, SessOK(s, lo, hi), NEW t, SessOK(t, lo, hi),
         NEW g \in SegIn(lo, hi), Arrives(s, t, g), g.end <= s.next \/ s.next <= g.start
  PROVE  /\ t.straddled = s.straddled
         /\ t.next = IF s.next <= g.start THEN g.end ELSE s.next
         /\ Gap(s, g) => BytesIn(t.holes) = BytesIn(s.holes) \cup s.next..(g.start - 1)
         /\ ~Gap(s, g) => BytesIn(t.holes) \subseteq BytesIn(s.holes)
<1> DEFINE e == s.next
           M == MissOf(s.holes)
           N == MissOf(t.holes)
<1>1. /\ e \in Nat /\ g.start \in Nat /\ g.end \in Nat /\ g.start < g.end
      /\ s.straddled \in BOOLEAN /\ t.straddled \in BOOLEAN
      /\ s.holes \in Seq(Hole) /\ t.holes \in Seq(Hole)
  BY SegFields DEF SessOK, Sess
<1>2. BytesIn(s.holes) = {m[1] : m \in M} /\ BytesIn(t.holes) = {m[1] : m \in N}
  BY <1>1, MissBytes
<1>3. CASE g.start = e
  <2>1. t.next = g.end /\ N = M /\ t.straddled = s.straddled /\ ~Gap(s, g)
    BY <1>1, <1>3 DEF Arrives, Gap
  <2> QED  BY <1>1, <1>2, <1>3, <2>1
<1>4. CASE g.start < e
  <2>1. /\ t.next = e /\ N \subseteq M /\ t.straddled = (s.straddled \/ g.end > e)
        /\ ~Gap(s, g)
    BY <1>1, <1>4 DEF Arrives, Gap
  <2>2. ~(g.end > e) /\ ~(e <= g.start)
    BY <1>1, <1>4
  <2>3. t.straddled = s.straddled
    BY <1>1, <2>1, <2>2
  <2>4. BytesIn(t.holes) \subseteq BytesIn(s.holes)
    <3> HIDE DEF M, N
    <3> QED  BY <1>2, <2>1
  <2> QED  BY <2>1, <2>2, <2>3, <2>4
<1>5. CASE g.start > e /\ e = 0
  <2>1. t.next = g.end /\ N = M /\ t.straddled = s.straddled /\ ~Gap(s, g)
    BY <1>1, <1>5 DEF Arrives, Gap
  <2>2. e <= g.start
    BY <1>1, <1>5
  <2> QED  BY <1>1, <1>2, <2>1, <2>2
<1>6. CASE g.start > e /\ e # 0
  <2>1. /\ t.next = g.end /\ N = M \cup ((e..(g.start - 1)) \X {0})
        /\ t.straddled = s.straddled /\ Gap(s, g)
    BY <1>1, <1>6 DEF Arrives, Gap
  <2>2. e <= g.start
    BY <1>1, <1>6
  <2> DEFINE A == e..(g.start - 1)
  <2> HIDE DEF M, N, A
  <2>3. \A x : x \in {m[1] : m \in N} <=> x \in {m[1] : m \in M} \cup A
    <3>1. N = M \cup (A \X {0})
      BY <2>1 DEF A
    <3>2. ASSUME NEW m \in N  PROVE m[1] \in {m1[1] : m1 \in M} \cup A
      BY <3>1
    <3>3. ASSUME NEW x \in A  PROVE x \in {m[1] : m \in N}
      <4>1. <<x, 0>> \in N /\ <<x, 0>>[1] = x
        BY <3>1
      <4> QED  BY <4>1
    <3>4. \A m \in M : m \in N
      BY <3>1
    <3> QED  BY <3>2, <3>3, <3>4
  <2>4. BytesIn(t.holes) = BytesIn(s.holes) \cup A
    BY <1>2, <2>3
  <2> QED  BY <2>1, <2>2, <2>4 DEF A
<1> QED  BY <1>1, <1>3, <1>4, <1>5, <1>6

\* What the second session may still see is behind what the first has passed.
LEMMA BehindSecond ==
  ASSUME NEW lo \in Nat, PathInvAt(lo), OrderAt, BehindAt(lo, 1), K >= 2,
         NEW e, e = tcb[1].next
  PROVE  /\ tcb[2].next <= e /\ Stream(1) \in Seq(SegIn(lo, e))
         /\ \A i \in 1..Len(Stream(1)) : Stream(1)[i].end <= e
         /\ \A i \in 1..Len(net[<<"int", 1>>]) : net[<<"int", 1>>][i].end < e
         /\ \A x \in Nat : x \in BytesIn(tcb[1].intQueue) \cup BytesIn(tcb[1].holes) => x + 1 < e
<1> DEFINE S1 == Stream(1)
           I == net[<<"int", 1>>]
           Q == tcb[1].intQueue
           H == tcb[1].holes
           d == e - 1
<1>1. 1 \in 1..K /\ 2 \in 1..K /\ 1 \in 1..(K - 1) /\ 1 # K /\ 1 + 1 = 2
  BY NearNodes
<1>2. e \in Nat /\ BehindBy(lo, 1, e) /\ I \in Seq(SegIn(lo, d)) /\ Below(tcb[1], lo, 1, e)
  BY <1>1, BehindInts DEF OrderAt
<1>3. d \in Int /\ d < e
  BY <1>2
<1>4. tcb[2].next <= e /\ net[<<"data", 2>>] \in Seq(SegIn(lo, e))
  BY <1>1, <1>2 DEF BehindBy, Below
<1>5. tcb[1].sndQueue \in Seq(SegIn(lo, e)) /\ Q \in Seq(RngIn(lo, d))
  BY <1>1, <1>2 DEF Below
<1>6. S1 \in Seq(SegIn(lo, e))
  <2> DEFINE X == SegIn(lo, e)
             a == net[<<"data", 2>>]
             b == tcb[1].sndQueue
  <2>1. a \in Seq(X) /\ b \in Seq(X)
    BY <1>4, <1>5
  <2>2. S1 = a \o b
    BY <1>1 DEF Stream
  <2> HIDE DEF X, a, b, S1
  <2>3. S1 \in Seq(X)
    BY <2>1, <2>2
  <2> QED  BY <2>3 DEF X
<1>7. HolesOK(H, lo, d)
  BY NearNodes DEF PathInvAt, SessOK
<1> HIDE DEF S1, I, Q, H, d
<1>8. RangesOK(S1, lo, e)
  BY <1>2, <1>6, SegInOK
<1>9. RangesOK(I, lo, d)
  BY <1>2, <1>3, SegInOK
<1>10. RangesOK(Q, lo, d)
  BY <1>3, <1>5, RngInOK
<1>11. RangesOK(H, lo, d)
  BY <1>3, <1>7, HolesRanges
<1>12. \A i \in 1..Len(S1) : S1[i].end <= e
  BY <1>8 DEF RangesOK
<1>13. \A i \in 1..Len(I) : I[i].end < e
  BY <1>2, <1>3, <1>9 DEF RangesOK
<1>14. \A x \in Nat : x \in BytesIn(Q) \cup BytesIn(H) => x < d
  BY <1>3, <1>10, <1>11, BytesBelow
<1>15. \A x \in Nat : x < d => x + 1 < e
  BY <1>2 DEF d
<1> QED  BY <1>4, <1>6, <1>12, <1>13, <1>14, <1>15 DEF S1, I, Q, H

\* The first session behind the ground station takes a range.
LEMMA OrderTake1 ==
  ASSUME NEW lo \in Nat, PathInvAt(lo), PathInvAt(lo)', OrderAt, BehindAt(lo, 1),
         NEW g, NEW t, Received(1, lo, g, t)
  PROVE  OrderAt'
<1> DEFINE d1 == <<"data", 1>>
           d2 == <<"data", 2>>
           i1 == <<"int", 1>>
           s == tcb[1]
           X == SegIn(lo, packetId)
           S0 == Stream(0)
           S1 == Stream(1)
           I == net[i1]
           Q == s.intQueue
           h == BytesIn(s.holes)
           k == BytesIn(t.holes)
           e == s.next
           f == tcb[2].next
           r == Seg("header", ByteRange(e, g.start))
<1>1. /\ net[d1] # <<>> /\ g = Head(net[d1]) /\ net' = [net EXCEPT ![d1] = Tail(@)]
      /\ tcb' = [tcb EXCEPT ![1] = t] /\ packetId' = packetId
      /\ g \in X /\ SessOK(t, lo, packetId) /\ Taken(1, s, g, t, lo)
  BY DEF Received
<1>2. 0 + 1 = 1 /\ 1 + 1 = 2
  OBVIOUS
<1>3. /\ tcb'[0] = tcb[0] /\ tcb'[1] = t /\ (K >= 2 => tcb'[2] = tcb[2])
  <2>1. \A m \in Nodes : tcb'[m] = IF m = 1 THEN t ELSE tcb[m]
    <3> DEFINE p == 1
    <3>1. p \in Nodes /\ tcb' = [tcb EXCEPT ![p] = t]
      BY <1>1, NearNodes
    <3> HIDE DEF p
    <3>2. \A m \in Nodes : tcb'[m] = IF m = p THEN t ELSE tcb[m]
      BY <3>1, OneOf
    <3> QED  BY <3>2 DEF p
  <2> QED  BY <2>1, NearNodes
<1>4. net'[d1] = Tail(net[d1]) /\ net'[i1] = I /\ (K >= 2 => net'[d2] = net[d2])
  <2>1. \A c \in Links : net'[c] = IF c = d1 THEN Tail(net[d1]) ELSE net[c]
    <3>1. d1 \in Links /\ net' = [net EXCEPT ![d1] = Tail(net[d1])]
      BY <1>1, NearNodes
    <3> HIDE DEF d1
    <3> QED  BY <3>1, NetOf
  <2>2. d1 # i1 /\ d1 # d2
    OBVIOUS
  <2> QED  BY <2>1, <2>2, NearNodes
<1>5. /\ S0 \in Seq(X) /\ (K >= 2 => S1 \in Seq(X)) /\ I \in Seq(X) /\ Q \in Seq(Rng)
      /\ e \in Nat /\ (K >= 2 => f \in Nat) /\ packetId \in Nat
      /\ net[d1] \in Seq(X) /\ tcb[0].sndQueue \in Seq(X)
      /\ (K >= 2 => net[d2] \in Seq(X) /\ s.sndQueue \in Seq(X))
      /\ h \in SUBSET Nat /\ Spans(X) /\ Spans(Rng)
  BY StreamIs DEF PartsOK, Stream, StreamOf
<1>6. SessOK(s, lo, packetId)
  BY NearNodes DEF PathInvAt
<1>7. /\ S0 # <<>> /\ g = Head(S0) /\ Stream(0)' = Tail(S0)
  <2> DEFINE a == net[d1]
             q == tcb[0].sndQueue
  <2>1. S0 = a \o q /\ Stream(0)' = Tail(a) \o q
    BY <1>2, <1>3, <1>4 DEF Stream
  <2>2. a \in Seq(X) /\ q \in Seq(X) /\ a # <<>> /\ g = Head(a)
    BY <1>1, <1>5
  <2> HIDE DEF a, q, X, S0
  <2>3. a \o q # <<>> /\ Head(a \o q) = Head(a) /\ Tail(a \o q) = Tail(a) \o q
    BY <2>2, QueueMoves
  <2> QED  BY <2>1, <2>2, <2>3
<1>8. /\ g.end <= e \/ e <= g.start
      /\ InLine(Tail(S0), IF e <= g.start THEN g.end ELSE e)
  <2>1. InLine(S0, e)
    BY DEF OrderAt
  <2> HIDE DEF S0, e, X
  <2> QED  BY <1>5, <1>7, <2>1, LineOn
<1>9. /\ t.straddled = s.straddled
      /\ t.next = (IF e <= g.start THEN g.end ELSE e)
      /\ Gap(s, g) => k = h \cup e..(g.start - 1)
      /\ ~Gap(s, g) => k \subseteq h
  <2>1. Arrives(s, t, g) /\ SessOK(t, lo, packetId) /\ g \in SegIn(lo, packetId)
    BY <1>1 DEF Taken
  <2>2. g.end <= s.next \/ s.next <= g.start
    BY <1>8
  <2>3. packetId \in Nat /\ SessOK(s, lo, packetId)
    BY <1>5, <1>6
  <2> HIDE DEF s
  <2>4. /\ t.straddled = s.straddled
        /\ t.next = IF s.next <= g.start THEN g.end ELSE s.next
        /\ Gap(s, g) => BytesIn(t.holes) = BytesIn(s.holes) \cup s.next..(g.start - 1)
        /\ ~Gap(s, g) => BytesIn(t.holes) \subseteq BytesIn(s.holes)
    BY <2>1, <2>2, <2>3, InTake
  <2> QED  BY <2>4
<1>10. t.intQueue = Q
  BY <1>1 DEF Taken
<1>11. ASSUME K >= 2
       PROVE  Stream(1)' = IF Gap(s, g) THEN Append(Append(S1, r), g) ELSE Append(S1, g)
  <2>1. IsMidnode(1) /\ 1 # K
    BY <1>11, NearNodes DEF IsMidnode
  <2> DEFINE a == net[d2]
             q == s.sndQueue
  <2>2. t.sndQueue = Append(IF Gap(s, g) THEN Append(q, r) ELSE q, g)
    BY <1>1, <2>1 DEF Taken, Announced, Gap
  <2>3. S1 = a \o q /\ Stream(1)' = a \o t.sndQueue
    BY <1>2, <1>3, <1>4, <1>11 DEF Stream
  <2>4. a \in Seq(X) /\ q \in Seq(X) /\ g \in X
    BY <1>1, <1>5, <1>11
  <2>5. Gap(s, g) => r \in X
    <3>1. /\ g.start \in Nat /\ g.end \in Nat /\ g.start < g.end /\ g.end <= packetId
      BY <1>1, <1>5, SegFields
    <3>2. lo <= e \/ e = 0
      BY <1>6 DEF SessOK
    <3>3. Gap(s, g) => e \in Nat /\ e < g.start /\ lo <= e /\ g.start <= packetId
      BY <1>5, <3>1, <3>2 DEF Gap
    <3>4. r = [kind |-> "header", start |-> e, end |-> g.start]
      BY DEF Seg, ByteRange
    <3> QED  BY <3>1, <3>3, <3>4 DEF SegIn, Kinds
  <2> HIDE DEF a, q, X, S1, r
  <2>6. /\ a \o Append(q, g) = Append(a \o q, g)
        /\ Gap(s, g) => a \o Append(q, r) = Append(a \o q, r)
    BY <2>4, <2>5, QueueMoves
  <2>7. Gap(s, g) => a \o Append(Append(q, r), g) = Append(a \o Append(q, r), g)
    <3>1. Gap(s, g) => Append(q, r) \in Seq(X)
      BY <2>4, <2>5
    <3> QED  BY <2>4, <3>1, QueueMoves
  <2> QED  BY <2>2, <2>3, <2>6, <2>7
<1>12. ASSUME K >= 2  PROVE ~tcb'[2].straddled /\ Second'
  <2>1. ~tcb[2].straddled /\ InOrder(f, S0, S1, I, Q, h)
    BY <1>12 DEF OrderAt, Second
  <2>2. Second' = InOrder(f, Stream(0)', Stream(1)', I, Q, k)
    BY <1>3, <1>4, <1>10, <1>12 DEF Second
  <2>3. f \in Nat /\ S1 \in Seq(X)
    BY <1>5, <1>12
  <2>4. CASE Gap(s, g)
    <3>1. /\ f <= e /\ \A i \in 1..Len(S1) : S1[i].end <= e
          /\ \A i \in 1..Len(I) : I[i].end < e
          /\ \A x \in Nat : x \in BytesIn(Q) \cup h => x + 1 < e
      BY <1>12, BehindSecond
    <3>2. r \in X /\ r.start = e /\ r.end = g.start /\ e < g.start
      <4>1. /\ g.start \in Nat /\ g.end \in Nat /\ g.start < g.end /\ g.end <= packetId
        BY <1>1, <1>5, SegFields
      <4>2. lo <= e \/ e = 0
        BY <1>6 DEF SessOK
      <4>3. e \in Nat /\ e < g.start /\ lo <= e /\ g.start <= packetId
        BY <1>5, <2>4, <4>1, <4>2 DEF Gap
      <4>4. r = [kind |-> "header", start |-> e, end |-> g.start]
        BY DEF Seg, ByteRange
      <4> QED  BY <4>1, <4>3, <4>4 DEF SegIn, Kinds
    <3>3. InLine(S0, e)
      BY DEF OrderAt
    <3>4. Stream(1)' = Append(Append(S1, r), g) /\ k = h \cup e..(g.start - 1)
      BY <1>9, <1>11, <1>12, <2>4
    <3> HIDE DEF S0, S1, I, Q, h, k, e, f, r, X
    <3>5. InOrder(f, Tail(S0), Append(Append(S1, r), g), I, Q, h \cup e..(g.start - 1))
      BY <1>5, <1>7, <2>1, <2>3, <3>1, <3>2, <3>3, OrderGap
    <3> QED  BY <1>3, <1>7, <1>12, <2>1, <2>2, <3>4, <3>5
  <2>5. CASE ~Gap(s, g)
    <3>1. Stream(1)' = Append(S1, g) /\ k \subseteq h
      BY <1>9, <1>11, <1>12, <2>5
    <3> DEFINE T0 == Tail(S0)
               T1 == Append(S1, g)
    <3> HIDE DEF S0, S1, I, Q, h, k, e, f, X
    <3>2. InOrder(f, T0, T1, I, Q, h)
      BY <1>5, <1>7, <2>1, <2>3, OrderPass
    <3>3. T0 \in Seq(X) /\ T1 \in Seq(X)
      <4>1. Tail(S0) \in Seq(X)
        BY <1>5, <1>7, HeadTail
      <4> QED  BY <1>1, <2>3, <4>1
    <3> HIDE DEF T0, T1
    <3>4. Thins(T0, T0) /\ Thins(T1, T1) /\ Thins(I, I)
      BY <1>5, <3>3, ThinParts
    <3>5. k \in SUBSET h
      BY <3>1
    <3>6. InOrder(f, T0, T1, I, Q, k)
      BY <1>5, <2>3, <3>2, <3>3, <3>4, <3>5, OrderLess
    <3>7. Stream(0)' = T0 /\ Stream(1)' = T1
      BY <1>7, <3>1 DEF T0, T1
    <3> QED  BY <1>3, <1>12, <2>1, <2>2, <3>6, <3>7
  <2> QED  BY <2>4, <2>5
<1>13. ~tcb'[0].straddled /\ tcb'[0].next \in {0, packetId'}
  BY <1>1, <1>3 DEF OrderAt
<1>14. ~tcb'[1].straddled /\ InLine(Stream(0)', tcb'[1].next)
  BY <1>3, <1>7, <1>8, <1>9 DEF OrderAt
<1> QED  BY <1>12, <1>13, <1>14 DEF OrderAt

-----------------------------------------------------------------------------
(***************************************************************************)
(* The second session behind it, and the interests of that one.            *)
(***************************************************************************)
\* The second session behind the ground station takes a range.
LEMMA OrderTake2 ==
  ASSUME NEW lo \in Nat, PathInvAt(lo), PathInvAt(lo)', OrderAt, K >= 2,
         NEW g, NEW t, Received(2, lo, g, t)
  PROVE  OrderAt'
<1> DEFINE d1 == <<"data", 1>>
           d2 == <<"data", 2>>
           i1 == <<"int", 1>>
           s == tcb[2]
           X == SegIn(lo, packetId)
           S0 == Stream(0)
           S1 == Stream(1)
           I == net[i1]
           Q == tcb[1].intQueue
           h == BytesIn(tcb[1].holes)
           f == s.next
           e == IF f <= g.start THEN g.end ELSE f
<1>1. /\ net[d2] # <<>> /\ g = Head(net[d2]) /\ net' = [net EXCEPT ![d2] = Tail(@)]
      /\ tcb' = [tcb EXCEPT ![2] = t] /\ packetId' = packetId
      /\ g \in X /\ SessOK(t, lo, packetId) /\ Arrives(s, t, g)
  BY DEF Received, Taken
<1>2. 0 + 1 = 1 /\ 1 + 1 = 2
  OBVIOUS
<1>3. tcb'[0] = tcb[0] /\ tcb'[1] = tcb[1] /\ tcb'[2] = t
  <2> DEFINE p == 2
  <2>1. p \in Nodes /\ tcb' = [tcb EXCEPT ![p] = t]
    BY <1>1, NearNodes
  <2> HIDE DEF p
  <2>2. \A m \in Nodes : tcb'[m] = IF m = p THEN t ELSE tcb[m]
    BY <2>1, OneOf
  <2> QED  BY <2>2, NearNodes DEF p
<1>4. net'[d1] = net[d1] /\ net'[i1] = I /\ net'[d2] = Tail(net[d2])
  <2>1. \A c \in Links : net'[c] = IF c = d2 THEN Tail(net[d2]) ELSE net[c]
    <3>1. d2 \in Links /\ net' = [net EXCEPT ![d2] = Tail(net[d2])]
      BY <1>1, NearNodes
    <3> HIDE DEF d2
    <3> QED  BY <3>1, NetOf
  <2>2. d1 # d2 /\ i1 # d2
    OBVIOUS
  <2> QED  BY <2>1, <2>2, NearNodes
<1>5. /\ S0 \in Seq(X) /\ S1 \in Seq(X) /\ I \in Seq(X) /\ Q \in Seq(Rng)
      /\ f \in Nat /\ packetId \in Nat /\ net[d2] \in Seq(X) /\ tcb[1].sndQueue \in Seq(X)
      /\ Spans(X) /\ Spans(Rng)
  BY StreamIs DEF PartsOK, Stream, StreamOf
<1>6. S1 # <<>> /\ g = Head(S1) /\ Stream(1)' = Tail(S1)
  <2> DEFINE a == net[d2]
             q == tcb[1].sndQueue
  <2>1. S1 = a \o q /\ Stream(1)' = Tail(a) \o q
    BY <1>2, <1>3, <1>4 DEF Stream
  <2>2. a \in Seq(X) /\ q \in Seq(X) /\ a # <<>> /\ g = Head(a)
    BY <1>1, <1>5
  <2> HIDE DEF a, q, X, S1
  <2>3. a \o q # <<>> /\ Head(a \o q) = Head(a) /\ Tail(a \o q) = Tail(a) \o q
    BY <2>2, QueueMoves
  <2> QED  BY <2>1, <2>2, <2>3
<1>7. Stream(0)' = S0
  BY <1>2, <1>3, <1>4 DEF Stream
<1>8. ~s.straddled /\ InOrder(f, S0, S1, I, Q, h)
  BY DEF OrderAt, Second
<1>9. ~Straddles(g, f) /\ InOrder(e, S0, Tail(S1), I, Q, h)
  <2>1. e = IF f <= g.start THEN g.end ELSE f
    OBVIOUS
  <2> HIDE DEF e, f, S0, S1, I, Q, h, X
  <2> QED  BY <1>5, <1>6, <1>8, <2>1, OrderOn
<1>10. t.straddled = s.straddled /\ t.next = e
  <2>1. SessOK(s, lo, packetId)
    BY NearNodes DEF PathInvAt
  <2>2. g.start \in Nat /\ g.end \in Nat /\ g.start < g.end
    BY <1>1, <1>5, SegFields
  <2>3. g.end <= s.next \/ s.next <= g.start
    BY <1>5, <1>9, <2>2 DEF Straddles
  <2>4. Arrives(s, t, g) /\ SessOK(t, lo, packetId) /\ g \in SegIn(lo, packetId) /\ packetId \in Nat
    BY <1>1, <1>5
  <2> HIDE DEF s
  <2>5. t.straddled = s.straddled /\ t.next = IF s.next <= g.start THEN g.end ELSE s.next
    BY <2>1, <2>3, <2>4, InTake
  <2> QED  BY <2>5
<1>11. ~tcb'[2].straddled /\ Second'
  <2>1. Second' = InOrder(t.next, Stream(0)', Stream(1)', I, Q, h)
    BY <1>3, <1>4 DEF Second
  <2> HIDE DEF e, f, S0, S1, I, Q, h, X
  <2> QED  BY <1>3, <1>6, <1>7, <1>8, <1>9, <1>10, <2>1
<1>12. ~tcb'[0].straddled /\ tcb'[0].next \in {0, packetId'}
  BY <1>1, <1>3 DEF OrderAt
<1>13. ~tcb'[1].straddled /\ InLine(Stream(0)', tcb'[1].next)
  BY <1>3, <1>7 DEF OrderAt
<1> QED  BY <1>11, <1>12, <1>13 DEF OrderAt

\* What a midnode cannot answer of one interest.
LEMMA RestOfOne ==
  ASSUME NEW held, NEW lo \in Nat, NEW hi \in Int, NEW g \in SegIn(lo, hi),
         NEW rs, rs = RestFor(held, <<g>>)
  PROVE  rs \in Seq(RngIn(lo, hi)) /\ rs \in Seq(Rng) /\ \A i \in 1..Len(rs) : rs[i].end <= hi
<1> DEFINE gs == <<g>>
<1>1. RangesOK(gs, lo, hi)
  BY OneRange
<1> HIDE DEF gs
<1>2. rs = RestFor(held, gs)
  BY DEF gs
<1>3. rs \in Seq(RngIn(lo, hi))
  BY <1>1, <1>2, RestForIs
<1>4. RangesOK(rs, lo, hi) /\ rs \in Seq(Rng)
  BY <1>3, RngInOK
<1> QED  BY <1>3, <1>4 DEF RangesOK

\* An interest reaches the first session behind the ground station.
LEMMA OrderAsk1 ==
  ASSUME NEW lo \in Nat, PathInvAt(lo), PathInvAt(lo)', OrderAt, K >= 2, BehindAt(lo, 2),
         NEW g, NEW t, Asks(1, lo, g, t)
  PROVE  OrderAt'
<1> DEFINE d1 == <<"data", 1>>
           d2 == <<"data", 2>>
           i1 == <<"int", 1>>
           i2 == <<"int", 2>>
           s == tcb[1]
           X == SegIn(lo, packetId)
           S0 == Stream(0)
           S1 == Stream(1)
           I == net[i1]
           Q == s.intQueue
           h == BytesIn(s.holes)
           f == tcb[2].next
           Z == SegIn(lo, f - 1)
           ps == Segs("data", SentFor(cache[1], <<g>>))
           rs == RestFor(cache[1], <<g>>)
<1>1. /\ net[i2] # <<>> /\ g = Head(net[i2]) /\ net' = [net EXCEPT ![i2] = Tail(@)]
      /\ tcb' = [tcb EXCEPT ![1] = t] /\ packetId' = packetId
  <2>1. 1 + 1 = 2
    OBVIOUS
  <2> QED  BY <2>1 DEF Asks
<1>2. /\ t.next = s.next /\ t.straddled = s.straddled /\ t.sndQueue = s.sndQueue \o ps
      /\ t.intQueue = Q \o rs /\ t.holes = s.holes
  <2>1. 1 # 0
    OBVIOUS
  <2> QED  BY <2>1 DEF Asks, Served
<1>3. tcb'[0] = tcb[0] /\ tcb'[1] = t /\ tcb'[2] = tcb[2]
  <2> DEFINE p == 1
  <2>1. p \in Nodes /\ tcb' = [tcb EXCEPT ![p] = t]
    BY <1>1, NearNodes
  <2> HIDE DEF p
  <2>2. \A m \in Nodes : tcb'[m] = IF m = p THEN t ELSE tcb[m]
    BY <2>1, OneOf
  <2> QED  BY <2>2, NearNodes DEF p
<1>4. net'[i1] = I /\ net'[d1] = net[d1] /\ net'[d2] = net[d2]
  <2>1. \A c \in Links : net'[c] = IF c = i2 THEN Tail(net[i2]) ELSE net[c]
    <3>1. i2 \in Links /\ net' = [net EXCEPT ![i2] = Tail(net[i2])]
      BY <1>1, NearNodes
    <3> HIDE DEF i2
    <3> QED  BY <3>1, NetOf
  <2>2. d1 # i2 /\ d2 # i2 /\ i1 # i2
    OBVIOUS
  <2> QED  BY <2>1, <2>2, NearNodes
<1>5. /\ S0 \in Seq(X) /\ S1 \in Seq(X) /\ I \in Seq(X) /\ Q \in Seq(Rng)
      /\ f \in Nat /\ f <= packetId /\ packetId \in Nat
      /\ net[d2] \in Seq(X) /\ s.sndQueue \in Seq(X) /\ Spans(X) /\ Spans(Rng)
  BY StreamIs DEF PartsOK, Stream, StreamOf
<1>6. net[i2] \in Seq(Z) /\ f - 1 \in Int /\ f - 1 <= packetId
  <2>1. ~tcb[2].straddled /\ 2 \in 1..K
    BY NearNodes DEF OrderAt
  <2> DEFINE n == 2
  <2>2. n \in 1..K /\ BehindAt(lo, n) /\ ~tcb[n].straddled
    BY <2>1
  <2> HIDE DEF n
  <2>3. \A x : x = tcb[n].next => net[<<"int", n>>] \in Seq(SegIn(lo, x - 1))
    BY <2>2, BehindInts
  <2>4. net[i2] \in Seq(Z)
    BY <2>3 DEF n
  <2> QED  BY <1>5, <2>4
<1>7. g \in Z
  <2> DEFINE J == net[i2]
  <2>1. J \in Seq(Z) /\ J # <<>> /\ g = Head(J)
    BY <1>1, <1>6
  <2> HIDE DEF J, Z
  <2> QED  BY <2>1, HeadTail
<1>8. /\ ps \in Seq(Z) /\ (\A i \in 1..Len(ps) : ps[i].end <= g.end)
      /\ rs \in Seq(Rng) /\ (\A i \in 1..Len(rs) : rs[i].end <= f - 1)
  <2> DEFINE hi == f - 1
  <2>1. hi \in Int /\ g \in SegIn(lo, hi)
    BY <1>6, <1>7
  <2>2. ps = Segs("data", SentFor(cache[1], <<g>>)) /\ rs = RestFor(cache[1], <<g>>)
    OBVIOUS
  <2> HIDE DEF hi, ps, rs, f
  <2>3. ps \in Seq(SegIn(lo, hi)) /\ \A i \in 1..Len(ps) : ps[i].end <= g.end
    BY <2>1, <2>2, AnswersTo
  <2>4. rs \in Seq(Rng) /\ \A i \in 1..Len(rs) : rs[i].end <= hi
    BY <2>1, <2>2, RestOfOne
  <2> QED  BY <2>3, <2>4 DEF hi
<1> HIDE DEF ps, rs
<1>9. ps \in Seq(X) /\ \A i \in 1..Len(ps) : ps[i].end <= f
  <2>1. Seq(Z) \subseteq Seq(X)
    <3> DEFINE hi == f - 1
               hj == packetId
    <3>1. hi \in Int /\ hj \in Int /\ hi <= hj
      BY <1>5, <1>6
    <3> HIDE DEF hi, hj
    <3>2. Seq(SegIn(lo, hi)) \subseteq Seq(SegIn(lo, hj))
      BY <3>1, Wider
    <3> QED  BY <3>2 DEF hi, hj
  <2>2. g.end <= f - 1 /\ g.end \in Nat
    BY <1>6, <1>7, SegFields
  <2>3. ps \in Seq(X)
    BY <1>8, <2>1
  <2>4. \A i \in 1..Len(ps) : ps[i].end \in Nat
    BY <1>5, <2>3, SpanFields
  <2> HIDE DEF X, f, Z
  <2> QED  BY <1>5, <1>8, <2>2, <2>3, <2>4
<1>10. \A i \in 1..Len(rs) : rs[i].end < f
  <2>1. \A i \in 1..Len(rs) : rs[i].end \in Nat
    BY <1>5, <1>8, SpanFields
  <2> HIDE DEF f
  <2> QED  BY <1>5, <1>8, <2>1
<1>11. Stream(1)' = S1 \o ps
  <2> DEFINE a == net[d2]
             q == s.sndQueue
             p == ps
  <2>1. 1 + 1 = 2
    OBVIOUS
  <2>2. Stream(1)' = a \o (q \o p) /\ S1 = a \o q
    BY <1>2, <1>3, <1>4, <2>1 DEF Stream
  <2>3. a \in Seq(X) /\ q \in Seq(X) /\ p \in Seq(X)
    BY <1>5, <1>9
  <2> HIDE DEF a, q, p, X
  <2>4. a \o (q \o p) = (a \o q) \o p
    BY <2>3, QueueJoins
  <2> QED  BY <2>2, <2>4 DEF p
<1>12. Stream(0)' = S0
  <2>1. 0 + 1 = 1
    OBVIOUS
  <2> QED  BY <1>3, <1>4, <2>1 DEF Stream
<1>13. ~tcb'[2].straddled /\ Second'
  <2>1. ~tcb[2].straddled /\ InOrder(f, S0, S1, I, Q, h)
    BY DEF OrderAt, Second
  <2>2. Second' = InOrder(f, Stream(0)', Stream(1)', I, t.intQueue, h)
    BY <1>2, <1>3, <1>4 DEF Second
  <2> HIDE DEF S0, S1, I, Q, h, f, X
  <2>3. InOrder(f, S0, S1 \o ps, I, Q \o rs, h)
    BY <1>5, <1>8, <1>9, <1>10, <2>1, OrderServe
  <2> QED  BY <1>2, <1>3, <1>11, <1>12, <2>1, <2>2, <2>3
<1>14. ~tcb'[0].straddled /\ tcb'[0].next \in {0, packetId'}
  BY <1>1, <1>3 DEF OrderAt
<1>15. ~tcb'[1].straddled /\ InLine(Stream(0)', tcb'[1].next)
  BY <1>2, <1>3, <1>12 DEF OrderAt
<1> QED  BY <1>13, <1>14, <1>15 DEF OrderAt

-----------------------------------------------------------------------------
(***************************************************************************)
(* The flush of the first.                                                 *)
(***************************************************************************)
\* A flush asks for bytes it then no longer waits for.
LEMMA RipeApart ==
  ASSUME NEW lo \in Nat, NEW e \in Int, NEW H, HolesOK(H, lo, e), NEW wait \in Nat,
         NEW R, R = RipeHoles(H, wait), NEW Y, Y = YoungHoles(H, wait)
  PROVE  /\ HolesOK(R, lo, e) /\ HolesOK(Y, lo, e)
         /\ BytesIn(R) \subseteq BytesIn(H) /\ BytesIn(Y) \subseteq BytesIn(H)
         /\ BytesIn(R) \cap BytesIn(Y) = {}
<1> DEFINE M == MissOf(H)
           ripe == {m \in M : m[2] >= wait}
<1>1. /\ HolesOK(R, lo, e) /\ HolesOK(Y, lo, e)
      /\ MissOf(R) = ripe /\ MissOf(Y) = M \ ripe
  BY RipeIs
<1>2. H \in Seq(Hole) /\ Sorted(H) /\ R \in Seq(Hole) /\ Y \in Seq(Hole)
  BY <1>1 DEF HolesOK
<1>3. /\ BytesIn(H) = {m[1] : m \in M} /\ BytesIn(R) = {m[1] : m \in ripe}
      /\ BytesIn(Y) = {m[1] : m \in M \ ripe}
  BY <1>1, <1>2, MissBytes
<1>4. \A m1, m2 \in M : m1[1] = m2[1] => m1 = m2
  <2> SUFFICES ASSUME NEW m1 \in M, NEW m2 \in M, m1[1] = m2[1]  PROVE m1 = m2
    OBVIOUS
  <2>1. PICK i \in 1..Len(H) : \E x \in Nat : In(H[i], x) /\ m1 = <<x, H[i].age>>
    BY <1>2, MissIs
  <2>2. PICK x \in Nat : In(H[i], x) /\ m1 = <<x, H[i].age>>
    BY <2>1
  <2>3. PICK j \in 1..Len(H) : \E y \in Nat : In(H[j], y) /\ m2 = <<y, H[j].age>>
    BY <1>2, MissIs
  <2>4. PICK y \in Nat : In(H[j], y) /\ m2 = <<y, H[j].age>>
    BY <2>3
  <2>5. x = y
    BY <2>2, <2>4
  <2>6. i = j
    BY <1>2, <2>2, <2>4, <2>5, OneHole
  <2> QED  BY <2>2, <2>4, <2>5, <2>6
<1>5. ripe \subseteq M
  OBVIOUS
<1> HIDE DEF M, ripe
<1> QED  BY <1>1, <1>3, <1>4, <1>5

\* A flush of a midnode: what it asks for is not cached, so it answers nothing;
\* what it asks for and what it still waits for lay in its holes, apart.
MidFlushed(s, u, is, f, X) ==
  /\ u.sndQueue = s.sndQueue
  /\ is \in Seq(X) /\ Once(is, f) /\ BytesIn(is) = BytesIn(s.intQueue)
  /\ u.intQueue \in Seq(Rng) /\ Once(u.intQueue, f)
  /\ BytesIn(u.intQueue) \subseteq BytesIn(s.holes)
  /\ BytesIn(u.holes) \subseteq BytesIn(s.holes)
  /\ Apart(f, BytesIn(u.intQueue), BytesIn(u.holes))

LEMMA MidFlush ==
  ASSUME NEW lo \in Nat, NEW hi \in Nat, 1 # K, NEW s, s = tcb[1], SessOK(s, lo, hi),
         SeenOK(s), ~s.straddled, cache[1] \subseteq s.seen,
         NEW u, Queued(1, s, u), ForwardedInts(1) \in Seq(RngIn(lo, hi)),
         NEW f, Once(s.intQueue, f)
  PROVE  MidFlushed(s, u, OutputInts(1), f, SegIn(lo, hi))
<1> DEFINE F == ForwardedInts(1)
           H == OpenHoles(1)
           R == RipeHoles(H, HoleWait)
           Y == YoungHoles(H, HoleWait)
           d == s.next - 1
           held == cache[1]
           h == BytesIn(s.holes)
<1>1. /\ s.holes \in Seq(Hole) /\ s.next \in Nat /\ d \in Int /\ d <= hi
      /\ HolesOK(s.holes, lo, d) /\ s.intQueue \in Seq(RngIn(lo, hi))
      /\ s.sndQueue \in Seq(SegIn(lo, hi))
  BY DEF SessOK, Sess
<1>2. F = FlushIntQueue(s.intQueue) /\ OutputInts(1) = Segs("int", F) /\ H = DeleteDataHoles(s.holes, F)
  BY DEF ForwardedInts, OutputInts, OpenHoles
<1>3. /\ u.holes = Y /\ u.sndQueue = s.sndQueue \o Segs("data", SentFor(held, R))
      /\ u.intQueue = RestFor(held, R)
  BY DEF Queued
<1> HIDE DEF F, H, R, Y, d, held, h
<1>4. F \in Seq(RngIn(lo, hi)) /\ F \in Seq(Rng) /\ RangesOK(F, lo, hi)
      /\ s.intQueue \in Seq(Rng)
  <2>1. F \in Seq(RngIn(lo, hi))
    BY DEF F
  <2>2. hi \in Int
    OBVIOUS
  <2>3. RangesOK(F, lo, hi) /\ F \in Seq(Rng)
    BY <2>1, <2>2, RngInOK
  <2> DEFINE q == s.intQueue
  <2>4. q \in Seq(RngIn(lo, hi))
    BY <1>1
  <2> HIDE DEF q
  <2>5. q \in Seq(Rng)
    BY <2>2, <2>4, RngInOK
  <2> QED  BY <2>1, <2>3, <2>5 DEF q
<1>5. OutputInts(1) \in Seq(SegIn(lo, hi)) /\ Once(OutputInts(1), f) /\ BytesIn(OutputInts(1)) = BytesIn(s.intQueue)
  <2>1. Once(F, f)
    BY <1>2, <1>4, FlushQueueOnce
  <2>2. "int" \in Kinds
    BY DEF Kinds
  <2>3. Segs("int", F) \in Seq(SegIn(lo, hi))
    BY <1>4, <2>2, SegsIs
  <2>4. Once(Segs("int", F), f) /\ BytesIn(Segs("int", F)) = BytesIn(F)
    BY <1>4, <2>1, <2>2, SegsOnce
  <2>5. BytesIn(F) = BytesIn(s.intQueue)
    <3> DEFINE q == s.intQueue
    <3>1. q \in Seq(RngIn(lo, hi)) /\ hi \in Int /\ F = FlushIntQueue(q)
      BY <1>1, <1>2
    <3> HIDE DEF q
    <3>2. BytesIn(F) = BytesIn(q)
      BY <3>1, FlushQueueIs
    <3> QED  BY <3>2 DEF q
  <2> QED  BY <1>2, <2>3, <2>4, <2>5
<1>6. HolesOK(H, lo, d) /\ MissOf(H) \subseteq MissOf(s.holes)
  <2>1. HolesOK(H, lo, d) /\ MissOf(H) = {m \in MissOf(s.holes) : m[1] \notin BytesIn(F)}
    BY <1>1, <1>2, <1>4, DeleteAllMiss
  <2> QED  BY <2>1
<1>7. BytesIn(H) \subseteq h
  <2>1. H \in Seq(Hole)
    BY <1>6 DEF HolesOK
  <2>2. BytesIn(H) = {m[1] : m \in MissOf(H)} /\ BytesIn(s.holes) = {m[1] : m \in MissOf(s.holes)}
    BY <1>1, <2>1, MissBytes
  <2> QED  BY <1>6, <2>2 DEF h
<1>8. /\ HolesOK(R, lo, d) /\ BytesIn(R) \subseteq h /\ BytesIn(Y) \subseteq h
      /\ BytesIn(R) \cap BytesIn(Y) = {}
  <2>1. R = RipeHoles(H, HoleWait) /\ Y = YoungHoles(H, HoleWait) /\ HoleWait \in Nat
    BY HopChainAssumption DEF R, Y
  <2>2. /\ HolesOK(R, lo, d) /\ BytesIn(R) \subseteq BytesIn(H) /\ BytesIn(Y) \subseteq BytesIn(H)
        /\ BytesIn(R) \cap BytesIn(Y) = {}
    <3>1. HolesOK(H, lo, d) /\ d \in Int
      BY <1>1, <1>6
    <3> QED  BY <2>1, <3>1, RipeApart
  <2> QED  BY <1>7, <2>2
<1>9. RangesOK(R, lo, hi) /\ Once(R, f)
  <2>1. R \in Seq(Hole) /\ Sorted(R)
    BY <1>8 DEF HolesOK
  <2>2. Once(R, f)
    BY <2>1, RngSpans, SortedOnce
  <2>3. RangesOK(R, lo, hi)
    BY <1>1, <1>8, HolesRanges
  <2> QED  BY <2>2, <2>3
<1>10. held \cap BytesIn(R) = {}
  <2>1. held \subseteq s.seen
    BY DEF held
  <2>2. h = {m[1] : m \in MissOf(s.holes)}
    BY <1>1, MissBytes DEF h
  <2>3. \A m \in MissOf(s.holes) : m[1] \notin s.seen
    BY DEF SeenOK
  <2> QED  BY <1>8, <2>1, <2>2, <2>3
<1>11. u.sndQueue = s.sndQueue
  <2>1. SentFor(held, R) = <<>>
    BY <1>9, <1>10, NothingSent
  <2>2. Segs("data", <<>>) = <<>>
    BY DEF Segs
  <2> QED  BY <1>1, <1>3, <2>1, <2>2
<1>12. u.intQueue \in Seq(Rng) /\ Once(u.intQueue, f) /\ BytesIn(u.intQueue) \subseteq BytesIn(R)
  <2> DEFINE rs == RestFor(held, R)
  <2>0. RangesOK(R, lo, hi) /\ hi \in Int /\ Once(R, f)
    BY <1>9
  <2>1. rs \in Seq(RngIn(lo, hi))
    BY <2>0, RestForIs
  <2>3. Once(rs, f) /\ BytesIn(rs) \subseteq BytesIn(R)
    BY <2>0, AnswerOnce
  <2>4. u.intQueue = rs
    BY <1>3
  <2> HIDE DEF rs
  <2>2. rs \in Seq(Rng)
    BY <2>0, <2>1, RngInOK
  <2> QED  BY <2>2, <2>3, <2>4
<1>13. Apart(f, BytesIn(u.intQueue), BytesIn(u.holes))
  BY <1>3, <1>8, <1>12 DEF Apart
<1> QED  BY <1>3, <1>5, <1>8, <1>11, <1>12, <1>13 DEF h, MidFlushed

\* The first session behind the ground station flushes.
LEMMA OrderFlush1 ==
  ASSUME NEW lo \in Nat, PathInvAt(lo), PathInvAt(lo)', OrderAt,
         K >= 2 => SeenOK(tcb[1]) /\ cache[1] \subseteq tcb[1].seen,
         NEW u, NEW k, NEW t, Sends(1, lo, u, k, t)
  PROVE  OrderAt'
<1> DEFINE d1 == <<"data", 1>>
           d2 == <<"data", 2>>
           i1 == <<"int", 1>>
           s == tcb[1]
           X == SegIn(lo, packetId)
           S0 == Stream(0)
           S1 == Stream(1)
           I == net[i1]
           Q == s.intQueue
           h == BytesIn(s.holes)
           f == tcb[2].next
           is == OutputInts(1)
<1>1. /\ tcb' = [tcb EXCEPT ![1] = t] /\ packetId' = packetId /\ Queued(1, s, u)
      /\ k \in 0..Len(u.sndQueue) /\ ForwardedInts(1) \in Seq(RngIn(lo, packetId))
      /\ t.next = s.next /\ t.straddled = s.straddled
      /\ t.intQueue = u.intQueue /\ t.holes = u.holes
      /\ t.sndQueue = SubSeq(u.sndQueue, k + 1, Len(u.sndQueue))
  <2>1. 1 # 0
    OBVIOUS
  <2> QED  BY <2>1 DEF Sends, Flushes
<1>2. 0 + 1 = 1 /\ 1 + 1 = 2
  OBVIOUS
<1>3. tcb'[0] = tcb[0] /\ tcb'[1] = t /\ (K >= 2 => tcb'[2] = tcb[2])
  <2> DEFINE p == 1
  <2>1. p \in Nodes /\ tcb' = [tcb EXCEPT ![p] = t]
    BY <1>1, NearNodes
  <2> HIDE DEF p
  <2>2. \A m \in Nodes : tcb'[m] = IF m = p THEN t ELSE tcb[m]
    BY <2>1, OneOf
  <2> QED  BY <2>2, NearNodes DEF p
<1>4. /\ net'[d1] = net[d1] /\ net'[i1] = I \o is
      /\ K >= 2 => net'[d2] = net[d2] \o SubSeq(u.sndQueue, 1, k)
  <2> DEFINE p == 1
  <2>1. p \in Nodes /\ p # 0 /\ (K >= 2 => p # K) /\ Sends(p, lo, u, k, t)
    BY NearNodes
  <2> HIDE DEF p
  <2>2. /\ \A c \in Links : c # <<"int", p>> /\ c # Down(p) => net'[c] = net[c]
        /\ net'[<<"int", p>>] = net[<<"int", p>>] \o OutputInts(p)
        /\ K >= 2 => net'[Down(p)] = net[Down(p)] \o Batch(u, k)
    BY <2>1, SendsLinks
  <2>3. d1 \in Links /\ d1 # i1 /\ d1 # d2
    BY NearNodes
  <2>4. <<"int", p>> = i1 /\ Down(p) = d2 /\ OutputInts(p) = is
    BY <1>2 DEF p, Down
  <2> QED  BY <2>2, <2>3, <2>4 DEF Batch
<1>5. /\ S0 \in Seq(X) /\ (K >= 2 => S1 \in Seq(X)) /\ I \in Seq(X) /\ Q \in Seq(Rng)
      /\ (K >= 2 => f \in Nat) /\ packetId \in Nat
      /\ (K >= 2 => net[d2] \in Seq(X) /\ s.sndQueue \in Seq(X)) /\ Spans(X) /\ Spans(Rng)
  BY StreamIs DEF PartsOK, Stream, StreamOf
<1>6. Stream(0)' = S0
  BY <1>2, <1>3, <1>4 DEF Stream
<1>7. ASSUME K >= 2  PROVE ~tcb'[2].straddled /\ Second'
  <2>1. ~tcb[2].straddled /\ InOrder(f, S0, S1, I, Q, h)
    BY <1>7 DEF OrderAt, Second
  <2>2. Once(Q, f)
    BY <2>1 DEF InOrder
  <2>3. /\ u.sndQueue = s.sndQueue
        /\ is \in Seq(X) /\ Once(is, f) /\ BytesIn(is) = BytesIn(Q)
        /\ u.intQueue \in Seq(Rng) /\ Once(u.intQueue, f) /\ BytesIn(u.intQueue) \subseteq h
        /\ BytesIn(u.holes) \subseteq h /\ Apart(f, BytesIn(u.intQueue), BytesIn(u.holes))
    <3>1. SessOK(s, lo, packetId)
      BY NearNodes DEF PathInvAt
    <3>2. 1 # K /\ SeenOK(s) /\ ~s.straddled /\ cache[1] \subseteq s.seen
      BY <1>7 DEF OrderAt
    <3>3. s = tcb[1] /\ packetId \in Nat
      BY <1>5
    <3> DEFINE hi == packetId
               b == f
    <3>4. Queued(1, s, u) /\ ForwardedInts(1) \in Seq(RngIn(lo, hi)) /\ Once(s.intQueue, b)
      BY <1>1, <2>2
    <3>5. hi \in Nat /\ SessOK(s, lo, hi)
      BY <3>1, <3>3
    <3>6. s = tcb[1]
      OBVIOUS
    <3> HIDE DEF s, b, hi
    <3>7. MidFlushed(s, u, OutputInts(1), b, SegIn(lo, hi))
      BY <3>2, <3>4, <3>5, <3>6, MidFlush
    <3> QED  BY <3>7 DEF hi, b, s, MidFlushed
  <2>4. Stream(1)' = S1
    <3> DEFINE a == net[d2]
               q == s.sndQueue
    <3>1. Stream(1)' = (a \o SubSeq(q, 1, k)) \o SubSeq(q, k + 1, Len(q)) /\ S1 = a \o q
      BY <1>1, <1>2, <1>3, <1>4, <1>7, <2>3 DEF Stream
    <3>2. a \in Seq(X) /\ q \in Seq(X) /\ k \in 0..Len(q)
      BY <1>1, <1>5, <1>7, <2>3
    <3> HIDE DEF a, q, X, S1
    <3>3. (a \o SubSeq(q, 1, k)) \o SubSeq(q, k + 1, Len(q)) = a \o q
      BY <3>2, QueueCuts
    <3> QED  BY <3>1, <3>3
  <2>5. Second' = InOrder(f, Stream(0)', Stream(1)', I \o is, u.intQueue, BytesIn(u.holes))
    BY <1>1, <1>3, <1>4, <1>7 DEF Second
  <2> DEFINE rs == u.intQueue
             y == BytesIn(u.holes)
  <2>6. /\ rs \in Seq(Rng) /\ Once(rs, f) /\ BytesIn(rs) \subseteq h
        /\ y \in SUBSET h /\ Apart(f, BytesIn(rs), y)
    BY <2>3
  <2>7. f \in Nat /\ S1 \in Seq(X) /\ is \in Seq(X) /\ Once(is, f) /\ BytesIn(is) = BytesIn(Q)
    BY <1>5, <1>7, <2>3
  <2> HIDE DEF S0, S1, I, Q, h, f, X, rs, y, is
  <2>8. InOrder(f, S0, S1, I \o is, rs, y)
    BY <1>5, <2>1, <2>6, <2>7, OrderFlush
  <2> QED  BY <1>3, <1>6, <1>7, <2>1, <2>4, <2>5, <2>8 DEF rs, y
<1>8. ~tcb'[0].straddled /\ tcb'[0].next \in {0, packetId'}
  BY <1>1, <1>3 DEF OrderAt
<1>9. ~tcb'[1].straddled /\ InLine(Stream(0)', tcb'[1].next)
  BY <1>1, <1>3, <1>6 DEF OrderAt
<1> QED  BY <1>7, <1>8, <1>9 DEF OrderAt

-----------------------------------------------------------------------------
(***************************************************************************)
(* The faults so far, the cache of the first session, and the invariant.   *)
(***************************************************************************)
FaultsOK == faults \in [Faults -> Nat]

LEMMA FaultIn ==
  ASSUME NEW kind, Fault(kind), FaultsOK
  PROVE  /\ kind \in Faults /\ faults[kind] \in Nat /\ FaultsOK'
         /\ \A f \in Faults : faults'[f] = IF f = kind THEN faults[kind] + 1 ELSE faults[f]
<1>1. /\ kind \in Faults /\ faults' = [faults EXCEPT ![kind] = @ + 1]
  BY DEF Fault
<1>2. faults \in [Faults -> Nat]
  BY DEF FaultsOK
<1>3. faults[kind] \in Nat /\ faults[kind] + 1 \in Nat
  BY <1>1, <1>2
<1>4. faults' \in [Faults -> Nat]
  BY <1>1, <1>2, <1>3
<1>5. \A f \in Faults : faults'[f] = IF f = kind THEN faults[kind] + 1 ELSE faults[f]
  BY <1>1, <1>2
<1> QED  BY <1>1, <1>3, <1>4, <1>5 DEF FaultsOK

\* What the network has done so far, it has done for good.
LEMMA FaultsStep ==
  ASSUME NEW lo \in Nat, PathInvAt(lo), [Next]_vars, FaultsOK
  PROVE  /\ FaultsOK' /\ (OnlyLost' => OnlyLost)
         /\ \A l \in Links : OnlyLost' => ~Reorder(l) /\ ~Duplicate(l)
<1>1. ASSUME faults' = faults  PROVE FaultsOK' /\ (OnlyLost' => OnlyLost)
  BY <1>1 DEF FaultsOK, OnlyLost
<1>2. ASSUME NEW l \in Links, Reorder(l) \/ Duplicate(l)  PROVE FaultsOK' /\ ~OnlyLost'
  <2>1. PICK kind \in {"reorder", "duplicate"} : Fault(kind)
    BY <1>2 DEF Reorder, Duplicate
  <2>2. kind # "lose"
    BY <2>1
  <2>3. kind \in Faults /\ faults[kind] \in Nat /\ FaultsOK' /\ faults'[kind] = faults[kind] + 1
    BY <2>1, FaultIn
  <2>4. faults'[kind] # 0 /\ kind \in Faults \ {"lose"}
    BY <2>2, <2>3
  <2> QED  BY <2>3, <2>4 DEF OnlyLost
<1>3. ASSUME NEW l \in Links, Lose(l)  PROVE FaultsOK' /\ (OnlyLost' => OnlyLost)
  <2>1. Fault("lose")
    BY <1>3 DEF Lose
  <2>2. FaultsOK' /\ \A f \in Faults : f # "lose" => faults'[f] = faults[f]
    BY <2>1, FaultIn
  <2> QED  BY <2>2 DEF OnlyLost
<1>4. \/ faults' = faults
      \/ \E l \in Links : Lose(l) \/ Reorder(l) \/ Duplicate(l)
  BY DEF Next, vars, TunRead, ReceiveData, ReceiveInt, Age, FlushSome, Flush, CacheReceived,
         TunWrite, TakeReceived
<1> QED  BY <1>1, <1>2, <1>3, <1>4

\* The first session's cache and queue hold only what it has seen.
Kept == cache[1] \subseteq tcb[1].seen /\ BytesIn(tcb[1].rcvQueue) \subseteq tcb[1].seen

LEMMA SeenGrows ==
  ASSUME NEW lo, NEW hi, NEW s, NEW t, Moves(s, t, lo, hi)
  PROVE  s.seen \subseteq t.seen
BY DEF Moves, Keeps, Arrives, Flushes, Ages

\* A queue that takes a segment, or gives one, among the bytes seen.
LEMMA AppendSeen ==
  ASSUME NEW X, Spans(X), NEW q \in Seq(X), NEW S, BytesIn(q) \subseteq S,
         NEW g \in X, BytesOf(g) \subseteq S
  PROVE  BytesIn(Append(q, g)) \subseteq S
BY AppendBytes

LEMMA TakeSeen ==
  ASSUME NEW X, Spans(X), NEW q \in Seq(X), NEW S, BytesIn(q) \subseteq S, q # <<>>
  PROVE  BytesOf(Head(q)) \subseteq S /\ BytesIn(Tail(q)) \subseteq S
<1>1. Tail(q) \in Seq(X) /\ Thins(Tail(q), q)
  BY HeadTail, ThinParts
<1>2. BytesIn(Tail(q)) \subseteq BytesIn(q)
  BY <1>1, ThinBytes
<1>3. BytesOf(Head(q)) \subseteq BytesIn(q)
  <2>1. 1 \in DOMAIN q /\ Head(q) = q[1]
    OBVIOUS
  <2> QED  BY <2>1 DEF BytesIn
<1> QED  BY <1>2, <1>3

LEMMA KeptReceive ==
  ASSUME NEW lo \in Nat, PathInvAt(lo), Kept, NEW g, NEW t, Received(1, lo, g, t)
  PROVE  tcb'[1] = t /\ cache' = cache /\ BytesIn(t.rcvQueue) \subseteq t.seen
<1> DEFINE s == tcb[1]
           X == SegIn(lo, packetId)
           q == s.rcvQueue
<1>1. /\ tcb' = [tcb EXCEPT ![1] = t] /\ cache' = cache /\ g \in X
      /\ t.rcvQueue = (IF g.kind = "data" THEN Append(q, g) ELSE q)
      /\ t.seen = s.seen \cup (g.start..(g.end - 1))
  BY DEF Received, Taken, Arrives
<1>2. tcb'[1] = t
  <2> DEFINE p == 1
  <2>1. p \in Nodes /\ tcb' = [tcb EXCEPT ![p] = t]
    BY <1>1, NearNodes
  <2> HIDE DEF p
  <2>2. \A m \in Nodes : tcb'[m] = IF m = p THEN t ELSE tcb[m]
    BY <2>1, OneOf
  <2> QED  BY <2>1, <2>2 DEF p
<1>3. q \in Seq(X) /\ Spans(X) /\ BytesIn(q) \subseteq t.seen /\ BytesOf(g) \subseteq t.seen
  <2>1. SessOK(s, lo, packetId) /\ packetId \in Nat
    BY NearNodes DEF PathInvAt
  <2>2. q \in Seq(X)
    BY <2>1 DEF SessOK, Sess
  <2>3. Spans(X)
    BY <2>1, SegSpans
  <2> QED  BY <1>1, <2>2, <2>3 DEF Kept, BytesOf
<1> HIDE DEF X, q, s
<1>4. BytesIn(Append(q, g)) \subseteq t.seen
  BY <1>1, <1>3, AppendSeen
<1> QED  BY <1>1, <1>2, <1>3, <1>4

LEMMA KeptStep ==
  ASSUME NEW lo \in Nat, PathInvAt(lo), [Next]_vars, Kept
  PROVE  Kept'
<1> DEFINE s == tcb[1]
           X == SegIn(lo, packetId)
<1>1. s.seen \subseteq tcb'[1].seen
  <2>1. Moves(tcb[1], tcb'[1], lo, packetId')
    BY NextOK, NearNodes DEF StepOK
  <2> QED  BY <2>1, SeenGrows
<1>2. ASSUME cache'[1] = cache[1], tcb'[1].rcvQueue = s.rcvQueue  PROVE Kept'
  BY <1>1, <1>2 DEF Kept
<1>3. \A n \in Nodes : \A t : tcb' = [tcb EXCEPT ![n] = t] =>
        (n = 1 => tcb'[1] = t) /\ (n # 1 => tcb'[1] = tcb[1])
  <2> SUFFICES ASSUME NEW n \in Nodes, NEW t, tcb' = [tcb EXCEPT ![n] = t]
               PROVE  (n = 1 => tcb'[1] = t) /\ (n # 1 => tcb'[1] = tcb[1])
    OBVIOUS
  <2>1. \A m \in Nodes : tcb'[m] = IF m = n THEN t ELSE tcb[m]
    BY OneOf
  <2> QED  BY <2>1, NearNodes
<1>4. CASE \E size \in Sizes : TunRead(size)
  <2>1. PICK g, t : Read(lo, g, t)
    BY <1>4, TunReadIs
  <2>2. cache' = [cache EXCEPT ![0] = @ \cup BytesOf(g)] /\ tcb' = [tcb EXCEPT ![0] = t]
    BY <2>1 DEF Read
  <2>3. tcb'[1] = tcb[1]
    BY <1>3, <2>2, NearNodes
  <2>4. cache'[1] = cache[1]
    BY <2>2, NearNodes DEF PathInvAt
  <2> QED  BY <1>2, <2>3, <2>4
<1>5. ASSUME NEW n \in Nodes \ {0}, ReceiveData(n)  PROVE Kept'
  <2>1. PICK g, t : Received(n, lo, g, t)
    BY <1>5, ReceiveDataIs
  <2>2. CASE n = 1
    <3>1. tcb'[1] = t /\ cache' = cache /\ BytesIn(t.rcvQueue) \subseteq t.seen
      BY <2>1, <2>2, KeptReceive
    <3> QED  BY <1>1, <3>1 DEF Kept
  <2>3. CASE n # 1
    BY <1>2, <1>3, <2>1, <2>3 DEF Received
  <2> QED  BY <2>2, <2>3
<1>6. ASSUME NEW n \in Nodes \ {0}, Age(n)  PROVE Kept'
  <2>1. PICK t : Idles(n, t) /\ t.rcvQueue = tcb[n].rcvQueue /\ cache' = cache
    BY <1>6, AgeIdles
  <2> QED  BY <1>2, <1>3, <2>1 DEF Idles
<1>7. ASSUME NEW n \in Nodes \ {K}, ReceiveInt(n)  PROVE Kept'
  <2>1. PICK g, t : Asks(n, lo, g, t)
    BY <1>7, ReceiveIntIs
  <2> QED  BY <1>2, <1>3, <2>1 DEF Asks, Served
<1>8. ASSUME NEW n \in Nodes, FlushSome(n)  PROVE Kept'
  <2>1. PICK u, k, t : Sends(n, lo, u, k, t)
    BY <1>8, FlushIs
  <2>2. /\ tcb' = [tcb EXCEPT ![n] = t] /\ cache' = cache
        /\ n = 1 => t.rcvQueue = s.rcvQueue
    BY <2>1 DEF Sends, Queued
  <2> QED  BY <1>2, <1>3, <2>2
<1>9. ASSUME NEW n \in Nodes, TakeReceived(n),
             \/ cache' = cache
             \/ cache' = [cache EXCEPT ![n] = @ \cup BytesOf(Head(tcb[n].rcvQueue))]
      PROVE  Kept'
  <2>1. tcb[n].rcvQueue # <<>>
    BY <1>9, TakeIdles
  <2>2. PICK t : Idles(n, t) /\ t.rcvQueue = Tail(tcb[n].rcvQueue) /\ t.seen = tcb[n].seen
    BY <1>9, TakeIdles
  <2>3. tcb' = [tcb EXCEPT ![n] = t]
    BY <2>2 DEF Idles
  <2>4. cache \in [Nodes -> SUBSET Nat]
    BY DEF PathInvAt
  <2>5. CASE n # 1
    <3>1. cache'[1] = cache[1] /\ tcb'[1] = tcb[1]
      BY <1>3, <1>9, <2>3, <2>4, <2>5, NearNodes
    <3> QED  BY <1>2, <3>1
  <2>6. CASE n = 1
    <3> DEFINE q == s.rcvQueue
               S == s.seen
    <3>1. q \in Seq(X) /\ Spans(X)
      <4>1. SessOK(s, lo, packetId) /\ packetId \in Nat
        BY NearNodes DEF PathInvAt
      <4> QED  BY <4>1, SegSpans DEF SessOK, Sess
    <3>2. q # <<>> /\ BytesIn(q) \subseteq S
      BY <2>1, <2>6 DEF Kept
    <3>3. tcb'[1] = t /\ t.rcvQueue = Tail(q) /\ t.seen = S
      BY <1>3, <2>2, <2>3, <2>6
    <3>4. cache'[1] \subseteq cache[1] \cup BytesOf(Head(q))
      BY <1>9, <2>4, <2>6, NearNodes
    <3>5. cache[1] \subseteq S
      BY DEF Kept
    <3> HIDE DEF q, S, X
    <3>6. BytesOf(Head(q)) \subseteq S /\ BytesIn(Tail(q)) \subseteq S
      BY <3>1, <3>2, TakeSeen
    <3> QED  BY <3>3, <3>4, <3>5, <3>6 DEF Kept
  <2> QED  BY <2>5, <2>6
<1>10. ASSUME NEW l \in Links, Lose(l) \/ Reorder(l) \/ Duplicate(l)  PROVE Kept'
  <2>1. tcb' = tcb /\ cache' = cache
    BY <1>10 DEF Lose, Reorder, Duplicate, Fault
  <2> QED  BY <1>2, <2>1
<1>11. CASE UNCHANGED vars
  BY <1>2, <1>11 DEF vars
<1>12. ASSUME NEW n \in Nodes, CacheReceived(n)  PROVE Kept'
  BY <1>9, <1>12 DEF CacheReceived
<1>13. CASE TunWrite
  <2>1. K \in Nodes /\ TakeReceived(K) /\ cache' = cache
    BY <1>13, NodesAre DEF TunWrite
  <2> QED  BY <1>9, <2>1
<1> QED  BY <1>4, <1>5, <1>6, <1>7, <1>8, <1>10, <1>11, <1>12, <1>13 DEF Next

LEMMA OrderStep ==
  ASSUME NEW lo \in Nat, PathInvAt(lo), [Next]_vars, OrderAt,
         BehindAt(lo, 1), K >= 2 => BehindAt(lo, 2), SeenOK(tcb[1]), Kept,
         \A l \in Links : ~Reorder(l) /\ ~Duplicate(l)
  PROVE  OrderAt'
<1>1. PathInvAt(lo)'
  BY NextOK DEF StepOK
<1>2. \A n \in Nodes : n \in {0, 1, 2} \/ (n # 0 /\ n # 1 /\ n # 2)
  OBVIOUS
<1>3. /\ K \in Nat /\ K # 0 /\ \A n \in Nodes : n # 0 => n \in 1..K
      /\ 1 # K => K >= 2
      /\ 2 \in Nodes => K >= 2
  BY NodesAre, NearNodes DEF Nodes
<1>4. CASE \E size \in Sizes : TunRead(size)
  <2>1. PICK g, t : Read(lo, g, t)
    BY <1>4, TunReadIs
  <2> QED  BY <1>1, <2>1, OrderTun
<1>5. ASSUME NEW n \in Nodes \ {0}, ReceiveData(n)  PROVE OrderAt'
  <2>1. PICK g, t : Received(n, lo, g, t)
    BY <1>5, ReceiveDataIs
  <2>2. CASE n = 1
    <3>1. Received(1, lo, g, t)
      BY <2>1, <2>2
    <3> QED  BY <1>1, <3>1, OrderTake1
  <2>3. CASE n = 2
    <3>1. Received(2, lo, g, t) /\ K >= 2
      BY <1>3, <2>1, <2>3
    <3> QED  BY <1>1, <3>1, OrderTake2
  <2>4. CASE n # 1 /\ n # 2
    BY <1>1, <2>1, <2>4, OrderFar
  <2> QED  BY <2>2, <2>3, <2>4
<1>6. ASSUME NEW n \in Nodes \ {0}, Age(n)  PROVE OrderAt'
  <2>1. PICK t : Idles(n, t)
    BY <1>6, AgeIdles
  <2> QED  BY <1>1, <2>1, OrderIdle
<1>7. ASSUME NEW n \in Nodes \ {K}, ReceiveInt(n)  PROVE OrderAt'
  <2>1. PICK g, t : Asks(n, lo, g, t)
    BY <1>7, ReceiveIntIs
  <2>2. CASE n = 0
    <3>1. Asks(0, lo, g, t)
      BY <2>1, <2>2
    <3> QED  BY <1>1, <3>1, OrderAsk0
  <2>3. CASE n = 1
    <3>1. Asks(1, lo, g, t) /\ K >= 2
      BY <1>3, <2>1, <2>3
    <3>2. BehindAt(lo, 2)
      BY <3>1
    <3> QED  BY <1>1, <3>1, <3>2, OrderAsk1
  <2>4. CASE n # 0 /\ n # 1
    BY <1>1, <2>1, <2>4, OrderFar
  <2> QED  BY <2>2, <2>3, <2>4
<1>8. ASSUME NEW n \in Nodes, FlushSome(n)  PROVE OrderAt'
  <2>1. PICK u, k, t : Sends(n, lo, u, k, t)
    BY <1>8, FlushIs
  <2>2. CASE n = 0
    <3>1. Sends(0, lo, u, k, t)
      BY <2>1, <2>2
    <3> QED  BY <1>1, <3>1, OrderDrain
  <2>3. CASE n = 1
    <3>1. Sends(1, lo, u, k, t) /\ cache[1] \subseteq tcb[1].seen
      BY <2>1, <2>3 DEF Kept
    <3> QED  BY <1>1, <3>1, OrderFlush1
  <2>4. CASE n # 0 /\ n # 1
    BY <1>1, <2>1, <2>4, OrderFar
  <2> QED  BY <2>2, <2>3, <2>4
<1>9. ASSUME NEW n \in Nodes, TakeReceived(n)  PROVE OrderAt'
  <2>1. PICK t : Idles(n, t)
    BY <1>9, TakeIdles
  <2> QED  BY <1>1, <2>1, OrderIdle
<1>10. ASSUME NEW l \in Links, Lose(l)  PROVE OrderAt'
  BY <1>1, <1>10, OrderLost
<1>11. CASE UNCHANGED vars
  <2>1. packetId' = packetId /\ tcb' = tcb /\ net' = net
    BY <1>11 DEF vars
  <2>2. Stream(0)' = Stream(0) /\ Stream(1)' = Stream(1)
    BY <2>1 DEF Stream
  <2> QED  BY <2>1, <2>2 DEF OrderAt, Second
<1>12. ASSUME NEW n \in Nodes, CacheReceived(n)  PROVE OrderAt'
  BY <1>9, <1>12 DEF CacheReceived
<1>13. CASE TunWrite
  <2>1. K \in Nodes /\ TakeReceived(K)
    BY <1>13, NodesAre DEF TunWrite
  <2> QED  BY <1>9, <2>1
<1> QED  BY <1>4, <1>5, <1>6, <1>7, <1>8, <1>10, <1>11, <1>12, <1>13 DEF Next

\* The inductive invariant behind InOrderNoFalseHole.
SeqInvAt(lo) ==
  /\ PathInvAt(lo) /\ FaultsOK /\ Kept
  /\ \A n \in Nodes : SeenOK(tcb[n])
  /\ BehindAt(lo, 1) /\ (K >= 2 => BehindAt(lo, 2))
  /\ OnlyLost => OrderAt

SeqInv == \E lo \in Nat : SeqInvAt(lo)

LEMMA SeqStep ==
  ASSUME NEW lo \in Nat, SeqInvAt(lo), [Next]_vars
  PROVE  SeqInvAt(lo)'
<1>1. /\ PathInvAt(lo) /\ FaultsOK /\ Kept /\ BehindAt(lo, 1) /\ (K >= 2 => BehindAt(lo, 2))
      /\ (\A n \in Nodes : SeenOK(tcb[n])) /\ (OnlyLost => OrderAt)
  BY DEF SeqInvAt
<1>2. PathInvAt(lo)' /\ \A n \in Nodes : Moves(tcb[n], tcb'[n], lo, packetId')
  BY <1>1, NextOK DEF StepOK
<1>3. Kept'
  BY <1>1, KeptStep
<1>4. BehindAt(lo, 1)' /\ (K >= 2 => BehindAt(lo, 2)')
  <2>1. 1 \in 1..K /\ (K >= 2 => 2 \in 1..K)
    BY NearNodes
  <2>2. \A n \in 1..K : BehindAt(lo, n) => BehindAt(lo, n)'
    BY <1>1, BehindStep
  <2> QED  BY <1>1, <2>1, <2>2
<1>5. \A n \in Nodes : SeenOK(tcb'[n])
  <2> SUFFICES ASSUME NEW n \in Nodes  PROVE SeenOK(tcb'[n])
    OBVIOUS
  <2>1. SessOK(tcb[n], lo, packetId) /\ packetId \in Nat /\ packetId' \in Nat
    BY <1>1, <1>2 DEF PathInvAt
  <2> QED  BY <1>1, <1>2, <2>1, SeenMoves
<1>6. FaultsOK' /\ (OnlyLost' => OrderAt')
  <2>1. FaultsOK' /\ (OnlyLost' => OnlyLost)
    BY <1>1, FaultsStep
  <2>2. ASSUME OnlyLost'  PROVE OrderAt'
    <3>1. \A l \in Links : ~Reorder(l) /\ ~Duplicate(l)
      BY <1>1, <2>2, FaultsStep
    <3>2. OrderAt /\ SeenOK(tcb[1])
      BY <1>1, <2>1, <2>2, NearNodes
    <3> QED  BY <1>1, <3>1, <3>2, OrderStep
  <2> QED  BY <2>1, <2>2
<1> QED  BY <1>2, <1>3, <1>4, <1>5, <1>6 DEF SeqInvAt

LEMMA SeqInit == Init => SeqInv
<1> SUFFICES ASSUME Init  PROVE SeqInv
  OBVIOUS
<1>1. PICK lo \in Nat : PathInvAt(lo)
  BY InitPath DEF PathInv
<1>2. /\ tcb = [n \in Nodes |-> NewSession] /\ cache = [n \in Nodes |-> {}]
      /\ net = [l \in Links |-> <<>>] /\ faults = [f \in Faults |-> 0]
  BY DEF Init
<1>3. /\ NewSession.next = 0 /\ NewSession.holes = <<>> /\ NewSession.sndQueue = <<>>
      /\ NewSession.intQueue = <<>> /\ NewSession.rcvQueue = <<>>
      /\ NewSession.seen = {} /\ NewSession.straddled = FALSE
  BY DEF NewSession
<1>4. \A n \in Nodes : tcb[n] = NewSession
  BY <1>2
<1>5. FaultsOK
  BY <1>2 DEF FaultsOK
<1>6. BytesIn(<<>>) = {} /\ MissOf(<<>>) = {}
  BY DEF BytesIn, MissOf
<1>7. Kept
  BY <1>2, <1>3, <1>4, <1>6, NearNodes DEF Kept
<1>8. \A n \in Nodes : SeenOK(tcb[n])
  BY <1>3, <1>4, <1>6 DEF SeenOK
<1>9. \A n \in 1..K : BehindAt(lo, n)
  <2> SUFFICES ASSUME NEW n \in 1..K  PROVE BehindAt(lo, n)
    OBVIOUS
  <2>1. \A m \in n..K : m \in Nodes /\ <<"int", m>> \in Links
    <3> TAKE m \in n..K
    <3>1. m \in 1..K /\ m \in Nodes
      BY HopChainAssumption DEF Nodes
    <3> QED  BY <3>1, NodesAre
  <2>2. \A m \in n..(K - 1) : <<"data", m + 1>> \in Links
    <3> TAKE m \in n..(K - 1)
    <3>1. m + 1 \in 1..K
      BY HopChainAssumption
    <3> QED  BY <3>1, NodesAre
  <2>3. \A X : <<>> \in Seq(X)
    OBVIOUS
  <2>4. \A m \in n..K : /\ Below(tcb[m], lo, m, 0)
                        /\ net[<<"int", m>>] \in Seq(SegIn(lo, 0 - 1))
    <3> TAKE m \in n..K
    <3>1. /\ tcb[m].next = 0 /\ tcb[m].intQueue = <<>> /\ tcb[m].sndQueue = <<>>
          /\ net[<<"int", m>>] = <<>>
      BY <1>2, <1>3, <1>4, <2>1
    <3> QED  BY <2>3, <3>1 DEF Below
  <2>5. \A m \in n..(K - 1) : net[<<"data", m + 1>>] \in Seq(SegIn(lo, 0))
    BY <1>2, <2>2, <2>3
  <2>6. BehindBy(lo, n, 0)
    BY <2>4, <2>5 DEF BehindBy
  <2>7. n \in Nodes /\ 0 \in Nat
    BY NodesAre DEF Nodes
  <2> QED  BY <1>3, <1>4, <2>6, <2>7 DEF BehindAt
<1>10. OrderAt
  <2>1. Stream(0) = <<>> /\ (K >= 2 => Stream(1) = <<>>)
    <3>1. 0 + 1 = 1 /\ 1 + 1 = 2 /\ <<>> \o <<>> = <<>>
      OBVIOUS
    <3> QED  BY <1>2, <1>3, <1>4, <3>1, NearNodes DEF Stream
  <2>2. net[<<"int", 1>>] = <<>>
    BY <1>2, NearNodes
  <2>3. \A e : InLine(<<>>, e)
    BY DEF InLine
  <2>4. InOrder(0, <<>>, <<>>, <<>>, <<>>, {})
    <3>1. Len(<<>>) = 0
      OBVIOUS
    <3> QED  BY <1>6, <3>1 DEF InOrder, InTurn, Clear, Unjoined, Once, Apart
  <2>5. K >= 2 => Second
    BY <1>3, <1>4, <1>6, <2>1, <2>2, <2>4, NearNodes DEF Second
  <2> QED  BY <1>3, <1>4, <2>1, <2>3, <2>5, NearNodes DEF OrderAt
<1>11. BehindAt(lo, 1) /\ (K >= 2 => BehindAt(lo, 2))
  <2>1. 1 \in 1..K /\ (K >= 2 => 2 \in 1..K)
    BY NearNodes
  <2> QED  BY <1>9, <2>1
<1>12. SeqInvAt(lo)
  BY <1>1, <1>5, <1>7, <1>8, <1>10, <1>11 DEF SeqInvAt
<1> QED  BY <1>12 DEF SeqInv

LEMMA SeqNoFalseHole ==
  ASSUME NEW lo \in Nat, SeqInvAt(lo)
  PROVE  InOrderNoFalseHole
<1> SUFFICES ASSUME OnlyLost, NEW n \in Nodes, n \in 0..2
             PROVE  /\ ~tcb[n].straddled
                    /\ \A i \in DOMAIN tcb[n].holes :
                         BytesOf(tcb[n].holes[i]) \cap tcb[n].seen = {}
  BY DEF InOrderNoFalseHole
<1>1. OrderAt /\ SeenOK(tcb[n]) /\ SessOK(tcb[n], lo, packetId)
  BY DEF SeqInvAt, PathInvAt
<1>2. ~tcb[n].straddled
  <2>1. n = 0 \/ n = 1 \/ (n = 2 /\ K >= 2)
    BY NearNodes DEF Nodes
  <2> QED  BY <1>1, <2>1 DEF OrderAt
<1> DEFINE H == tcb[n].holes
           S == tcb[n].seen
<1>3. H \in Seq(Hole) /\ \A m \in MissOf(H) : m[1] \notin S
  BY <1>1, <1>2 DEF SeenOK, SessOK, Sess
<1> HIDE DEF H, S
<1>4. ASSUME NEW i \in DOMAIN H, NEW x \in BytesOf(H[i])  PROVE x \notin S
  <2>1. i \in 1..Len(H) /\ H[i].start \in Nat /\ H[i].end \in Nat
    BY <1>3, HoleFields
  <2>2. x \in Nat /\ In(H[i], x)
    <3>1. x \in H[i].start..(H[i].end - 1)
      BY DEF BytesOf
    <3> QED  BY <2>1, <3>1 DEF In
  <2>3. <<x, H[i].age>> \in MissOf(H)
    BY <1>3, <2>1, <2>2, MissIs
  <2> QED  BY <1>3, <2>3
<1> QED  BY <1>2, <1>4 DEF H, S

\* Whatever datagrams a path of any length loses, as long as it neither reorders
\* nor duplicates them, the first two sessions behind the ground station take no
\* byte they have seen for a hole, and detectDataHole meets no range that lies on
\* both sides of dataNextRangeStart.
THEOREM NoFalseHoleInOrder == Spec => []InOrderNoFalseHole
<1>1. SeqInv /\ [Next]_vars => SeqInv'
  <2> SUFFICES ASSUME SeqInv, [Next]_vars  PROVE SeqInv'
    OBVIOUS
  <2>1. PICK lo \in Nat : SeqInvAt(lo)
    BY DEF SeqInv
  <2>2. SeqInvAt(lo)'
    BY <2>1, SeqStep
  <2> QED  BY <2>2 DEF SeqInv
<1>2. SeqInv => InOrderNoFalseHole
  BY SeqNoFalseHole DEF SeqInv
<1> QED  BY <1>1, <1>2, SeqInit, PTL DEF Spec
====
