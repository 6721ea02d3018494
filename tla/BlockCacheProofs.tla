---- MODULE BlockCacheProofs ----
(***************************************************************************)
(* The cache is sound for every block length, table and number of blocks:  *)
(* list and map agree, the ranges of a table stay apart, what they call    *)
(* valid was copied, and read returns exactly the valid prefix.            *)
(***************************************************************************)
EXTENDS BlockCache, FoldProofs, FiniteSetTheorems

-----------------------------------------------------------------------------
(***************************************************************************)
(* Where blocks start.                                                     *)
(***************************************************************************)
LEMMA Product ==
  ASSUME NEW x \in Int, NEW y \in Int, NEW n \in Nat, x <= y
  PROVE  x * n \in Int /\ y * n \in Int /\ x * n <= y * n
  OBVIOUS

LEMMA Quotient ==
  ASSUME NEW i \in Nat
  PROVE  /\ i \div BlockLen \in Nat
         /\ (i \div BlockLen) * BlockLen \in Nat
         /\ (i \div BlockLen) * BlockLen <= i
         /\ i < (i \div BlockLen) * BlockLen + BlockLen
  BY BlockCacheAssumption

\* The quotient is the only number of whole blocks below i.
LEMMA OnlyQuotient ==
  ASSUME NEW i \in Nat, NEW q \in Nat,
         q * BlockLen <= i, i < q * BlockLen + BlockLen
  PROVE  i \div BlockLen = q
<1> DEFINE p == i \div BlockLen
<1>0. BlockLen \in Nat /\ BlockLen > 0  BY BlockCacheAssumption
<1>1. /\ p \in Nat /\ p * BlockLen \in Nat
      /\ p * BlockLen <= i /\ i < p * BlockLen + BlockLen
  BY Quotient
<1> HIDE DEF p
<1>2. ASSUME p < q  PROVE FALSE
  <2>1. (p + 1) * BlockLen <= q * BlockLen  BY <1>0, <1>1, <1>2, Product
  <2>2. (p + 1) * BlockLen = p * BlockLen + BlockLen  BY <1>0, <1>1
  <2>3. q * BlockLen \in Int  BY <1>0
  <2> QED  BY <1>0, <1>1, <2>1, <2>2, <2>3
<1>3. ASSUME q < p  PROVE FALSE
  <2>1. (q + 1) * BlockLen <= p * BlockLen  BY <1>0, <1>1, <1>3, Product
  <2>2. (q + 1) * BlockLen = q * BlockLen + BlockLen  BY <1>0
  <2>3. q * BlockLen \in Int  BY <1>0
  <2> QED  BY <1>0, <1>1, <2>1, <2>2, <2>3
<1>4. p = q  BY <1>1, <1>2, <1>3
<1> QED  BY <1>4 DEF p

BlockAt == {BlockStart(i) : i \in 0..Limit}

LEMMA BlockStartIs ==
  ASSUME NEW i \in Nat
  PROVE  /\ BlockStart(i) \in Nat /\ BlockStart(i) <= i /\ i < BlockStart(i) + BlockLen
         /\ i \in 0..Limit => BlockStart(i) \in BlockAt
  BY Quotient DEF BlockStart, BlockAt

LEMMA BlockAtNat == BlockAt \in SUBSET Nat
  BY BlockCacheAssumption, BlockStartIs DEF BlockAt

\* A position is in one block only.
LEMMA OneBlock ==
  ASSUME NEW s \in BlockAt, NEW i \in Nat, s <= i, i < s + BlockLen
  PROVE  s = BlockStart(i)
<1>1. PICK j \in 0..Limit : s = (j \div BlockLen) * BlockLen
  BY DEF BlockAt, BlockStart
<1>2. j \div BlockLen \in Nat
  BY <1>1, Quotient, BlockCacheAssumption
<1>3. i \div BlockLen = j \div BlockLen
  BY <1>1, <1>2, OnlyQuotient
<1> QED  BY <1>1, <1>3 DEF BlockStart

(***************************************************************************)
(* The loops of insert and read visit the blocks of [a, b) one after the   *)
(* other.                                                                  *)
(***************************************************************************)
LEMMA BlocksVisited ==
  ASSUME NEW a \in Nat, NEW b \in 0..Limit, a < b
  PROVE  \E n \in Nat \ {0} :
           /\ BlockStarts(a, b) \in [1..n -> BlockAt]
           /\ BlockStarts(a, b)[1] <= a
           /\ \A i \in 1..n : /\ BlockStarts(a, b)[i] < b
                              /\ a < BlockStarts(a, b)[i] + BlockLen
           /\ \A i \in 1..(n - 1) :
                BlockStarts(a, b)[i + 1] = BlockStarts(a, b)[i] + BlockLen
           /\ b <= BlockStarts(a, b)[n] + BlockLen
           /\ b <= a + BlockLen => n <= 2
<1> DEFINE p == a \div BlockLen
           q == (b - 1) \div BlockLen
           n == q - p + 1
           S == BlockStarts(a, b)
<1>0. BlockLen \in Nat /\ BlockLen > 0 /\ Limit \in Nat /\ b - 1 \in Nat
  BY BlockCacheAssumption
<1>1. /\ p \in Nat /\ p * BlockLen \in Nat
      /\ p * BlockLen <= a /\ a < p * BlockLen + BlockLen
  BY Quotient
<1>2. /\ q \in Nat /\ q * BlockLen \in Nat
      /\ q * BlockLen <= b - 1 /\ b - 1 < q * BlockLen + BlockLen
  BY <1>0, Quotient
<1>3. S = [i \in 1..n |-> p * BlockLen + (i - 1) * BlockLen]
  BY DEF BlockStarts, BlockStart
<1> HIDE DEF p, q, S
<1>4. p <= q
  <2> SUFFICES ASSUME q < p  PROVE FALSE
    BY <1>1, <1>2
  <2>1. (q + 1) * BlockLen <= p * BlockLen  BY <1>0, <1>1, <1>2, Product
  <2>2. (q + 1) * BlockLen = q * BlockLen + BlockLen  BY <1>0, <1>2
  <2> QED  BY <1>0, <1>1, <1>2, <2>1, <2>2
<1>5. n \in Nat \ {0}
  BY <1>1, <1>2, <1>4
<1>6. ASSUME NEW i \in 1..n
      PROVE  /\ S[i] = (p + (i - 1)) * BlockLen /\ p + (i - 1) \in Nat /\ p + (i - 1) <= q
             /\ S[i] \in Nat /\ S[i] <= b - 1 /\ p * BlockLen <= S[i]
  <2>1. i \in Nat /\ i >= 1 /\ i <= q - p + 1  BY <1>5
  <2>2. S[i] = p * BlockLen + (i - 1) * BlockLen  BY <1>3
  <2>3. (p + (i - 1)) * BlockLen = p * BlockLen + (i - 1) * BlockLen
    BY <1>0, <1>1, <2>1
  <2>4. p + (i - 1) \in Nat /\ p + (i - 1) <= q /\ p <= p + (i - 1)
    BY <1>1, <1>2, <2>1
  <2>5. (p + (i - 1)) * BlockLen <= q * BlockLen
    BY <1>0, <1>2, <2>4, Product
  <2>6. p * BlockLen <= (p + (i - 1)) * BlockLen
    BY <1>0, <1>1, <2>4, Product
  <2>7. (p + (i - 1)) * BlockLen \in Int
    BY <1>0, <2>4
  <2>8. S[i] = (p + (i - 1)) * BlockLen
    BY <2>2, <2>3
  <2> DEFINE m == (p + (i - 1)) * BlockLen
             u == p * BlockLen
             v == q * BlockLen
  <2>9. m \in Int /\ u <= m /\ m <= v /\ S[i] = m /\ u \in Nat /\ v \in Nat /\ v <= b - 1
    BY <1>1, <1>2, <2>5, <2>6, <2>7, <2>8
  <2> HIDE DEF m, u, v
  <2>10. S[i] \in Nat /\ S[i] <= b - 1 /\ u <= S[i]
    BY <1>0, <2>9
  <2> QED  BY <2>4, <2>8, <2>10 DEF u
<1>7. ASSUME NEW i \in 1..n  PROVE S[i] \in BlockAt
  <2> DEFINE m == p + (i - 1)
  <2>1. S[i] = m * BlockLen /\ m \in Nat /\ S[i] \in Nat /\ S[i] <= b - 1
    BY <1>6
  <2> HIDE DEF m
  <2>2. S[i] \div BlockLen = m
    BY <1>0, <2>1, OnlyQuotient
  <2>3. S[i] = BlockStart(S[i])
    BY <2>1, <2>2 DEF BlockStart
  <2>4. S[i] \in 0..Limit
    BY <1>0, <2>1
  <2> QED  BY <2>3, <2>4 DEF BlockAt
<1>8. S \in [1..n -> BlockAt]
  <2>1. S = [i \in 1..n |-> S[i]]  BY <1>3
  <2> HIDE DEF n
  <2> QED  BY <1>7, <2>1
<1>9. S[1] = p * BlockLen
  <2>1. 1 \in 1..n  BY <1>5
  <2>2. p + (1 - 1) = p  BY <1>1
  <2> QED  BY <1>6, <2>1, <2>2
<1>10. S[n] = q * BlockLen
  <2>1. n \in 1..n  BY <1>5
  <2>2. p + (n - 1) = q  BY <1>1, <1>2
  <2> QED  BY <1>6, <2>1, <2>2
<1>11. ASSUME NEW i \in 1..(n - 1)  PROVE S[i + 1] = S[i] + BlockLen
  <2>1. i \in 1..n /\ i + 1 \in 1..n  BY <1>5
  <2>2. S[i + 1] = (p + i) * BlockLen /\ S[i] = (p + (i - 1)) * BlockLen
        /\ p + (i - 1) \in Nat
    <3>1. (i + 1) - 1 = i  BY <1>5
    <3> QED  BY <1>6, <2>1, <3>1
  <2>3. p + i = (p + (i - 1)) + 1  BY <1>1, <1>5
  <2>4. ASSUME NEW m \in Nat  PROVE (m + 1) * BlockLen = m * BlockLen + BlockLen
    BY <1>0
  <2> QED  BY <2>2, <2>3, <2>4
<1>12. ASSUME b <= a + BlockLen  PROVE n <= 2
  <2> SUFFICES ASSUME p + 2 <= q  PROVE FALSE
    BY <1>1, <1>2
  <2>1. (p + 2) * BlockLen <= q * BlockLen  BY <1>0, <1>1, <1>2, Product
  <2>2. (p + 2) * BlockLen = p * BlockLen + 2 * BlockLen  BY <1>0, <1>1
  <2> QED  BY <1>0, <1>1, <1>2, <1>12, <2>1, <2>2
<1>13. \A i \in 1..n : S[i] < b /\ a < S[i] + BlockLen
  <2> SUFFICES ASSUME NEW i \in 1..n  PROVE S[i] < b /\ a < S[i] + BlockLen
    OBVIOUS
  <2> DEFINE u == p * BlockLen
  <2>1. S[i] \in Nat /\ S[i] <= b - 1 /\ u <= S[i] /\ u \in Nat /\ a < u + BlockLen
    BY <1>1, <1>6
  <2> HIDE DEF u
  <2> QED  BY <1>0, <2>1
<1>14. S[1] <= a /\ b <= S[n] + BlockLen
  <2> DEFINE v == q * BlockLen
  <2>1. S[n] = v /\ v \in Nat /\ b - 1 < v + BlockLen  BY <1>2, <1>10
  <2> HIDE DEF v
  <2>2. b <= S[n] + BlockLen  BY <1>0, <2>1
  <2> QED  BY <1>1, <1>9, <2>2
<1> HIDE DEF n
<1> QED  BY <1>5, <1>8, <1>11, <1>12, <1>13, <1>14 DEF S

-----------------------------------------------------------------------------
(***************************************************************************)
(* Ranges and tables of ranges.                                            *)
(***************************************************************************)
Rng == [start : Nat, end : Nat]

Table == [Slots -> Rng]

In(r, x) == r.start <= x /\ x < r.end

Has(T, x) == \E i \in Slots : In(T[i], x)

Within(r, s) == s <= r.start /\ r.start < r.end /\ r.end <= s + BlockLen

FreeIn(T) == {i \in Slots : T[i] = Free}

Apart(x, y) == x.end < y.start \/ y.end < x.start

\* The table of a block that starts at s.
TableOK(T, s) ==
  /\ T \in Table
  /\ \A i \in Slots : T[i] # Free => Within(T[i], s)
  /\ \A i, j \in Slots : i # j /\ T[i] # Free /\ T[j] # Free => Apart(T[i], T[j])

LEMMA MinMax ==
  ASSUME NEW u \in Nat, NEW v \in Nat
  PROVE  /\ Min({u, v}) \in Nat /\ Min({u, v}) = IF u <= v THEN u ELSE v
         /\ Max({u, v}) \in Nat /\ Max({u, v}) = IF u <= v THEN v ELSE u
<1>1. Min({u, v}) \in {u, v} /\ \A x \in {u, v} : Min({u, v}) <= x
  BY MinIn
<1>2. Max({u, v}) = IF u <= v THEN v ELSE u
  <2> DEFINE k == IF u <= v THEN v ELSE u
  <2>1. k \in Int /\ {u, v} \in SUBSET Int /\ k \in {u, v} /\ \A j \in {u, v} : j <= k
    OBVIOUS
  <2> HIDE DEF k
  <2>2. Max({u, v}) = k  BY <2>1, MaxIs
  <2> QED  BY <2>2 DEF k
<1> QED  BY <1>1, <1>2

LEMMA HullIs ==
  ASSUME NEW x \in Rng, NEW r \in Rng
  PROVE  /\ Hull(x, r) \in Rng
         /\ Hull(x, r).start = IF x.start <= r.start THEN x.start ELSE r.start
         /\ Hull(x, r).end = IF x.end <= r.end THEN r.end ELSE x.end
<1>1. x.start \in Nat /\ x.end \in Nat /\ r.start \in Nat /\ r.end \in Nat
  BY DEF Rng
<1>2. /\ Min({x.start, r.start}) \in Nat
      /\ Min({x.start, r.start}) = IF x.start <= r.start THEN x.start ELSE r.start
  BY <1>1, MinMax
<1>3. /\ Max({x.end, r.end}) \in Nat
      /\ Max({x.end, r.end}) = IF x.end <= r.end THEN r.end ELSE x.end
  BY <1>1, MinMax
<1> QED  BY <1>2, <1>3 DEF Hull, Rng

(***************************************************************************)
(* The rounds of the search for a union, for a range r and a table T: no   *)
(* position is lost or made up, whatever was joined so far.                *)
(***************************************************************************)
SameHolds(T, r, st) ==
  \A x \in Nat : Has(st.ranges, x) \/ In(st.range, x) <=> Has(T, x) \/ In(r, x)

Joined(T, r, s) ==
  {st \in [ranges : Table, range : Rng, isSubset : BOOLEAN] :
     /\ \A i \in Slots : st.ranges[i] = Free \/ st.ranges[i] = T[i]
     /\ Within(st.range, s)
     /\ SameHolds(T, r, st)
     /\ st.isSubset => \E i \in Slots : Covers(st.ranges[i], st.range)}

Hits(st) == {i \in Slots : Touches(st.ranges[i], st.range)}

\* Nothing more to join.
Settled(st) == st.isSubset \/ Hits(st) = {}

LEMMA JoinRound ==
  ASSUME NEW s \in Nat, NEW T, TableOK(T, s), NEW r \in Rng,
         NEW st \in Joined(T, r, s), NEW step
  PROVE  /\ JoinFirst(st, step) \in Joined(T, r, s)
         /\ Settled(st) => JoinFirst(st, step) = st
         /\ \/ Settled(JoinFirst(st, step))
            \/ \E i \in Slots \ FreeIn(st.ranges) :
                 FreeIn(JoinFirst(st, step).ranges) = FreeIn(st.ranges) \cup {i}
<1> DEFINE hit == {i \in Slots : Touches(st.ranges[i], st.range)}
           i == Min(hit)
           new == JoinFirst(st, step)
<1>0. /\ BlockLen \in Nat /\ Slots \in SUBSET Nat
  BY BlockCacheAssumption DEF Slots
<1>1. /\ st.ranges \in Table /\ st.range \in Rng /\ st.isSubset \in BOOLEAN
      /\ st = [ranges |-> st.ranges, range |-> st.range, isSubset |-> st.isSubset]
      /\ \A j \in Slots : st.ranges[j] = Free \/ st.ranges[j] = T[j]
      /\ Within(st.range, s)
      /\ SameHolds(T, r, st)
      /\ st.isSubset => \E j \in Slots : Covers(st.ranges[j], st.range)
  BY DEF Joined
<1>2. /\ Settled(st) <=> st.isSubset \/ hit = {}
      /\ st.isSubset \/ hit = {} => new = st
  BY DEF JoinFirst, Settled, Hits
<1>3. CASE st.isSubset \/ hit = {}
  BY <1>2, <1>3
<1>4. CASE ~(st.isSubset \/ hit = {})
  <2>1. i \in hit
    <3>1. hit \in SUBSET Nat /\ hit # {}  BY <1>0, <1>4
    <3> HIDE DEF hit
    <3> QED  BY <3>1, MinIn
  <2> DEFINE x == st.ranges[i]
  <2>2. i \in Slots /\ Touches(x, st.range)
    BY <2>1
  <2>3. new = IF Covers(x, st.range) THEN [st EXCEPT !.isSubset = TRUE]
              ELSE [st EXCEPT !.range = Hull(x, @), !.ranges[i] = Free]
    BY <1>4 DEF JoinFirst
  <2>4. ~Settled(st)  BY <1>2, <1>4
  <2> HIDE DEF hit, i, new
  <2>5. CASE Covers(x, st.range)
    <3>1. new = [ranges |-> st.ranges, range |-> st.range, isSubset |-> TRUE]
      BY <1>1, <2>3, <2>5
    <3>2. SameHolds(T, r, new)
      BY <1>1, <3>1 DEF SameHolds
    <3>3. new \in Joined(T, r, s)
      BY <1>1, <2>2, <2>5, <3>1, <3>2 DEF Joined
    <3>4. Settled(new)
      BY <3>1 DEF Settled
    <3> QED  BY <2>4, <3>3, <3>4 DEF new
  <2>6. CASE ~Covers(x, st.range)
    <3> DEFINE h == Hull(x, st.range)
    <3>1. new = [ranges |-> [st.ranges EXCEPT ![i] = Free], range |-> h, isSubset |-> st.isSubset]
      BY <1>1, <2>3, <2>6
    <3>2. x \in Rng  BY <1>1, <2>2 DEF Table
    <3>3. /\ h \in Rng
          /\ h.start = IF x.start <= st.range.start THEN x.start ELSE st.range.start
          /\ h.end = IF x.end <= st.range.end THEN st.range.end ELSE x.end
      BY <1>1, <3>2, HullIs
    <3> HIDE DEF h
    <3>4. /\ x # Free /\ x = T[i]
          /\ st.range.start <= x.end /\ st.range.end >= x.start
      BY <1>1, <2>2 DEF Touches
    <3>5. Within(x, s)  BY <2>2, <3>4 DEF TableOK
    <3>6. Within(h, s)
      BY <1>0, <1>1, <3>2, <3>3, <3>5 DEF Within, Rng
    <3>7. \A y \in Nat : In(h, y) <=> In(x, y) \/ In(st.range, y)
      BY <1>1, <3>2, <3>3, <3>4, <3>5 DEF In, Within, Rng
    <3> HIDE DEF x
    <3>8. Free \in Rng /\ \A y \in Nat : ~In(Free, y)
      BY DEF Free, Rng, In
    <3>9. new.ranges = [st.ranges EXCEPT ![i] = Free] /\ new.range = h
      BY <3>1
    <3>10. new.ranges \in Table /\ \A j \in Slots : new.ranges[j] = IF j = i THEN Free ELSE st.ranges[j]
      BY <1>1, <2>2, <3>8, <3>9 DEF Table
    <3>11. SameHolds(T, r, new)
      <4>1. ASSUME NEW y \in Nat
            PROVE  Has(new.ranges, y) \/ In(new.range, y) <=> Has(st.ranges, y) \/ In(st.range, y)
        <5>1. In(h, y) <=> In(st.ranges[i], y) \/ In(st.range, y)
          BY <3>7 DEF x
        <5>2. Has(new.ranges, y) => Has(st.ranges, y)
          BY <3>8, <3>10 DEF Has
        <5>3. Has(st.ranges, y) => Has(new.ranges, y) \/ In(st.ranges[i], y)
          BY <3>10 DEF Has
        <5>4. In(st.ranges[i], y) => Has(st.ranges, y)
          BY <2>2 DEF Has
        <5> QED  BY <3>9, <5>1, <5>2, <5>3, <5>4
      <4> QED  BY <1>1, <4>1 DEF SameHolds
    <3>12. new.isSubset = FALSE /\ new \in [ranges : Table, range : Rng, isSubset : BOOLEAN]
      BY <1>1, <1>4, <3>1, <3>3, <3>9, <3>10
    <3>13. new \in Joined(T, r, s)
      BY <1>1, <3>6, <3>9, <3>10, <3>11, <3>12 DEF Joined
    <3>14. i \in Slots \ FreeIn(st.ranges) /\ FreeIn(new.ranges) = FreeIn(st.ranges) \cup {i}
      BY <2>2, <3>4, <3>10 DEF FreeIn, x
    <3> QED  BY <2>4, <3>13, <3>14 DEF new
  <2> QED  BY <2>5, <2>6
<1> QED  BY <1>3, <1>4

(***************************************************************************)
(* The whole search: a chain of rounds.                                    *)
(***************************************************************************)
JoinBase(T, r) == [ranges |-> T, range |-> r, isSubset |-> FALSE]

Rounds == 1..(SegNum + 1)

JoinedBy(acc, X, block, r) ==
  /\ acc \in [0..(SegNum + 1) -> X]
  /\ acc[0] = JoinBase(block.ranges, r)
  /\ \A k \in Rounds : acc[k] = JoinFirst(acc[k - 1], k)
  /\ Join(block, r) = acc[SegNum + 1]

LEMMA JoinFold ==
  ASSUME NEW X, NEW block, NEW r, JoinBase(block.ranges, r) \in X,
         \A k \in Rounds : \A st \in X : JoinFirst(st, k) \in X
  PROVE  \E acc : JoinedBy(acc, X, block, r)
<1> DEFINE n == SegNum + 1
           M == JoinBase(block.ranges, r)
           s == [i \in 1..n |-> i]
           step == [k \in 1..n |-> [st \in X |-> JoinFirst(st, k)]]
           Fold(g) == g = [t \in SUBSET (1..n) |->
                             IF t = {} THEN M
                             ELSE JoinFirst(g[t \ {Max(t)}], s[Max(t)])]
<1>0. n \in Nat /\ Rounds = 1..n  BY BlockCacheAssumption DEF Rounds
<1> HIDE DEF n, M
<1>1. step \in [1..n -> [X -> X]] /\ M \in X
  BY <1>0 DEF M
<1>2. PICK g \in [SUBSET (1..n) -> X] : Iterates(g, step, M, n)
  <2> HIDE DEF step
  <2> QED  BY <1>0, <1>1, IterExists
<1>3. \E e : Fold(e)
  <2>0. \A t \in SUBSET (1..n) :
           IF t = {} THEN g[t] = M
           ELSE /\ Max(t) \in 1..n /\ g[t \ {Max(t)}] \in X
                /\ g[t] = step[Max(t)][g[t \ {Max(t)}]]
    <3> HIDE DEF step
    <3>1. StepsBy(g, X, step, M, n)  BY <1>0, <1>2, IterValues
    <3> QED  BY <3>1 DEF StepsBy
  <2>1. ASSUME NEW t \in SUBSET (1..n)
        PROVE  g[t] = IF t = {} THEN M ELSE JoinFirst(g[t \ {Max(t)}], s[Max(t)])
    <3>1. CASE t = {}
      BY <2>0, <3>1
    <3>2. CASE t # {}
      <4>1. /\ Max(t) \in 1..n /\ g[t \ {Max(t)}] \in X
            /\ g[t] = step[Max(t)][g[t \ {Max(t)}]]
        <5> HIDE DEF step
        <5> QED  BY <2>0, <3>2
      <4>2. s[Max(t)] = Max(t)  BY <4>1
      <4> QED  BY <3>2, <4>1, <4>2
    <3> QED  BY <3>1, <3>2
  <2>2. g = [t \in SUBSET (1..n) |-> g[t]]  OBVIOUS
  <2>3. Fold(g)  BY <2>1, <2>2, Zenon
  <2> QED  BY <2>3
<1> DEFINE f == CHOOSE e : Fold(e)
<1>4. Fold(f)
  <2> HIDE DEF Fold
  <2> QED  BY <1>3
<1>5. Join(block, r) = f[1..n]
  <2>1. DOMAIN s = 1..n  OBVIOUS
  <2> QED  BY <2>1, Zenon DEF Join, JoinBase, FoldLeft, MapThenFoldSet, M, n
<1> HIDE DEF f
<1>6. f[{}] = M
  <2>1. {} \in SUBSET (1..n)  OBVIOUS
  <2> QED  BY <1>4, <2>1
<1>7. ASSUME NEW k \in 1..n, f[1..(k - 1)] \in X
      PROVE  f[1..k] = step[k][f[1..(k - 1)]]
  <2>1. /\ Max(1..k) = k /\ (1..k) \ {Max(1..k)} = 1..(k - 1)
        /\ 1..k # {} /\ 1..k \in SUBSET (1..n)
    BY <1>0, IterChain
  <2>2. f[1..k] = JoinFirst(f[(1..k) \ {Max(1..k)}], s[Max(1..k)])
    BY <1>4, <2>1
  <2>3. f[1..k] = JoinFirst(f[1..(k - 1)], k)
    BY <2>1, <2>2
  <2> QED  BY <1>7, <2>3
<1>8. PICK acc : Chained(acc, X, step, M, n, f[1..n])
  <2> HIDE DEF step, Fold
  <2> QED  BY <1>0, <1>1, <1>6, <1>7, ChainExists
<1>9. ASSUME NEW k \in 1..n  PROVE acc[k] = JoinFirst(acc[k - 1], k)
  <2>1. acc[k - 1] \in X  BY <1>0, <1>8 DEF Chained
  <2>2. acc[k] = step[k][acc[k - 1]]  BY <1>8 DEF Chained
  <2> QED  BY <2>1, <2>2
<1>10. acc \in [0..n -> X] /\ acc[0] = M /\ acc[n] = f[1..n]
  BY <1>8 DEF Chained
<1> HIDE DEF step, Fold, s
<1>11. JoinedBy(acc, X, block, r)
  BY <1>0, <1>5, <1>9, <1>10 DEF JoinedBy, n, M
<1> QED  BY <1>11

\* The search ends with nothing more to join: every round before frees a slot.
LEMMA JoinSettles ==
  ASSUME NEW s \in Nat, NEW block, TableOK(block.ranges, s), NEW r \in Rng, Within(r, s)
  PROVE  Join(block, r) \in Joined(block.ranges, r, s) /\ Settled(Join(block, r))
<1> DEFINE X == Joined(block.ranges, r, s)
           n == SegNum + 1
<1>0. n \in Nat /\ SegNum \in Nat /\ Rounds = 1..n /\ Slots = 1..SegNum
  BY BlockCacheAssumption DEF Rounds, Slots
<1>1. JoinBase(block.ranges, r) \in X
  BY DEF JoinBase, Joined, SameHolds, TableOK
<1>2. \A k \in Rounds : \A st \in X : JoinFirst(st, k) \in X
  BY JoinRound
<1>p. PICK acc : JoinedBy(acc, X, block, r)
  <2> HIDE DEF X
  <2> QED  BY <1>1, <1>2, JoinFold
<1>3. /\ acc \in [0..n -> X]
      /\ acc[0] = JoinBase(block.ranges, r)
      /\ \A k \in Rounds : acc[k] = JoinFirst(acc[k - 1], k)
      /\ Join(block, r) = acc[n]
  BY <1>p DEF JoinedBy
<1> HIDE DEF n
<1>4. IsFiniteSet(Slots) /\ Cardinality(Slots) = SegNum
  BY <1>0, FS_Interval
<1>5. \A T : IsFiniteSet(FreeIn(T)) /\ Cardinality(FreeIn(T)) <= SegNum
             /\ Cardinality(FreeIn(T)) \in Nat
  <2> TAKE T
  <2>1. FreeIn(T) \in SUBSET Slots  BY DEF FreeIn
  <2>2. IsFiniteSet(FreeIn(T)) /\ Cardinality(FreeIn(T)) <= SegNum  BY <1>4, <2>1, FS_Subset
  <2> QED  BY <2>2, FS_CardinalityType
<1> DEFINE P == {k \in 0..n : Settled(acc[k]) \/ Cardinality(FreeIn(acc[k].ranges)) >= k}
<1>6. 0 \in P
  BY <1>0, <1>5
<1>7. ASSUME NEW k \in 1..n, k - 1 \in P  PROVE k \in P
  <2> DEFINE old == acc[k - 1]
             new == acc[k]
  <2>1. k - 1 \in 0..n /\ old \in X /\ new = JoinFirst(old, k)
    BY <1>0, <1>3
  <2>2. Settled(old) \/ Cardinality(FreeIn(old.ranges)) >= k - 1
    BY <1>7
  <2> HIDE DEF old, new
  <2>3. /\ Settled(old) => new = old
        /\ \/ Settled(new)
           \/ \E i \in Slots \ FreeIn(old.ranges) : FreeIn(new.ranges) = FreeIn(old.ranges) \cup {i}
    BY <2>1, JoinRound
  <2>4. Settled(new) \/ Cardinality(FreeIn(new.ranges)) >= k
    <3> SUFFICES ASSUME ~Settled(new)  PROVE Cardinality(FreeIn(new.ranges)) >= k
      OBVIOUS
    <3>1. PICK i \in Slots \ FreeIn(old.ranges) : FreeIn(new.ranges) = FreeIn(old.ranges) \cup {i}
      BY <2>3
    <3>2. Cardinality(FreeIn(new.ranges)) = Cardinality(FreeIn(old.ranges)) + 1
      BY <1>5, <3>1, FS_AddElement
    <3>3. Cardinality(FreeIn(old.ranges)) >= k - 1
      BY <2>2, <2>3
    <3> QED  BY <1>0, <1>5, <3>2, <3>3
  <2>5. k \in 0..n  BY <1>0
  <2> QED  BY <2>4, <2>5 DEF new
<1>8. n \in P
  <2>1. \A k \in 1..n : k - 1 \in P => k \in P  BY <1>7
  <2> HIDE DEF P
  <2>2. \A k \in 0..n : k \in P  BY <1>0, <1>6, <2>1, Induct
  <2> QED  BY <1>0, <2>2
<1>9. Settled(acc[n])
  <2>1. ~(Cardinality(FreeIn(acc[n].ranges)) >= n)
    BY <1>0, <1>5 DEF n
  <2> QED  BY <1>8, <2>1
<1>10. acc[n] \in X
  BY <1>0, <1>3
<1> QED  BY <1>3, <1>9, <1>10

(***************************************************************************)
(* What the table of a block becomes.                                      *)
(***************************************************************************)
Block == [ranges : Table, lastPos : 0..SegNum, written : SUBSET Nat]

PutAt(T, p, r, new) ==
  new \in Table /\ \A i \in Slots : new[i] = IF i = p THEN r ELSE T[i]

LEMMA PutKeeps ==
  ASSUME NEW s \in Nat, NEW T, TableOK(T, s), NEW r \in Rng, Within(r, s),
         NEW st \in Joined(T, r, s), Hits(st) = {},
         NEW p \in Slots, NEW new, PutAt(st.ranges, p, st.range, new)
  PROVE  /\ TableOK(new, s)
         /\ \A x \in Nat : Has(new, x) => Has(T, x) \/ In(r, x)
         /\ st.ranges[p] = Free => \A x \in Nat : Has(T, x) \/ In(r, x) => Has(new, x)
<1>1. /\ st.ranges \in Table /\ st.range \in Rng
      /\ \A j \in Slots : st.ranges[j] = Free \/ st.ranges[j] = T[j]
      /\ Within(st.range, s)
      /\ SameHolds(T, r, st)
  BY DEF Joined
<1>2. new \in Table /\ \A i \in Slots : new[i] = IF i = p THEN st.range ELSE st.ranges[i]
  BY DEF PutAt
<1>3. \A i \in Slots : new[i] # Free => Within(new[i], s)
  BY <1>1, <1>2 DEF TableOK
<1>4. ASSUME NEW i \in Slots, st.ranges[i] # Free
      PROVE  Apart(st.ranges[i], st.range) /\ Apart(st.range, st.ranges[i])
  <2>1. ~Touches(st.ranges[i], st.range)
    BY DEF Hits
  <2>2. st.ranges[i] \in Rng  BY <1>1 DEF Table
  <2> QED  BY <1>1, <1>4, <2>1, <2>2 DEF Touches, Apart, Rng
<1>5. ASSUME NEW i \in Slots, NEW j \in Slots, i # j, new[i] # Free, new[j] # Free
      PROVE  Apart(new[i], new[j])
  <2>1. CASE i = p
    BY <1>2, <1>4, <1>5, <2>1
  <2>2. CASE j = p
    BY <1>2, <1>4, <1>5, <2>2
  <2>3. CASE i # p /\ j # p
    <3>1. /\ new[i] = st.ranges[i] /\ new[j] = st.ranges[j]
          /\ st.ranges[i] = T[i] /\ st.ranges[j] = T[j]
      BY <1>1, <1>2, <1>5, <2>3
    <3> QED  BY <1>5, <3>1 DEF TableOK
  <2> QED  BY <2>1, <2>2, <2>3
<1>6. TableOK(new, s)
  BY <1>2, <1>3, <1>5 DEF TableOK
<1>7. ASSUME NEW x \in Nat, Has(new, x)
      PROVE  Has(st.ranges, x) \/ In(st.range, x)
  BY <1>2, <1>7 DEF Has
<1>8. ASSUME NEW x \in Nat, Has(st.ranges, x) \/ In(st.range, x), st.ranges[p] = Free
      PROVE  Has(new, x)
  <2>1. ~In(st.ranges[p], x)  BY <1>8 DEF Free, In
  <2> QED  BY <1>2, <1>8, <2>1 DEF Has
<1>9. \A x \in Nat : Has(st.ranges, x) \/ In(st.range, x) <=> Has(T, x) \/ In(r, x)
  BY <1>1 DEF SameHolds
<1> QED  BY <1>6, <1>7, <1>8, <1>9

LEMMA StoreKeeps ==
  ASSUME NEW s \in Nat, NEW block \in Block, TableOK(block.ranges, s),
         NEW r \in Rng, Within(r, s),
         NEW st \in Joined(block.ranges, r, s), Settled(st)
  PROVE  /\ StoreRange(block, st) \in Block
         /\ TableOK(StoreRange(block, st).ranges, s)
         /\ StoreRange(block, st).written = block.written
         /\ \A x \in Nat : Has(StoreRange(block, st).ranges, x) => Has(block.ranges, x) \/ In(r, x)
         /\ ~Overflows(st) =>
              \A x \in Nat : Has(block.ranges, x) \/ In(r, x) => Has(StoreRange(block, st).ranges, x)
<1> DEFINE free == {i \in Slots : st.ranges[i] = Free}
           pos == (block.lastPos % SegNum) + 1
           T == block.ranges
           new == StoreRange(block, st)
<1>0. /\ SegNum \in Nat /\ SegNum > 0 /\ Slots = 1..SegNum /\ Slots \in SUBSET Nat
  BY BlockCacheAssumption DEF Slots
<1>1. /\ st.ranges \in Table /\ st.range \in Rng /\ st.isSubset \in BOOLEAN
      /\ \A j \in Slots : st.ranges[j] = Free \/ st.ranges[j] = T[j]
      /\ SameHolds(T, r, st)
      /\ st.isSubset => \E i \in Slots : Covers(st.ranges[i], st.range)
  BY DEF Joined
<1>2. /\ T \in Table /\ block.lastPos \in 0..SegNum /\ block.written \in SUBSET Nat
      /\ block = [ranges |-> T, lastPos |-> block.lastPos, written |-> block.written]
  BY DEF Block
<1>3. CASE st.isSubset
  <2>1. new = [block EXCEPT !.ranges = st.ranges]
    BY <1>3 DEF StoreRange
  <2>2. /\ new.ranges = st.ranges /\ new.written = block.written /\ new \in Block
    BY <1>1, <1>2, <2>1 DEF Block
  <2>3. TableOK(st.ranges, s)
    <3>1. \A i \in Slots : st.ranges[i] # Free => Within(st.ranges[i], s)
      BY <1>1 DEF TableOK
    <3>2. ASSUME NEW i \in Slots, NEW j \in Slots, i # j,
                 st.ranges[i] # Free, st.ranges[j] # Free
          PROVE  Apart(st.ranges[i], st.ranges[j])
      <4>1. st.ranges[i] = T[i] /\ st.ranges[j] = T[j]  BY <1>1, <3>2
      <4> QED  BY <3>2, <4>1 DEF TableOK
    <3> QED  BY <1>1, <3>1, <3>2 DEF TableOK
  <2>4. ASSUME NEW x \in Nat
        PROVE  Has(st.ranges, x) <=> Has(T, x) \/ In(r, x)
    <3>1. Has(st.ranges, x) \/ In(st.range, x) <=> Has(T, x) \/ In(r, x)
      BY <1>1 DEF SameHolds
    <3>2. In(st.range, x) => Has(st.ranges, x)
      <4> SUFFICES ASSUME In(st.range, x)  PROVE Has(st.ranges, x)
        OBVIOUS
      <4>1. PICK i \in Slots : Covers(st.ranges[i], st.range)
        BY <1>1, <1>3
      <4>2. st.ranges[i] \in Rng  BY <1>1 DEF Table
      <4>3. In(st.ranges[i], x)
        BY <1>1, <4>1, <4>2 DEF Covers, In, Rng
      <4> QED  BY <4>3 DEF Has
    <3> QED  BY <3>1, <3>2
  <2> HIDE DEF new
  <2> QED  BY <2>2, <2>3, <2>4 DEF new
<1>4. CASE ~st.isSubset /\ free # {}
  <2> DEFINE p == Min(free)
  <2>1. p \in Slots /\ st.ranges[p] = Free
    <3>1. free \in SUBSET Nat  BY <1>0
    <3>2. p \in free
      <4> HIDE DEF free
      <4> QED  BY <1>4, <3>1, MinIn
    <3> QED  BY <3>2
  <2>2. new = [block EXCEPT !.ranges = [st.ranges EXCEPT ![p] = st.range]]
    BY <1>4 DEF StoreRange
  <2> HIDE DEF p, free
  <2>3. PutAt(st.ranges, p, st.range, new.ranges)
    BY <1>1, <1>2, <2>1, <2>2 DEF PutAt, Table
  <2>4. new.written = block.written /\ new \in Block
    <3>1. new.ranges \in Table  BY <2>3 DEF PutAt
    <3>2. new = [ranges |-> new.ranges, lastPos |-> block.lastPos, written |-> block.written]
      BY <1>2, <2>2
    <3> QED  BY <1>2, <3>1, <3>2 DEF Block
  <2>5. Hits(st) = {}
    BY <1>4 DEF Settled
  <2> HIDE DEF new
  <2>6. /\ TableOK(new.ranges, s)
        /\ \A x \in Nat : Has(new.ranges, x) => Has(T, x) \/ In(r, x)
        /\ \A x \in Nat : Has(T, x) \/ In(r, x) => Has(new.ranges, x)
    BY <2>1, <2>3, <2>5, PutKeeps
  <2> QED  BY <2>4, <2>6 DEF new
<1>5. CASE ~st.isSubset /\ free = {}
  <2>0. block.lastPos % SegNum \in 0..(SegNum - 1)
    BY <1>0, <1>2
  <2>1. pos \in Slots /\ pos \in 0..SegNum
    BY <1>0, <2>0
  <2>2. new = [block EXCEPT !.ranges = [st.ranges EXCEPT ![pos] = st.range], !.lastPos = pos]
    BY <1>5 DEF StoreRange
  <2>3. Overflows(st)
    BY <1>5 DEF Overflows
  <2> HIDE DEF pos, free
  <2>4. PutAt(st.ranges, pos, st.range, new.ranges)
    BY <1>1, <1>2, <2>1, <2>2 DEF PutAt, Table
  <2>5. new.written = block.written /\ new \in Block
    <3>1. new.ranges \in Table  BY <2>4 DEF PutAt
    <3>2. new = [ranges |-> new.ranges, lastPos |-> pos, written |-> block.written]
      BY <1>2, <2>2
    <3> QED  BY <1>2, <2>1, <3>1, <3>2 DEF Block
  <2>6. Hits(st) = {}
    BY <1>5 DEF Settled
  <2> HIDE DEF new
  <2>7. /\ TableOK(new.ranges, s)
        /\ \A x \in Nat : Has(new.ranges, x) => Has(T, x) \/ In(r, x)
    BY <2>1, <2>4, <2>6, PutKeeps
  <2> QED  BY <2>3, <2>5, <2>7 DEF new
<1> QED  BY <1>3, <1>4, <1>5

-----------------------------------------------------------------------------
(***************************************************************************)
(* The map and the list of a cache.                                        *)
(***************************************************************************)
KeySet == Names \X BlockAt

Maps == UNION {[D -> Block] : D \in SUBSET KeySet}

MapOK(map) ==
  /\ map \in Maps
  /\ \A k \in DOMAIN map : /\ TableOK(map[k].ranges, k[2])
                           /\ map[k].written \subseteq Span(k[2], k[2] + BlockLen)

Once(s) == \A i, j \in 1..Len(s) : s[i] = s[j] => i = j

ListOK(map, lru) ==
  /\ lru \in Seq(KeySet) /\ Once(lru) /\ Len(lru) <= MaxBlocks
  /\ \A k : k \in DOMAIN map <=> \E i \in 1..Len(lru) : lru[i] = k

CopiedIn(b) == \A x \in Nat : Has(b.ranges, x) => x \in b.written

Acc == [map : Maps, lru : Seq(KeySet), stopped : BOOLEAN, overflown : SUBSET KeySet]

\* What an insertion goes through.  over: the blocks overflown before.
Inserted(over) ==
  {c \in Acc :
     /\ MapOK(c.map) /\ ListOK(c.map, c.lru)
     /\ \A k \in DOMAIN c.map : k \in over \/ k \in c.overflown \/ CopiedIn(c.map[k])}

LEMMA MapsAre ==
  ASSUME NEW map
  PROVE  map \in Maps <=> DOMAIN map \in SUBSET KeySet /\ map \in [DOMAIN map -> Block]
  BY DEF Maps

LEMMA KeyFacts ==
  /\ \A k \in KeySet : k[1] \in Names /\ k[2] \in BlockAt /\ k[2] \in Nat
  /\ \A name \in Names : \A s \in BlockAt :
       Key(name, s) \in KeySet /\ Key(name, s)[1] = name /\ Key(name, s)[2] = s
  BY BlockAtNat DEF KeySet, Key

\* addBlock: all keys stay and one is added, or the first of a full list goes.
AddedTo(c, key, new) ==
  /\ new \in Acc /\ new.stopped = c.stopped /\ new.overflown = c.overflown
  /\ key \in DOMAIN new.map /\ new.map[key] = NewBlock
  /\ \A k \in DOMAIN new.map : k # key => k \in DOMAIN c.map /\ new.map[k] = c.map[k]
  /\ \/ /\ Len(c.lru) < MaxBlocks /\ Len(new.lru) = Len(c.lru) + 1
        /\ \A i \in 1..Len(c.lru) : new.lru[i] = c.lru[i]
        /\ \A k \in DOMAIN c.map : k \in DOMAIN new.map
     \/ /\ Len(c.lru) = MaxBlocks /\ Len(new.lru) = MaxBlocks
        /\ \A i \in 1..(MaxBlocks - 1) : new.lru[i] = c.lru[i + 1]
        /\ \A k \in DOMAIN c.map : k = c.lru[1] \/ k \in DOMAIN new.map
        /\ c.lru[1] \notin DOMAIN new.map

LEMMA NewBlockIs ==
  /\ NewBlock \in Block /\ NewBlock.written = {}
  /\ \A s \in Nat : TableOK(NewBlock.ranges, s)
  /\ \A x \in Nat : ~Has(NewBlock.ranges, x)
<1>1. NewBlock.ranges = [i \in Slots |-> Free] /\ NewBlock.lastPos = 0 /\ NewBlock.written = {}
  BY DEF NewBlock
<1>2. NewBlock.ranges \in Table /\ \A i \in Slots : NewBlock.ranges[i] = Free
  BY <1>1 DEF Table, Rng, Free
<1>3. NewBlock \in Block
  BY <1>1, <1>2, BlockCacheAssumption DEF NewBlock, Block
<1>4. \A s \in Nat : TableOK(NewBlock.ranges, s)
  BY <1>2 DEF TableOK
<1>5. \A x \in Nat : ~Has(NewBlock.ranges, x)
  BY <1>2 DEF Has, In, Free
<1> QED  BY <1>1, <1>3, <1>4, <1>5

LEMMA AddBlockIs ==
  ASSUME NEW c \in Acc, MapOK(c.map), ListOK(c.map, c.lru),
         NEW key \in KeySet, key \notin DOMAIN c.map
  PROVE  /\ AddedTo(c, key, AddBlock(c, key))
         /\ ListOK(AddBlock(c, key).map, AddBlock(c, key).lru)
         /\ MapOK(AddBlock(c, key).map)
<1> DEFINE lru == Append(c.lru, key)
           kept == IF Len(lru) > MaxBlocks THEN Tail(lru) ELSE lru
           map == [k \in ToSet(kept) |-> IF k = key THEN NewBlock ELSE c.map[k]]
           new == AddBlock(c, key)
           n == Len(c.lru)
<1>0. MaxBlocks \in Nat /\ MaxBlocks >= 2
  BY BlockCacheAssumption
<1>1. /\ c = [map |-> c.map, lru |-> c.lru, stopped |-> c.stopped, overflown |-> c.overflown]
      /\ c.stopped \in BOOLEAN /\ c.overflown \in SUBSET KeySet
      /\ c.lru \in Seq(KeySet) /\ c.map \in [DOMAIN c.map -> Block]
      /\ DOMAIN c.map \in SUBSET KeySet
  BY MapsAre DEF Acc
<1>2. /\ Once(c.lru) /\ n <= MaxBlocks /\ n \in Nat
      /\ \A k : k \in DOMAIN c.map <=> \E i \in 1..n : c.lru[i] = k
  BY <1>1 DEF ListOK
<1>3. new = [map |-> map, lru |-> kept, stopped |-> c.stopped, overflown |-> c.overflown]
  <2>1. new = [c EXCEPT !.map = map, !.lru = kept]
    BY DEF AddBlock
  <2> HIDE DEF new, map, kept
  <2> QED  BY <1>1, <2>1
<1>4. /\ lru \in Seq(KeySet) /\ Len(lru) = n + 1
      /\ \A i \in 1..(n + 1) : lru[i] = IF i = n + 1 THEN key ELSE c.lru[i]
  BY <1>1
<1>5. /\ n < MaxBlocks =>
           /\ kept \in Seq(KeySet) /\ Len(kept) = n + 1
           /\ \A i \in 1..(n + 1) : kept[i] = IF i = n + 1 THEN key ELSE c.lru[i]
      /\ n = MaxBlocks =>
           /\ kept \in Seq(KeySet) /\ Len(kept) = n
           /\ \A i \in 1..n : kept[i] = IF i = n THEN key ELSE c.lru[i + 1]
  <2>1. CASE n < MaxBlocks
    <3>1. kept = lru  BY <1>0, <1>2, <1>4, <2>1
    <3> HIDE DEF kept, lru
    <3> QED  BY <1>0, <1>2, <1>4, <2>1, <3>1
  <2>2. CASE n = MaxBlocks
    <3>1. kept = Tail(lru)  BY <1>0, <1>2, <1>4, <2>2
    <3> HIDE DEF kept, lru
    <3>2. Tail(lru) \in Seq(KeySet) /\ Len(Tail(lru)) = n
          /\ \A i \in 1..n : Tail(lru)[i] = lru[i + 1]
      BY <1>0, <1>2, <1>4, <2>2
    <3>3. \A i \in 1..n : lru[i + 1] = IF i = n THEN key ELSE c.lru[i + 1]
      BY <1>2, <1>4
    <3> QED  BY <1>0, <2>2, <3>1, <3>2, <3>3
  <2> QED  BY <1>0, <1>2, <2>1, <2>2
<1>6. /\ kept \in Seq(KeySet) /\ Len(kept) \in Nat /\ Len(kept) <= MaxBlocks
      /\ Len(kept) >= 1 /\ kept[Len(kept)] = key
  <2> HIDE DEF kept
  <2>1. CASE n < MaxBlocks
    <3>1. n + 1 \in 1..(n + 1)  BY <1>2
    <3> QED  BY <1>0, <1>2, <1>5, <2>1, <3>1
  <2>2. CASE n = MaxBlocks
    <3>1. n \in 1..n  BY <1>0, <2>2
    <3> QED  BY <1>0, <1>2, <1>5, <2>2, <3>1
  <2> QED  BY <1>0, <1>2, <2>1, <2>2
<1>7. \A k : k \in ToSet(kept) <=> \E i \in 1..Len(kept) : kept[i] = k
  <2>1. DOMAIN kept = 1..Len(kept)  BY <1>6
  <2> QED  BY <2>1 DEF ToSet
<1>8. \A i \in 1..n : c.lru[i] # key
  BY <1>2
<1>9. Once(kept)
  <2>1. CASE n < MaxBlocks
    <3> HIDE DEF kept
    <3> QED  BY <1>2, <1>5, <1>8, <2>1 DEF Once
  <2>2. CASE n = MaxBlocks
    <3> HIDE DEF kept
    <3>1. SUFFICES ASSUME NEW i \in 1..n, NEW j \in 1..n, kept[i] = kept[j]  PROVE i = j
      BY <1>5, <2>2 DEF Once
    <3>2. kept[i] = IF i = n THEN key ELSE c.lru[i + 1]  BY <1>5, <2>2
    <3>3. kept[j] = IF j = n THEN key ELSE c.lru[j + 1]  BY <1>5, <2>2
    <3>4. i # n => i + 1 \in 1..n /\ c.lru[i + 1] # key  BY <1>2, <1>8
    <3>5. j # n => j + 1 \in 1..n /\ c.lru[j + 1] # key  BY <1>2, <1>8
    <3>6. i # n /\ j # n => i + 1 = j + 1  BY <1>2, <3>1, <3>2, <3>3, <3>4, <3>5 DEF Once
    <3>7. CASE i = n
      <4>1. kept[j] = key  BY <3>1, <3>2, <3>7
      <4> QED  BY <3>3, <3>5, <3>7, <4>1
    <3>8. CASE j = n
      <4>1. kept[i] = key  BY <3>1, <3>3, <3>8
      <4> QED  BY <3>2, <3>4, <3>8, <4>1
    <3>9. CASE i # n /\ j # n
      BY <1>2, <3>6, <3>9
    <3> QED  BY <3>7, <3>8, <3>9
  <2> QED  BY <1>0, <1>2, <2>1, <2>2
<1>10. /\ \A k \in ToSet(kept) : k = key \/ k \in DOMAIN c.map
       /\ key \in ToSet(kept) /\ ToSet(kept) \in SUBSET KeySet
  <2>1. key \in ToSet(kept)
    <3> HIDE DEF kept
    <3> QED  BY <1>6, <1>7
  <2>2. ASSUME NEW k \in ToSet(kept), k # key  PROVE k \in DOMAIN c.map
    <3> HIDE DEF kept
    <3>1. PICK i \in 1..Len(kept) : kept[i] = k  BY <1>7
    <3>2. CASE n < MaxBlocks
      <4>1. i \in 1..n /\ k = c.lru[i]  BY <1>2, <1>5, <2>2, <3>1, <3>2
      <4> QED  BY <1>2, <4>1
    <3>3. CASE n = MaxBlocks
      <4>1. i + 1 \in 1..n /\ k = c.lru[i + 1]  BY <1>2, <1>5, <2>2, <3>1, <3>3
      <4> QED  BY <1>2, <4>1
    <3> QED  BY <1>0, <1>2, <3>2, <3>3
  <2> HIDE DEF kept
  <2> QED  BY <1>1, <2>1, <2>2
<1> HIDE DEF kept
<1>11. /\ new.map = map /\ new.lru = kept
       /\ new.stopped = c.stopped /\ new.overflown = c.overflown
       /\ DOMAIN map = ToSet(kept) /\ map[key] = NewBlock
       /\ \A k \in ToSet(kept) : k # key => map[k] = c.map[k]
  BY <1>3, <1>10
<1>12. \A k \in ToSet(kept) : map[k] \in Block
  BY <1>1, <1>10, <1>11, NewBlockIs
<1>13. map \in [DOMAIN map -> Block]
  BY <1>11, <1>12
<1> HIDE DEF map
<1>14. map \in Maps
  BY <1>10, <1>11, <1>13, MapsAre
<1>15. MapOK(map)
  <2>1. ASSUME NEW k \in DOMAIN map
        PROVE  /\ TableOK(map[k].ranges, k[2])
               /\ map[k].written \subseteq Span(k[2], k[2] + BlockLen)
    <3>1. CASE k = key
      BY <1>11, <3>1, NewBlockIs, KeyFacts
    <3>2. CASE k # key
      <4>1. k \in DOMAIN c.map /\ map[k] = c.map[k]  BY <1>10, <1>11, <3>2
      <4> QED  BY <4>1 DEF MapOK
    <3> QED  BY <3>1, <3>2
  <2> QED  BY <1>14, <2>1 DEF MapOK
<1>16. ListOK(map, kept)
  BY <1>6, <1>7, <1>9, <1>11 DEF ListOK
<1>17. new \in Acc
  BY <1>1, <1>3, <1>6, <1>14 DEF Acc
<1>18. \/ /\ n < MaxBlocks /\ Len(kept) = n + 1
          /\ \A i \in 1..n : kept[i] = c.lru[i]
          /\ \A k \in DOMAIN c.map : k \in DOMAIN map
       \/ /\ n = MaxBlocks /\ Len(kept) = MaxBlocks
          /\ \A i \in 1..(MaxBlocks - 1) : kept[i] = c.lru[i + 1]
          /\ \A k \in DOMAIN c.map : k = c.lru[1] \/ k \in DOMAIN map
          /\ c.lru[1] \notin DOMAIN map
  <2>1. CASE n < MaxBlocks
    <3>1. Len(kept) = n + 1 /\ \A i \in 1..n : kept[i] = c.lru[i]
      BY <1>2, <1>5, <2>1
    <3>2. \A k \in DOMAIN c.map : k \in DOMAIN map
      BY <1>2, <1>7, <1>11, <3>1
    <3> QED  BY <2>1, <3>1, <3>2
  <2>2. CASE n = MaxBlocks
    <3>1. Len(kept) = n /\ \A i \in 1..(n - 1) : kept[i] = c.lru[i + 1]
      BY <1>2, <1>5, <2>2
    <3>2. ASSUME NEW k \in DOMAIN c.map, k # c.lru[1]  PROVE k \in DOMAIN map
      <4>1. PICK i \in 1..n : c.lru[i] = k  BY <1>2
      <4>2. i - 1 \in 1..(n - 1) /\ (i - 1) + 1 = i  BY <1>2, <3>2, <4>1
      <4>3. i - 1 \in 1..Len(kept) /\ kept[i - 1] = k  BY <1>2, <3>1, <4>1, <4>2
      <4> QED  BY <1>7, <1>11, <4>3
    <3>3. c.lru[1] \notin DOMAIN map
      <4> SUFFICES ASSUME NEW i \in 1..n, kept[i] = c.lru[1]  PROVE FALSE
        BY <1>7, <1>11, <3>1
      <4>1. 1 \in 1..n  BY <1>0, <2>2
      <4>2. CASE i = n
        <5>1. kept[i] = key  BY <1>5, <2>2, <4>2
        <5> QED  BY <1>8, <4>1, <5>1
      <4>3. CASE i # n
        <5>1. kept[i] = c.lru[i + 1] /\ i + 1 \in 1..n  BY <1>2, <1>5, <2>2, <4>3
        <5>2. i + 1 = 1  BY <1>2, <4>1, <5>1 DEF Once
        <5> QED  BY <1>2, <5>2
      <4> QED  BY <4>2, <4>3
    <3> QED  BY <2>2, <3>1, <3>2, <3>3
  <2> QED  BY <1>0, <1>2, <2>1, <2>2
<1>19. AddedTo(c, key, new)
  <2>1. \A k \in DOMAIN new.map : k # key => k \in DOMAIN c.map /\ new.map[k] = c.map[k]
    BY <1>10, <1>11
  <2> HIDE DEF new
  <2> QED  BY <1>10, <1>11, <1>17, <1>18, <2>1 DEF AddedTo
<1> QED  BY <1>11, <1>15, <1>16, <1>19

\* A block of the map, and the keys the table of which was too small, change.
LEMMA ReplaceKeeps ==
  ASSUME NEW over, NEW c \in Inserted(over), NEW key \in DOMAIN c.map,
         NEW b \in Block, TableOK(b.ranges, key[2]),
         b.written \subseteq Span(key[2], key[2] + BlockLen),
         NEW flown \in SUBSET KeySet, c.overflown \subseteq flown, NEW stop \in BOOLEAN,
         key \in flown \/ key \in over \/ CopiedIn(b)
  PROVE  [map |-> [c.map EXCEPT ![key] = b], lru |-> c.lru, stopped |-> stop,
          overflown |-> flown] \in Inserted(over)
<1> DEFINE map == [c.map EXCEPT ![key] = b]
<1>1. /\ c.map \in [DOMAIN c.map -> Block] /\ DOMAIN c.map \in SUBSET KeySet
      /\ c.lru \in Seq(KeySet) /\ MapOK(c.map) /\ ListOK(c.map, c.lru)
      /\ \A k \in DOMAIN c.map : k \in over \/ k \in c.overflown \/ CopiedIn(c.map[k])
  BY MapsAre DEF Inserted, Acc
<1>2. /\ DOMAIN map = DOMAIN c.map /\ map \in [DOMAIN map -> Block]
      /\ \A k \in DOMAIN map : map[k] = IF k = key THEN b ELSE c.map[k]
  BY <1>1
<1> HIDE DEF map
<1>3. map \in Maps
  BY <1>1, <1>2, MapsAre
<1>4. MapOK(map)
  BY <1>1, <1>2, <1>3 DEF MapOK
<1>5. ListOK(map, c.lru)
  BY <1>1, <1>2 DEF ListOK
<1>6. \A k \in DOMAIN map : k \in over \/ k \in flown \/ CopiedIn(map[k])
  BY <1>1, <1>2
<1> DEFINE new == [map |-> map, lru |-> c.lru, stopped |-> stop, overflown |-> flown]
<1>7. new.map = map /\ new.lru = c.lru /\ new.overflown = flown /\ new \in Acc
  BY <1>1, <1>3 DEF Acc
<1> HIDE DEF new
<1>8. new \in Inserted(over)
  BY <1>4, <1>5, <1>6, <1>7 DEF Inserted
<1> QED  BY <1>8 DEF new, map

(***************************************************************************)
(* A round of insert: the block is found or added, the part of the range   *)
(* that is in it is joined with its table, and its bytes are copied, or    *)
(* the table was full.  What the tables call valid does not shrink.        *)
(***************************************************************************)
Found(c, key) == IF key \in DOMAIN c.map THEN c ELSE AddBlock(c, key)

Grows(old, new) ==
  /\ old.overflown \subseteq new.overflown
  /\ \A k \in DOMAIN old.map \cap DOMAIN new.map :
       k \in new.overflown \/
         \A x \in Nat : Has(old.map[k].ranges, x) => Has(new.map[k].ranges, x)

RoundOf(c, key, new) ==
  \/ new = c
  \/ /\ DOMAIN new.map = DOMAIN Found(c, key).map /\ new.lru = Found(c, key).lru
     /\ Grows(c, new)

LEMMA InsertRound ==
  ASSUME NEW over, NEW c \in Inserted(over), NEW name \in Names, NEW start \in BlockAt,
         NEW r \in Rng, r.start < r.end, start < r.end, r.start < start + BlockLen
  PROVE  /\ InsertBlock(c, name, start, r) \in Inserted(over)
         /\ RoundOf(c, Key(name, start), InsertBlock(c, name, start, r))
<1> DEFINE key == Key(name, start)
           part == [start |-> Max({r.start, start}), end |-> Min({r.end, start + BlockLen})]
           found == IF key \in DOMAIN c.map THEN c ELSE AddBlock(c, key)
           B == found.map[key]
           st == Join(B, part)
           stored == StoreRange(B, st)
           copied == [stored EXCEPT !.written = @ \cup Span(part.start, part.end)]
           new == InsertBlock(c, name, start, r)
<1>0. BlockLen \in Nat /\ BlockLen > 0 /\ start \in Nat
  BY BlockCacheAssumption, BlockAtNat
<1>1. key \in KeySet /\ key[1] = name /\ key[2] = start
  BY KeyFacts
<1>2. new = IF c.stopped THEN c
            ELSE IF Overflows(st)
            THEN [found EXCEPT !.map[key] = stored, !.stopped = TRUE,
                               !.overflown = @ \cup {key}]
            ELSE [found EXCEPT !.map[key] = copied]
  BY DEF InsertBlock
<1>3. part \in Rng /\ Within(part, start)
  <2>1. /\ r.start \in Nat /\ r.end \in Nat /\ start + BlockLen \in Nat
    BY <1>0 DEF Rng
  <2>2. /\ Max({r.start, start}) \in Nat
        /\ Max({r.start, start}) = IF r.start <= start THEN start ELSE r.start
    BY <1>0, <2>1, MinMax
  <2>3. /\ Min({r.end, start + BlockLen}) \in Nat
        /\ Min({r.end, start + BlockLen}) = IF r.end <= start + BlockLen THEN r.end ELSE start + BlockLen
    BY <2>1, MinMax
  <2>4. part.start = Max({r.start, start}) /\ part.end = Min({r.end, start + BlockLen})
        /\ part \in Rng
    BY <2>2, <2>3 DEF Rng
  <2> HIDE DEF part
  <2> QED  BY <1>0, <2>1, <2>2, <2>3, <2>4 DEF Within
<1> HIDE DEF part, new
<1>4. /\ found \in Inserted(over) /\ key \in DOMAIN found.map
      /\ found.stopped = c.stopped /\ found.overflown = c.overflown
      /\ \A k \in DOMAIN c.map \cap DOMAIN found.map : found.map[k] = c.map[k]
  <2>1. CASE key \in DOMAIN c.map
    BY <2>1
  <2>2. CASE key \notin DOMAIN c.map
    <3> DEFINE a == AddBlock(c, key)
    <3>1. c \in Acc /\ MapOK(c.map) /\ ListOK(c.map, c.lru)
      BY DEF Inserted
    <3> HIDE DEF key
    <3>2. AddedTo(c, key, a) /\ ListOK(a.map, a.lru) /\ MapOK(a.map)
      BY <1>1, <2>2, <3>1, AddBlockIs
    <3>3. found = a  BY <2>2
    <3> HIDE DEF a, found
    <3>4. /\ a \in Acc /\ a.stopped = c.stopped /\ a.overflown = c.overflown
          /\ key \in DOMAIN a.map /\ a.map[key] = NewBlock
          /\ \A k \in DOMAIN a.map : k # key => k \in DOMAIN c.map /\ a.map[k] = c.map[k]
      BY <3>2 DEF AddedTo
    <3>5. CopiedIn(NewBlock)
      BY NewBlockIs DEF CopiedIn
    <3>6. \A k \in DOMAIN a.map : k \in over \/ k \in a.overflown \/ CopiedIn(a.map[k])
      BY <3>4, <3>5 DEF Inserted
    <3>7. a \in Inserted(over)
      BY <3>2, <3>4, <3>6 DEF Inserted
    <3> QED  BY <2>2, <3>3, <3>4, <3>7
  <2> QED  BY <2>1, <2>2
<1>5. found = Found(c, key)
  BY DEF Found
<1> HIDE DEF key, found
<1>6. /\ B \in Block /\ TableOK(B.ranges, start)
      /\ B.written \subseteq Span(start, start + BlockLen)
      /\ key \in over \/ key \in found.overflown \/ CopiedIn(B)
  <2>1. found.map \in [DOMAIN found.map -> Block] /\ MapOK(found.map)
    BY <1>4, MapsAre DEF Inserted, Acc
  <2>2. key \in over \/ key \in found.overflown \/ CopiedIn(B)
    BY <1>4 DEF Inserted
  <2> QED  BY <1>1, <1>4, <2>1, <2>2 DEF MapOK
<1> HIDE DEF B
<1>7. st \in Joined(B.ranges, part, start) /\ Settled(st)
  BY <1>0, <1>3, <1>6, JoinSettles
<1> HIDE DEF st
<1>8. /\ stored \in Block /\ TableOK(stored.ranges, start) /\ stored.written = B.written
      /\ \A x \in Nat : Has(stored.ranges, x) => Has(B.ranges, x) \/ In(part, x)
      /\ ~Overflows(st) =>
           \A x \in Nat : Has(B.ranges, x) \/ In(part, x) => Has(stored.ranges, x)
  BY <1>0, <1>3, <1>6, <1>7, StoreKeeps
<1> HIDE DEF stored
<1>9. found = [map |-> found.map, lru |-> found.lru, stopped |-> found.stopped,
               overflown |-> found.overflown]
      /\ found.map \in [DOMAIN found.map -> Block] /\ found.overflown \in SUBSET KeySet
      /\ found.stopped \in BOOLEAN
  BY <1>4, MapsAre DEF Inserted, Acc
<1>10. CASE c.stopped
  BY <1>2, <1>10 DEF RoundOf, key, new
<1>11. CASE ~c.stopped /\ Overflows(st)
  <2> DEFINE flown == found.overflown \cup {key}
             n == [map |-> [found.map EXCEPT ![key] = stored], lru |-> found.lru,
                   stopped |-> TRUE, overflown |-> flown]
  <2>1. new = n
    BY <1>2, <1>9, <1>11
  <2>2. /\ flown \in SUBSET KeySet /\ found.overflown \subseteq flown /\ key \in flown
    BY <1>1, <1>9
  <2>3. stored.written \subseteq Span(key[2], key[2] + BlockLen)
    BY <1>1, <1>6, <1>8
  <2> HIDE DEF flown
  <2>4. n \in Inserted(over)
    BY <1>1, <1>4, <1>8, <2>2, <2>3, ReplaceKeeps
  <2>5. DOMAIN n.map = DOMAIN found.map /\ n.lru = found.lru /\ n.overflown = flown
        /\ \A k \in DOMAIN n.map : k # key => n.map[k] = found.map[k]
    BY <1>9
  <2> HIDE DEF n
  <2>6. Grows(c, n)
    BY <1>4, <2>2, <2>5 DEF Grows
  <2>7. RoundOf(c, key, n)
    BY <1>5, <2>5, <2>6 DEF RoundOf
  <2> QED  BY <2>1, <2>4, <2>7 DEF key, new
<1>12. CASE ~c.stopped /\ ~Overflows(st)
  <2> DEFINE n == [map |-> [found.map EXCEPT ![key] = copied], lru |-> found.lru,
                   stopped |-> found.stopped, overflown |-> found.overflown]
  <2>1. new = n
    BY <1>2, <1>9, <1>12
  <2>2. copied.ranges = stored.ranges /\ copied \in Block
        /\ copied.written = B.written \cup Span(part.start, part.end)
    <3>1. Span(part.start, part.end) \in SUBSET Nat
      BY <1>3 DEF Span, Rng
    <3> QED  BY <1>8, <3>1 DEF Block
  <2> HIDE DEF copied
  <2>3. copied.written \subseteq Span(key[2], key[2] + BlockLen)
    <3>1. Span(part.start, part.end) \subseteq Span(start, start + BlockLen)
      BY <1>0, <1>3 DEF Span, Within, Rng
    <3> QED  BY <1>1, <1>6, <2>2, <3>1
  <2>4. CopiedIn(B) => CopiedIn(copied)
    <3>1. \A x \in Nat : In(part, x) => x \in Span(part.start, part.end)
      BY <1>3 DEF In, Span, Rng
    <3> QED  BY <1>8, <2>2, <3>1 DEF CopiedIn
  <2>5. TableOK(copied.ranges, key[2])
    BY <1>1, <1>8, <2>2
  <2>6. n \in Inserted(over)
    BY <1>4, <1>6, <1>9, <2>2, <2>3, <2>4, <2>5, ReplaceKeeps
  <2>7. DOMAIN n.map = DOMAIN found.map /\ n.lru = found.lru /\ n.overflown = found.overflown
        /\ \A k \in DOMAIN n.map : n.map[k] = IF k = key THEN copied ELSE found.map[k]
    BY <1>9
  <2> HIDE DEF n
  <2>8. Grows(c, n)
    <3>1. ASSUME NEW k \in DOMAIN c.map \cap DOMAIN n.map, NEW x \in Nat, Has(c.map[k].ranges, x)
          PROVE  Has(n.map[k].ranges, x)
      <4>1. k \in DOMAIN found.map /\ found.map[k] = c.map[k]  BY <1>4, <2>7, <3>1
      <4>2. CASE k = key
        <5>1. B = c.map[k]  BY <4>1, <4>2 DEF B
        <5> QED  BY <1>8, <1>12, <2>2, <2>7, <3>1, <4>2, <5>1
      <4>3. CASE k # key
        BY <2>7, <3>1, <4>1, <4>3
      <4> QED  BY <4>2, <4>3
    <3> QED  BY <1>4, <2>7, <3>1 DEF Grows
  <2>9. RoundOf(c, key, n)
    BY <1>5, <2>7, <2>8 DEF RoundOf
  <2> QED  BY <2>1, <2>6, <2>9 DEF key, new
<1> QED  BY <1>10, <1>11, <1>12

(***************************************************************************)
(* A whole insertion: a chain of rounds.                                   *)
(***************************************************************************)
InsertAll(name, a, b, base, s) ==
  FoldLeft(LAMBDA acc, x : InsertBlock(acc, name, x, [start |-> a, end |-> b]), base, s)

InsertedBy(acc, X, name, r, base, n, s) ==
  /\ acc \in [0..n -> X] /\ acc[0] = base
  /\ \A k \in 1..n : acc[k] = InsertBlock(acc[k - 1], name, s[k], r)
  /\ InsertAll(name, r.start, r.end, base, s) = acc[n]

LEMMA InsertFold ==
  ASSUME NEW X, NEW name, NEW a, NEW b, NEW r, r = [start |-> a, end |-> b],
         NEW n \in Nat, NEW S, NEW s \in [1..n -> S], NEW base \in X,
         \A k \in 1..n : \A c \in X : InsertBlock(c, name, s[k], r) \in X
  PROVE  \E acc : InsertedBy(acc, X, name, r, base, n, s)
<1> DEFINE step == [k \in 1..n |-> [c \in X |-> InsertBlock(c, name, s[k], r)]]
           Fold(g) == g = [t \in SUBSET (1..n) |->
                             IF t = {} THEN base
                             ELSE InsertBlock(g[t \ {Max(t)}], name, s[Max(t)], r)]
<1>1. step \in [1..n -> [X -> X]]
  OBVIOUS
<1>2. PICK g \in [SUBSET (1..n) -> X] : Iterates(g, step, base, n)
  <2> HIDE DEF step
  <2> QED  BY <1>1, IterExists
<1>3. \E e : Fold(e)
  <2>0. StepsBy(g, X, step, base, n)
    <3> HIDE DEF step
    <3> QED  BY <1>2, IterValues
  <2>1. ASSUME NEW t \in SUBSET (1..n)
        PROVE  g[t] = IF t = {} THEN base
                      ELSE InsertBlock(g[t \ {Max(t)}], name, s[Max(t)], r)
    <3>1. CASE t = {}
      <4> HIDE DEF step
      <4> QED  BY <2>0, <3>1 DEF StepsBy
    <3>2. CASE t # {}
      <4>1. /\ Max(t) \in 1..n /\ g[t \ {Max(t)}] \in X
            /\ g[t] = step[Max(t)][g[t \ {Max(t)}]]
        <5> HIDE DEF step
        <5> QED  BY <2>0, <3>2 DEF StepsBy
      <4> QED  BY <3>2, <4>1
    <3> QED  BY <3>1, <3>2
  <2>2. g = [t \in SUBSET (1..n) |-> g[t]]  OBVIOUS
  <2>3. Fold(g)  BY <2>1, <2>2, Zenon
  <2> QED  BY <2>3
<1> DEFINE f == CHOOSE e : Fold(e)
<1>4. Fold(f)
  <2> HIDE DEF Fold
  <2> QED  BY <1>3
<1>5. InsertAll(name, a, b, base, s) = f[1..n]
  <2>1. DOMAIN s = 1..n  OBVIOUS
  <2> QED  BY <2>1, Zenon DEF InsertAll, FoldLeft, MapThenFoldSet
<1> HIDE DEF f
<1>6. f[{}] = base
  <2>1. {} \in SUBSET (1..n)  OBVIOUS
  <2> QED  BY <1>4, <2>1
<1>7. ASSUME NEW k \in 1..n, f[1..(k - 1)] \in X
      PROVE  f[1..k] = step[k][f[1..(k - 1)]]
  <2>1. /\ Max(1..k) = k /\ (1..k) \ {Max(1..k)} = 1..(k - 1)
        /\ 1..k # {} /\ 1..k \in SUBSET (1..n)
    BY IterChain
  <2>2. f[1..k] = InsertBlock(f[(1..k) \ {Max(1..k)}], name, s[Max(1..k)], r)
    BY <1>4, <2>1
  <2>3. f[1..k] = InsertBlock(f[1..(k - 1)], name, s[k], r)
    BY <2>1, <2>2
  <2> QED  BY <1>7, <2>3
<1>8. PICK acc : Chained(acc, X, step, base, n, f[1..n])
  <2> HIDE DEF step, Fold
  <2> QED  BY <1>1, <1>6, <1>7, ChainExists
<1>9. ASSUME NEW k \in 1..n  PROVE acc[k] = InsertBlock(acc[k - 1], name, s[k], r)
  <2>1. acc[k - 1] \in X  BY <1>8 DEF Chained
  <2>2. acc[k] = step[k][acc[k - 1]]  BY <1>8 DEF Chained
  <2> QED  BY <2>1, <2>2
<1>10. acc \in [0..n -> X] /\ acc[0] = base /\ acc[n] = f[1..n]
  BY <1>8 DEF Chained
<1>11. r.start = a /\ r.end = b
  OBVIOUS
<1> HIDE DEF step, Fold
<1>12. InsertedBy(acc, X, name, r, base, n, s)
  BY <1>5, <1>9, <1>10, <1>11 DEF InsertedBy
<1> QED  BY <1>12

-----------------------------------------------------------------------------
(***************************************************************************)
(* The cache as a whole, and what an insertion does to it.                 *)
(***************************************************************************)
CacheInv ==
  /\ MapOK(dataMap) /\ ListOK(dataMap, lruList)
  /\ overflown \in SUBSET DOMAIN dataMap
  /\ \A k \in DOMAIN dataMap : k \in overflown \/ CopiedIn(dataMap[k])

Start == [map |-> dataMap, lru |-> lruList, stopped |-> FALSE, overflown |-> {}]

InsertsVia(name, r, n, s, acc) ==
  /\ acc \in [0..n -> Inserted(overflown)] /\ acc[0] = Start
  /\ \A k \in 1..n : RoundOf(acc[k - 1], Key(name, s[k]), acc[k])
  /\ dataMap' = acc[n].map /\ lruList' = acc[n].lru
  /\ overflown' = (overflown \cup acc[n].overflown) \cap DOMAIN acc[n].map

LEMMA InsertChain ==
  ASSUME CacheInv, NEW name \in Names, NEW a \in Nat, NEW b \in 0..Limit, a < b,
         Insert(name, a, b)
  PROVE  \E n \in Nat : \E s, acc :
           /\ InsertsVia(name, [start |-> a, end |-> b], n, s, acc)
           /\ s \in [1..n -> BlockAt]
           /\ b <= a + BlockLen => n <= 2
<1> DEFINE r == [start |-> a, end |-> b]
           s == BlockStarts(a, b)
           X == Inserted(overflown)
<1>1. r \in Rng /\ r.start = a /\ r.end = b
  BY BlockCacheAssumption DEF Rng
<1>2. PICK n \in Nat \ {0} :
        /\ s \in [1..n -> BlockAt]
        /\ \A i \in 1..n : s[i] < b /\ a < s[i] + BlockLen
        /\ b <= a + BlockLen => n <= 2
  <2> HIDE DEF s
  <2> QED  BY BlocksVisited DEF s
<1>3. Start \in X
  <2>1. /\ MapOK(dataMap) /\ ListOK(dataMap, lruList)
        /\ \A k \in DOMAIN dataMap : k \in overflown \/ CopiedIn(dataMap[k])
    BY DEF CacheInv
  <2>2. dataMap \in Maps /\ lruList \in Seq(KeySet)
    BY <2>1 DEF MapOK, ListOK
  <2>3. Start \in Acc /\ Start.map = dataMap /\ Start.lru = lruList
    BY <2>2 DEF Start, Acc
  <2> HIDE DEF Start
  <2> QED  BY <2>1, <2>3 DEF Inserted
<1> DEFINE d == InsertAll(name, a, b, Start, s)
<1>4. /\ dataMap' = d.map /\ lruList' = d.lru
      /\ overflown' = (overflown \cup d.overflown) \cap DOMAIN d.map
  BY DEF Insert, InsertAll, Start
<1> HIDE DEF r, s, X
<1>5. ASSUME NEW k \in 1..n, NEW c \in X
      PROVE  /\ InsertBlock(c, name, s[k], r) \in X
             /\ RoundOf(c, Key(name, s[k]), InsertBlock(c, name, s[k], r))
  <2>1. s[k] \in BlockAt /\ r.start < r.end /\ s[k] < r.end /\ r.start < s[k] + BlockLen
    BY <1>1, <1>2
  <2>2. c \in Inserted(overflown)  BY DEF X
  <2>3. InsertBlock(c, name, s[k], r) \in Inserted(overflown)
    BY <1>1, <2>1, <2>2, InsertRound
  <2>4. RoundOf(c, Key(name, s[k]), InsertBlock(c, name, s[k], r))
    BY <1>1, <2>1, <2>2, InsertRound
  <2> QED  BY <2>3, <2>4 DEF X
<1>6. PICK acc : InsertedBy(acc, X, name, r, Start, n, s)
  <2>1. \A k \in 1..n : \A c \in X : InsertBlock(c, name, s[k], r) \in X
    BY <1>5
  <2>2. r = [start |-> a, end |-> b]  BY DEF r
  <2> QED  BY <1>2, <1>3, <2>1, <2>2, InsertFold
<1>7. InsertsVia(name, r, n, s, acc)
  <2>1. /\ acc \in [0..n -> X] /\ acc[0] = Start
        /\ \A k \in 1..n : acc[k] = InsertBlock(acc[k - 1], name, s[k], r)
        /\ d = acc[n]
    BY <1>1, <1>6 DEF InsertedBy
  <2>2. ASSUME NEW k \in 1..n  PROVE RoundOf(acc[k - 1], Key(name, s[k]), acc[k])
    <3>1. acc[k - 1] \in X  BY <2>1
    <3> QED  BY <1>5, <2>1, <3>1
  <2> HIDE DEF d
  <2> QED  BY <1>4, <2>1, <2>2 DEF InsertsVia, X
<1> QED  BY <1>2, <1>7 DEF r

LEMMA InsertKeeps ==
  ASSUME CacheInv, NEW name \in Names, NEW a \in Nat, NEW b \in 0..Limit, a < b,
         Insert(name, a, b)
  PROVE  CacheInv'
<1>0. PICK n \in Nat : \E s, acc : InsertsVia(name, [start |-> a, end |-> b], n, s, acc)
  BY InsertChain
<1>1. PICK s, acc : InsertsVia(name, [start |-> a, end |-> b], n, s, acc)
  BY <1>0
<1> DEFINE c == acc[n]
<1>2. /\ c \in Inserted(overflown)
      /\ dataMap' = c.map /\ lruList' = c.lru
      /\ overflown' = (overflown \cup c.overflown) \cap DOMAIN c.map
  <2>1. n \in 0..n  OBVIOUS
  <2> QED  BY <1>1, <2>1 DEF InsertsVia
<1> HIDE DEF c
<1>3. /\ MapOK(c.map) /\ ListOK(c.map, c.lru)
      /\ \A k \in DOMAIN c.map : k \in overflown \/ k \in c.overflown \/ CopiedIn(c.map[k])
  BY <1>2 DEF Inserted
<1>4. overflown' \in SUBSET DOMAIN dataMap'
  BY <1>2
<1>5. \A k \in DOMAIN dataMap' : k \in overflown' \/ CopiedIn(dataMap'[k])
  BY <1>2, <1>3
<1>6. MapOK(dataMap') /\ ListOK(dataMap', lruList')
  BY <1>2, <1>3
<1> QED  BY <1>4, <1>5, <1>6 DEF CacheInv

-----------------------------------------------------------------------------
(***************************************************************************)
(* Reading: the list only changes its order.                               *)
(***************************************************************************)
LEMMA UpdateKeeps ==
  ASSUME NEW map, DOMAIN map \in SUBSET KeySet, NEW lru, ListOK(map, lru), NEW key \in DOMAIN map
  PROVE  ListOK(map, UpdateLRU(lru, key))
<1> DEFINE p == CHOOSE i \in DOMAIN lru : lru[i] = key
           n == Len(lru)
           new == UpdateLRU(lru, key)
<1>1. /\ lru \in Seq(KeySet) /\ Once(lru) /\ n <= MaxBlocks /\ n \in Nat
      /\ \A k : k \in DOMAIN map <=> \E i \in 1..n : lru[i] = k
      /\ DOMAIN lru = 1..n
  BY DEF ListOK
<1>2. p \in 1..n /\ lru[p] = key
  BY <1>1
<1>3. new = Append(SubSeq(lru, 1, p - 1) \o SubSeq(lru, p + 1, n), key)
  BY DEF UpdateLRU, RemoveAt
<1> HIDE DEF p, n, new
<1> DEFINE u == SubSeq(lru, 1, p - 1)
           v == SubSeq(lru, p + 1, n)
<1>4. /\ u \in Seq(KeySet) /\ Len(u) = p - 1 /\ \A i \in 1..(p - 1) : u[i] = lru[i]
  BY <1>1, <1>2 DEF n
<1>5. /\ v \in Seq(KeySet) /\ Len(v) = n - p /\ \A i \in 1..(n - p) : v[i] = lru[p + i]
  <2>1. p + 1 \in 1..(n + 1)  BY <1>1, <1>2
  <2>2. v \in Seq(KeySet)  BY <1>1, <1>2 DEF n
  <2>3. Len(v) = n - p
    <3>1. Len(v) = IF p + 1 <= n THEN n - (p + 1) + 1 ELSE 0
      BY <1>1, <2>1 DEF n
    <3>2. p + 1 <= n => n - (p + 1) + 1 = n - p
      BY <1>1, <1>2
    <3>3. ~(p + 1 <= n) => n - p = 0
      BY <1>1, <1>2
    <3> QED  BY <3>1, <3>2, <3>3
  <2>4. ASSUME NEW i \in 1..(n - p)  PROVE v[i] = lru[p + i]
    <3>1. v[i] = lru[(p + 1) + i - 1]  BY <1>1, <1>2 DEF n
    <3>2. (p + 1) + i - 1 = p + i  BY <1>1, <1>2
    <3> QED  BY <3>1, <3>2
  <2> QED  BY <2>2, <2>3, <2>4
<1> HIDE DEF u, v
<1> DEFINE w == u \o v
<1>6. /\ w \in Seq(KeySet) /\ Len(w) = n - 1
      /\ \A i \in 1..(n - 1) : w[i] = IF i < p THEN lru[i] ELSE lru[i + 1]
  <2>1. w \in Seq(KeySet) /\ Len(w) = n - 1
    <3>1. w \in Seq(KeySet) /\ Len(w) = Len(u) + Len(v)  BY <1>4, <1>5
    <3>2. (p - 1) + (n - p) = n - 1  BY <1>1, <1>2
    <3> QED  BY <1>4, <1>5, <3>1, <3>2
  <2>2. ASSUME NEW i \in 1..(n - 1)  PROVE w[i] = IF i < p THEN lru[i] ELSE lru[i + 1]
    <3>1. CASE i < p
      <4>1. i \in 1..Len(u)  BY <1>2, <1>4, <3>1
      <4>2. w[i] = u[i]  BY <1>4, <1>5, <4>1
      <4> QED  BY <1>2, <1>4, <3>1, <4>2
    <3>2. CASE ~(i < p)
      <4>1. i - (p - 1) \in 1..(n - p)  BY <1>1, <1>2, <3>2
      <4>2. w[i] = v[i - (p - 1)]  BY <1>1, <1>2, <1>4, <1>5, <3>2
      <4>3. v[i - (p - 1)] = lru[p + (i - (p - 1))]  BY <1>5, <4>1
      <4>4. p + (i - (p - 1)) = i + 1  BY <1>1, <1>2
      <4> QED  BY <3>2, <4>2, <4>3, <4>4
    <3> QED  BY <3>1, <3>2
  <2> QED  BY <2>1, <2>2
<1> HIDE DEF w
<1>7. new = Append(w, key) /\ key \in KeySet
  BY <1>3 DEF u, v, w
<1>8. /\ new \in Seq(KeySet) /\ Len(new) = n
      /\ \A i \in 1..n : new[i] = IF i = n THEN key ELSE IF i < p THEN lru[i] ELSE lru[i + 1]
  <2>1. new \in Seq(KeySet) /\ Len(new) = n
    BY <1>1, <1>6, <1>7
  <2>2. ASSUME NEW i \in 1..n
        PROVE  new[i] = IF i = n THEN key ELSE IF i < p THEN lru[i] ELSE lru[i + 1]
    <3>1. CASE i = n
      BY <1>1, <1>6, <1>7, <3>1
    <3>2. CASE i # n
      <4>1. i \in 1..(n - 1)  BY <1>1, <3>2
      <4>2. new[i] = w[i]  BY <1>1, <1>6, <1>7, <4>1
      <4> QED  BY <1>6, <3>2, <4>1, <4>2
    <3> QED  BY <3>1, <3>2
  <2> QED  BY <2>1, <2>2
\* Where the old element i is now, and where the new element i was.
<1> DEFINE To(i) == IF i = p THEN n ELSE IF i < p THEN i ELSE i - 1
           Was(i) == IF i = n THEN p ELSE IF i < p THEN i ELSE i + 1
<1>9. ASSUME NEW i \in 1..n
      PROVE  To(i) \in 1..n /\ new[To(i)] = lru[i] /\ Was(i) \in 1..n /\ new[i] = lru[Was(i)]
  <2>1. To(i) \in 1..n /\ Was(i) \in 1..n
    BY <1>1, <1>2
  <2>2. new[i] = lru[Was(i)]
    BY <1>2, <1>8
  <2>3. new[To(i)] = lru[i]
    <3>1. CASE i = p
      <4>1. n \in 1..n  BY <1>1, <1>2
      <4> QED  BY <1>2, <1>8, <3>1, <4>1
    <3>2. CASE i < p
      <4>1. i # n  BY <1>1, <1>2, <3>2
      <4>2. i # p  BY <1>2, <3>2
      <4> QED  BY <1>8, <3>2, <4>1, <4>2
    <3>3. CASE p < i
      <4>1. i - 1 \in 1..n /\ i - 1 # n /\ ~(i - 1 < p) /\ (i - 1) + 1 = i /\ i # p /\ ~(i < p)
        BY <1>1, <1>2, <3>3
      <4> QED  BY <1>8, <4>1
    <3> QED  BY <1>2, <3>1, <3>2, <3>3
  <2> QED  BY <2>1, <2>2, <2>3
<1>10. \A k : k \in DOMAIN map <=> \E i \in 1..n : new[i] = k
  <2>1. ASSUME NEW k, NEW i \in 1..n, lru[i] = k  PROVE \E j \in 1..n : new[j] = k
    <3> HIDE DEF To, Was
    <3> QED  BY <1>9, <2>1
  <2>2. ASSUME NEW k, NEW i \in 1..n, new[i] = k  PROVE \E j \in 1..n : lru[j] = k
    <3> HIDE DEF To, Was
    <3> QED  BY <1>9, <2>2
  <2> QED  BY <1>1, <2>1, <2>2
<1>11. Once(new)
  <2> SUFFICES ASSUME NEW i \in 1..n, NEW j \in 1..n, new[i] = new[j]  PROVE i = j
    BY <1>8 DEF Once
  <2>1. Was(i) = Was(j)
    <3> HIDE DEF To, Was
    <3> QED  BY <1>1, <1>9 DEF Once, n
  <2> QED  BY <1>1, <1>2, <2>1
<1> QED  BY <1>1, <1>8, <1>10, <1>11 DEF ListOK, new

(***************************************************************************)
(* A whole read: a chain of rounds.                                        *)
(***************************************************************************)
ReadAll(name, a, b, base, s) ==
  FoldLeft(LAMBDA acc, x : ReadBlock(acc, name, x, [start |-> a, end |-> b]), base, s)

ReadBy(acc, X, name, r, base, n, s) ==
  /\ acc \in [0..n -> X] /\ acc[0] = base
  /\ \A k \in 1..n : acc[k] = ReadBlock(acc[k - 1], name, s[k], r)
  /\ ReadAll(name, r.start, r.end, base, s) = acc[n]

LEMMA ReadFold ==
  ASSUME NEW X, NEW name, NEW a, NEW b, NEW r, r = [start |-> a, end |-> b],
         NEW n \in Nat, NEW S, NEW s \in [1..n -> S], NEW base \in X,
         \A k \in 1..n : \A c \in X : ReadBlock(c, name, s[k], r) \in X
  PROVE  \E acc : ReadBy(acc, X, name, r, base, n, s)
<1> DEFINE step == [k \in 1..n |-> [c \in X |-> ReadBlock(c, name, s[k], r)]]
           Fold(g) == g = [t \in SUBSET (1..n) |->
                             IF t = {} THEN base
                             ELSE ReadBlock(g[t \ {Max(t)}], name, s[Max(t)], r)]
<1>1. step \in [1..n -> [X -> X]]
  OBVIOUS
<1>2. PICK g \in [SUBSET (1..n) -> X] : Iterates(g, step, base, n)
  <2> HIDE DEF step
  <2> QED  BY <1>1, IterExists
<1>3. \E e : Fold(e)
  <2>0. StepsBy(g, X, step, base, n)
    <3> HIDE DEF step
    <3> QED  BY <1>2, IterValues
  <2>1. ASSUME NEW t \in SUBSET (1..n)
        PROVE  g[t] = IF t = {} THEN base
                      ELSE ReadBlock(g[t \ {Max(t)}], name, s[Max(t)], r)
    <3>1. CASE t = {}
      <4> HIDE DEF step
      <4> QED  BY <2>0, <3>1 DEF StepsBy
    <3>2. CASE t # {}
      <4>1. /\ Max(t) \in 1..n /\ g[t \ {Max(t)}] \in X
            /\ g[t] = step[Max(t)][g[t \ {Max(t)}]]
        <5> HIDE DEF step
        <5> QED  BY <2>0, <3>2 DEF StepsBy
      <4> QED  BY <3>2, <4>1
    <3> QED  BY <3>1, <3>2
  <2>2. g = [t \in SUBSET (1..n) |-> g[t]]  OBVIOUS
  <2>3. Fold(g)  BY <2>1, <2>2, Zenon
  <2> QED  BY <2>3
<1> DEFINE f == CHOOSE e : Fold(e)
<1>4. Fold(f)
  <2> HIDE DEF Fold
  <2> QED  BY <1>3
<1>5. ReadAll(name, a, b, base, s) = f[1..n]
  <2>1. DOMAIN s = 1..n  OBVIOUS
  <2> QED  BY <2>1, Zenon DEF ReadAll, FoldLeft, MapThenFoldSet
<1> HIDE DEF f
<1>6. f[{}] = base
  <2>1. {} \in SUBSET (1..n)  OBVIOUS
  <2> QED  BY <1>4, <2>1
<1>7. ASSUME NEW k \in 1..n, f[1..(k - 1)] \in X
      PROVE  f[1..k] = step[k][f[1..(k - 1)]]
  <2>1. /\ Max(1..k) = k /\ (1..k) \ {Max(1..k)} = 1..(k - 1)
        /\ 1..k # {} /\ 1..k \in SUBSET (1..n)
    BY IterChain
  <2>2. f[1..k] = ReadBlock(f[(1..k) \ {Max(1..k)}], name, s[Max(1..k)], r)
    BY <1>4, <2>1
  <2>3. f[1..k] = ReadBlock(f[1..(k - 1)], name, s[k], r)
    BY <2>1, <2>2
  <2> QED  BY <1>7, <2>3
<1>8. PICK acc : Chained(acc, X, step, base, n, f[1..n])
  <2> HIDE DEF step, Fold
  <2> QED  BY <1>1, <1>6, <1>7, ChainExists
<1>9. ASSUME NEW k \in 1..n  PROVE acc[k] = ReadBlock(acc[k - 1], name, s[k], r)
  <2>1. acc[k - 1] \in X  BY <1>8 DEF Chained
  <2>2. acc[k] = step[k][acc[k - 1]]  BY <1>8 DEF Chained
  <2> QED  BY <2>1, <2>2
<1>10. acc \in [0..n -> X] /\ acc[0] = base /\ acc[n] = f[1..n]
  BY <1>8 DEF Chained
<1>11. r.start = a /\ r.end = b
  OBVIOUS
<1> HIDE DEF step, Fold
<1>12. ReadBy(acc, X, name, r, base, n, s)
  BY <1>5, <1>9, <1>10, <1>11 DEF ReadBy
<1> QED  BY <1>12

\* The bytes of a name that are valid.
IsValid(name, x) == \E k \in DOMAIN dataMap : k[1] = name /\ Has(dataMap[k].ranges, x)

ReadAcc ==
  {acc \in [stopped : BOOLEAN, readlen : Nat, lru : Seq(KeySet)] : ListOK(dataMap, acc.lru)}

\* Up to e everything from here is valid, and the read ends there or is to go on.
ReadTo(name, here, e, block, r, stopped) ==
  /\ e \in Nat /\ here <= e /\ e <= r.end /\ e <= block + BlockLen
  /\ \A x \in Nat : here <= x /\ x < e => IsValid(name, x)
  /\ ~stopped => e = r.end \/ e = block + BlockLen
  /\ stopped /\ e < r.end => ~IsValid(name, e)

LEMMA ReadRound ==
  ASSUME CacheInv, NEW acc \in ReadAcc, NEW name \in Names, NEW start \in BlockAt,
         NEW r \in Rng, r.start < r.end, start < r.end, r.start < start + BlockLen,
         NEW here, here = IF r.start <= start THEN start ELSE r.start,
         NEW new, new = ReadBlock(acc, name, start, r)
  PROVE  /\ new \in ReadAcc
         /\ acc.stopped => new.stopped /\ new.readlen = acc.readlen
         /\ ~acc.stopped => ReadTo(name, here, here + (new.readlen - acc.readlen),
                                   start, r, new.stopped)
<1> DEFINE key == Key(name, start)
           readStart == Max({r.start, start})
           B == dataMap[key]
           covers == {i \in Slots : /\ B.ranges[i] # Free
                                    /\ B.ranges[i].start <= readStart
                                    /\ B.ranges[i].end > readStart}
           readEnd == Min({B.ranges[Min(covers)].end, r.end})
<1>0. /\ BlockLen \in Nat /\ BlockLen > 0 /\ start \in Nat
      /\ r.start \in Nat /\ r.end \in Nat /\ Slots \in SUBSET Nat
  BY BlockCacheAssumption, BlockAtNat DEF Rng, Slots
<1>1. key \in KeySet /\ key[1] = name /\ key[2] = start
  BY KeyFacts
<1>2. readStart = here /\ here \in Nat /\ here < r.end /\ here < start + BlockLen /\ start <= here
  <2>1. readStart = IF r.start <= start THEN start ELSE r.start
    BY <1>0, MinMax
  <2> HIDE DEF readStart
  <2> QED  BY <1>0, <2>1
<1>3. new = IF acc.stopped \/ key \notin DOMAIN dataMap \/ covers = {}
            THEN [acc EXCEPT !.stopped = TRUE]
            ELSE [stopped |-> r.end > readEnd /\ readEnd < start + BlockLen,
                  readlen |-> acc.readlen + (readEnd - readStart),
                  lru |-> UpdateLRU(acc.lru, key)]
  BY DEF ReadBlock
<1>4. /\ acc = [stopped |-> acc.stopped, readlen |-> acc.readlen, lru |-> acc.lru]
      /\ acc.stopped \in BOOLEAN /\ acc.readlen \in Nat /\ acc.lru \in Seq(KeySet)
      /\ ListOK(dataMap, acc.lru)
  BY DEF ReadAcc
<1>5. /\ DOMAIN dataMap \in SUBSET KeySet /\ dataMap \in [DOMAIN dataMap -> Block]
      /\ \A k \in DOMAIN dataMap : TableOK(dataMap[k].ranges, k[2])
  BY MapsAre DEF CacheInv, MapOK
<1> HIDE DEF key, readStart, readEnd
\* Only the table of this block speaks of its positions.
<1>6. ASSUME NEW x \in Nat, start <= x, x < start + BlockLen, IsValid(name, x)
      PROVE  key \in DOMAIN dataMap /\ Has(dataMap[key].ranges, x)
  <2>1. PICK k \in DOMAIN dataMap : k[1] = name /\ Has(dataMap[k].ranges, x)
    BY <1>6 DEF IsValid
  <2>2. PICK i \in Slots : In(dataMap[k].ranges[i], x)
    BY <2>1 DEF Has
  <2>3. dataMap[k].ranges[i] # Free
    BY <2>2 DEF In, Free
  <2>4. Within(dataMap[k].ranges[i], k[2]) /\ dataMap[k].ranges[i] \in Rng
    BY <1>5, <2>3 DEF TableOK, Table
  <2>5. k[2] \in BlockAt /\ k[2] \in Nat /\ k \in KeySet
    BY <1>5, KeyFacts
  <2>6. k[2] <= x /\ x < k[2] + BlockLen
    BY <1>0, <2>2, <2>4, <2>5 DEF In, Within, Rng
  <2>7. k[2] = BlockStart(x) /\ start = BlockStart(x)
    BY <1>6, <2>5, <2>6, OneBlock
  <2>8. k = key
    BY <2>1, <2>5, <2>7 DEF KeySet, key, Key
  <2> QED  BY <2>1, <2>8
<1>7. CASE acc.stopped \/ key \notin DOMAIN dataMap \/ covers = {}
  <2>1. new = [stopped |-> TRUE, readlen |-> acc.readlen, lru |-> acc.lru]
    BY <1>3, <1>4, <1>7
  <2>2. new \in ReadAcc
    BY <1>4, <2>1 DEF ReadAcc
  <2>3. ASSUME ~acc.stopped
        PROVE  ReadTo(name, here, here + (new.readlen - acc.readlen), start, r, new.stopped)
    <3>1. here + (new.readlen - acc.readlen) = here /\ new.stopped = TRUE
      BY <1>2, <1>4, <2>1
    <3>2. ~IsValid(name, here)
      <4> SUFFICES ASSUME IsValid(name, here)  PROVE FALSE
        OBVIOUS
      <4>1. key \in DOMAIN dataMap /\ Has(B.ranges, here)
        BY <1>2, <1>6
      <4>t. B.ranges \in Table
        BY <1>5, <4>1 DEF TableOK
      <4> HIDE DEF B
      <4>2. PICK i \in Slots : In(B.ranges[i], here)
        BY <4>1 DEF Has
      <4>3. B.ranges[i] # Free
        BY <1>2, <4>2 DEF In, Free
      <4>4. B.ranges[i].end \in Nat
        BY <4>t DEF Table, Rng
      <4>5. i \in covers
        BY <1>2, <4>2, <4>3, <4>4 DEF In
      <4> QED  BY <1>7, <2>3, <4>1, <4>5
    <3> QED  BY <1>0, <1>2, <3>1, <3>2 DEF ReadTo
  <2> HIDE DEF covers, B
  <2>4. new.stopped = TRUE /\ new.readlen = acc.readlen
    BY <2>1
  <2> QED  BY <2>2, <2>3, <2>4
<1>8. CASE ~acc.stopped /\ key \in DOMAIN dataMap /\ covers # {}
  <2> DEFINE i == Min(covers)
             x == B.ranges[i]
  <2>1. i \in Slots /\ x # Free /\ x.start <= here /\ x.end > here
    <3>1. i \in covers
      <4>1. covers \in SUBSET Nat  BY <1>0
      <4> HIDE DEF covers
      <4> QED  BY <1>8, <4>1, MinIn
    <3> QED  BY <1>2, <3>1
  <2>2. TableOK(B.ranges, start)
    BY <1>1, <1>5, <1>8
  <2> HIDE DEF i, covers, B
  <2>3. x \in Rng /\ Within(x, start)
    BY <2>1, <2>2 DEF TableOK, Table
  <2>4. x.start \in Nat /\ x.end \in Nat
    BY <2>3 DEF Rng
  <2>5. readEnd \in Nat /\ readEnd = IF x.end <= r.end THEN x.end ELSE r.end
    BY <1>0, <2>4, MinMax DEF readEnd, i
  <2> HIDE DEF x
  <2>6. new = [stopped |-> r.end > readEnd /\ readEnd < start + BlockLen,
               readlen |-> acc.readlen + (readEnd - here),
               lru |-> UpdateLRU(acc.lru, key)]
    BY <1>2, <1>3, <1>8
  <2>7. here < readEnd /\ readEnd <= r.end /\ readEnd <= start + BlockLen
    BY <1>0, <1>2, <2>1, <2>3, <2>4, <2>5 DEF Within
  <2>8. new \in ReadAcc
    <3>1. ListOK(dataMap, UpdateLRU(acc.lru, key))
      BY <1>4, <1>5, <1>8, UpdateKeeps
    <3>2. UpdateLRU(acc.lru, key) \in Seq(KeySet)
      BY <3>1 DEF ListOK
    <3>3. acc.readlen + (readEnd - here) \in Nat
      BY <1>2, <1>4, <2>5, <2>7
    <3> QED  BY <2>6, <3>1, <3>2, <3>3 DEF ReadAcc
  <2>9. here + (new.readlen - acc.readlen) = readEnd
    BY <1>2, <1>4, <2>5, <2>6
  <2>10. ASSUME NEW y \in Nat, here <= y, y < readEnd  PROVE IsValid(name, y)
    <3>1. In(x, y)
      BY <1>0, <1>2, <2>1, <2>4, <2>5, <2>10 DEF In
    <3>2. Has(B.ranges, y)
      BY <2>1, <3>1 DEF Has, x
    <3> QED  BY <1>1, <1>8, <3>2 DEF IsValid, B
  <2>11. ASSUME readEnd < r.end, readEnd < start + BlockLen, IsValid(name, readEnd)
         PROVE  FALSE
    <3>1. readEnd = x.end
      BY <1>0, <2>4, <2>5, <2>11
    <3>2. Has(B.ranges, readEnd)
      BY <1>0, <1>2, <1>6, <2>5, <2>7, <2>11 DEF B
    <3>3. PICK j \in Slots : In(B.ranges[j], readEnd)
      BY <3>2 DEF Has
    <3> DEFINE y == B.ranges[j]
    <3>4. y # Free /\ y \in Rng
      <4>1. y # Free  BY <2>5, <3>3 DEF In, Free
      <4>2. B.ranges \in Table  BY <2>2 DEF TableOK
      <4> QED  BY <4>1, <4>2 DEF Table
    <3>5. j # i
      BY <2>4, <3>1, <3>3 DEF In, x
    <3>6. Apart(x, y)
      BY <2>1, <2>2, <3>4, <3>5 DEF TableOK, x
    <3> QED  BY <2>1, <2>4, <1>2, <3>1, <3>3, <3>4, <3>6 DEF Apart, In, Rng
  <2>12. ReadTo(name, here, readEnd, start, r, new.stopped)
    <3> DEFINE stop == r.end > readEnd /\ readEnd < start + BlockLen
    <3>1. stop \in BOOLEAN /\ (stop <=> r.end > readEnd /\ readEnd < start + BlockLen)
      BY Zenon
    <3> HIDE DEF stop
    <3>2. new.stopped = stop
      BY <2>6 DEF stop
    <3>3. /\ ~stop => readEnd = r.end \/ readEnd = start + BlockLen
          /\ stop /\ readEnd < r.end => ~IsValid(name, readEnd)
      BY <1>0, <2>5, <2>7, <2>11, <3>1
    <3>4. /\ ~new.stopped => readEnd = r.end \/ readEnd = start + BlockLen
          /\ new.stopped /\ readEnd < r.end => ~IsValid(name, readEnd)
      BY <3>2, <3>3, Zenon
    <3> HIDE DEF stop
    <3> QED  BY <1>2, <2>5, <2>7, <2>10, <3>4 DEF ReadTo
  <2> QED  BY <1>8, <2>8, <2>9, <2>12
<1> QED  BY <1>4, <1>7, <1>8

ReadStart == [readlen |-> 0, lru |-> lruList, stopped |-> FALSE]

\* How far a read of r has come after the first k blocks of s.
Reached(name, r, s, k, c) ==
  LET e == r.start + c.readlen
  IN /\ e <= r.end
     /\ \A x \in Nat : r.start <= x /\ x < e => IsValid(name, x)
     /\ ~c.stopped => \/ k = 0 /\ c.readlen = 0
                      \/ /\ k > 0 /\ e <= s[k] + BlockLen
                         /\ e = r.end \/ e = s[k] + BlockLen
     /\ c.stopped /\ e < r.end => ~IsValid(name, e)

LEMMA ReachesOn ==
  ASSUME CacheInv, NEW name \in Names, NEW r \in Rng, r.start < r.end,
         NEW n \in Nat, NEW s \in [1..n -> BlockAt], NEW k \in 1..n,
         s[k] < r.end, r.start < s[k] + BlockLen,
         k = 1 => s[k] <= r.start,
         k > 1 => s[k] = s[k - 1] + BlockLen /\ r.start < s[k - 1] + BlockLen,
         NEW old \in ReadAcc, Reached(name, r, s, k - 1, old),
         NEW new, new = ReadBlock(old, name, s[k], r)
  PROVE  Reached(name, r, s, k, new)
<1> DEFINE start == s[k]
           here == IF r.start <= start THEN start ELSE r.start
           e == r.start + old.readlen
<1>0. /\ BlockLen \in Nat /\ start \in BlockAt /\ start \in Nat
      /\ r.start \in Nat /\ r.end \in Nat
  BY BlockCacheAssumption, BlockAtNat DEF Rng
<1>1. /\ new \in ReadAcc
      /\ old.stopped => new.stopped /\ new.readlen = old.readlen
      /\ ~old.stopped => ReadTo(name, here, here + (new.readlen - old.readlen),
                                start, r, new.stopped)
  BY <1>0, ReadRound
<1>2. old.readlen \in Nat /\ new.readlen \in Nat
  BY <1>1 DEF ReadAcc
<1>3. /\ e <= r.end
      /\ \A x \in Nat : r.start <= x /\ x < e => IsValid(name, x)
      /\ ~old.stopped => \/ k - 1 = 0 /\ old.readlen = 0
                         \/ /\ k - 1 > 0 /\ e <= s[k - 1] + BlockLen
                            /\ e = r.end \/ e = s[k - 1] + BlockLen
      /\ old.stopped /\ e < r.end => ~IsValid(name, e)
  BY DEF Reached
<1>4. CASE old.stopped
  BY <1>1, <1>3, <1>4 DEF Reached
<1>5. CASE ~old.stopped
  <2>1. here = e
    <3>1. CASE k = 1
      BY <1>0, <1>2, <1>3, <1>5, <3>1
    <3>2. CASE k > 1
      <4>1. e = start
        <5>1. /\ e = r.end \/ e = s[k - 1] + BlockLen
              /\ e <= s[k - 1] + BlockLen
          BY <1>3, <1>5, <3>2
        <5>2. s[k - 1] + BlockLen = start  BY <3>2
        <5>3. e \in Nat  BY <1>0, <1>2
        <5> HIDE DEF e
        <5> QED  BY <1>0, <5>1, <5>2, <5>3
      <4>2. r.start <= start  BY <1>0, <3>2
      <4> QED  BY <4>1, <4>2
    <3> QED  BY <3>1, <3>2
  <2> DEFINE d == r.start + new.readlen
  <2>2. here + (new.readlen - old.readlen) = d
    <3> HIDE DEF here
    <3> QED  BY <1>0, <1>2, <2>1
  <2>3. ReadTo(name, e, d, start, r, new.stopped)
    BY <1>1, <1>5, <2>1, <2>2
  <2>4. e \in Nat /\ d \in Nat
    BY <1>0, <1>2
  <2> HIDE DEF here, d, e
  <2>5. /\ e <= d /\ d <= r.end /\ d <= start + BlockLen
        /\ \A x \in Nat : e <= x /\ x < d => IsValid(name, x)
        /\ ~new.stopped => d = r.end \/ d = start + BlockLen
        /\ new.stopped /\ d < r.end => ~IsValid(name, d)
    BY <2>3 DEF ReadTo
  <2>6. \A x \in Nat : r.start <= x /\ x < d => IsValid(name, x)
    BY <1>3, <2>4, <2>5
  <2>7. k > 0  OBVIOUS
  <2> QED  BY <2>5, <2>6, <2>7 DEF Reached, d
<1> QED  BY <1>4, <1>5

LEMMA ReadIs ==
  ASSUME CacheInv, NEW name \in Names, NEW a \in Nat, NEW b \in 0..Limit, a < b
  PROVE  /\ ListOK(dataMap, ReadResult(name, a, b).lru)
         /\ ReadResult(name, a, b).readlen \in Nat
         /\ a + ReadResult(name, a, b).readlen <= b
         /\ \A x \in Nat : a <= x /\ x < a + ReadResult(name, a, b).readlen => IsValid(name, x)
         /\ a + ReadResult(name, a, b).readlen < b =>
              ~IsValid(name, a + ReadResult(name, a, b).readlen)
<1> DEFINE r == [start |-> a, end |-> b]
           s == BlockStarts(a, b)
           X == ReadAcc
           c == ReadResult(name, a, b)
<1>1. r \in Rng /\ r.start = a /\ r.end = b /\ r.start < r.end
  BY BlockCacheAssumption DEF Rng
<1>2. PICK n \in Nat \ {0} :
        /\ s \in [1..n -> BlockAt] /\ s[1] <= a
        /\ \A i \in 1..n : s[i] < b /\ a < s[i] + BlockLen
        /\ \A i \in 1..(n - 1) : s[i + 1] = s[i] + BlockLen
        /\ b <= s[n] + BlockLen
  <2> HIDE DEF s
  <2> QED  BY BlocksVisited DEF s
<1>3. ReadStart \in X
  <2>1. ListOK(dataMap, lruList) /\ lruList \in Seq(KeySet)
    BY DEF CacheInv, ListOK
  <2> QED  BY <2>1 DEF ReadStart, ReadAcc
<1>4. c = ReadAll(name, a, b, ReadStart, s)
  BY DEF ReadResult, ReadAll, ReadStart
<1> HIDE DEF r, s, X, c
<1>5. ASSUME NEW k \in 1..n, NEW d \in X  PROVE ReadBlock(d, name, s[k], r) \in X
  <2>1. s[k] \in BlockAt /\ s[k] < r.end /\ r.start < s[k] + BlockLen
    BY <1>1, <1>2
  <2>2. d \in ReadAcc  BY DEF X
  <2>3. ReadBlock(d, name, s[k], r) \in ReadAcc
    BY <1>1, <2>1, <2>2, ReadRound
  <2> QED  BY <2>3 DEF X
<1>p. PICK acc : ReadBy(acc, X, name, r, ReadStart, n, s)
  <2>1. \A k \in 1..n : \A d \in X : ReadBlock(d, name, s[k], r) \in X
    BY <1>5
  <2>2. r = [start |-> a, end |-> b]  BY DEF r
  <2> QED  BY <1>2, <1>3, <2>1, <2>2, ReadFold
<1>6. /\ acc \in [0..n -> X] /\ acc[0] = ReadStart
      /\ \A k \in 1..n : acc[k] = ReadBlock(acc[k - 1], name, s[k], r)
      /\ c = acc[n]
  BY <1>1, <1>4, <1>p DEF ReadBy
<1> DEFINE T == {k \in 0..n : Reached(name, r, s, k, acc[k])}
<1>7. 0 \in T
  <2>1. ReadStart.readlen = 0 /\ ReadStart.stopped = FALSE
    BY DEF ReadStart
  <2>2. r.start \in Nat /\ r.end \in Nat /\ r.start + 0 = r.start
    BY <1>1
  <2>3. \A x \in Nat : ~(r.start <= x /\ x < r.start)
    BY <2>2
  <2>4. Reached(name, r, s, 0, ReadStart)
    BY <1>1, <2>1, <2>2, <2>3 DEF Reached
  <2> QED  BY <1>6, <2>4
<1>8. ASSUME NEW k \in 1..n, k - 1 \in T  PROVE k \in T
  <2>1. s[k] < r.end /\ r.start < s[k] + BlockLen
    BY <1>1, <1>2
  <2>2. k = 1 => s[k] <= r.start
    BY <1>1, <1>2
  <2>3. ASSUME k > 1  PROVE s[k] = s[k - 1] + BlockLen /\ r.start < s[k - 1] + BlockLen
    <3>1. k - 1 \in 1..(n - 1) /\ k - 1 \in 1..n /\ (k - 1) + 1 = k
      BY <2>3
    <3> QED  BY <1>1, <1>2, <3>1
  <2>4. acc[k - 1] \in ReadAcc
    <3>1. k - 1 \in 0..n  OBVIOUS
    <3> QED  BY <1>6, <3>1 DEF X
  <2>5. Reached(name, r, s, k - 1, acc[k - 1])
    BY <1>8
  <2>6. acc[k] = ReadBlock(acc[k - 1], name, s[k], r)
    BY <1>6
  <2>7. n \in Nat /\ s \in [1..n -> BlockAt] /\ r \in Rng /\ r.start < r.end
    BY <1>1, <1>2
  <2>8. Reached(name, r, s, k, acc[k])
    BY <2>1, <2>2, <2>3, <2>4, <2>5, <2>6, <2>7, ReachesOn
  <2> QED  BY <2>8
<1>9. Reached(name, r, s, n, c)
  <2>1. \A k \in 1..n : k - 1 \in T => k \in T  BY <1>8
  <2>2. \A k \in 0..n : k \in T
    <3> HIDE DEF T
    <3> QED  BY <1>2, <1>7, <2>1, Induct
  <2> QED  BY <1>6, <2>2
<1>10. c \in ReadAcc
  <2>1. n \in 0..n  OBVIOUS
  <2> QED  BY <1>6, <2>1 DEF X
<1>11. ListOK(dataMap, c.lru) /\ c.readlen \in Nat
  BY <1>10 DEF ReadAcc
<1> DEFINE e == a + c.readlen
<1>12. /\ e <= b
       /\ \A x \in Nat : a <= x /\ x < e => IsValid(name, x)
       /\ ~c.stopped => e = b \/ e = s[n] + BlockLen
       /\ c.stopped /\ e < b => ~IsValid(name, e)
  BY <1>1, <1>2, <1>9 DEF Reached
<1>13. ASSUME e < b  PROVE ~IsValid(name, e)
  <2>1. c.stopped
    <3> SUFFICES ASSUME ~c.stopped  PROVE FALSE
      OBVIOUS
    <3>1. s[n] \in Nat
      <4>1. n \in 1..n  BY <1>2
      <4>2. s[n] \in BlockAt  BY <1>2, <4>1
      <4> QED  BY <4>2, BlockAtNat
    <3>2. s[n] + BlockLen \in Int /\ e \in Nat
      <4>1. BlockLen \in Nat  BY BlockCacheAssumption
      <4> QED  BY <1>11, <3>1, <4>1
    <3> HIDE DEF e
    <3> QED  BY <1>2, <1>12, <1>13, <3>2
  <2> QED  BY <1>12, <1>13, <2>1
<1> QED  BY <1>11, <1>12, <1>13 DEF c

-----------------------------------------------------------------------------
(***************************************************************************)
(* The invariant.                                                          *)
(***************************************************************************)
LEMMA NextFacts ==
  ASSUME Next
  PROVE  \E name \in Names, a \in Nat, b \in 0..Limit :
           /\ a < b /\ b <= a + BlockLen
           /\ Insert(name, a, b) \/ Read(name, a, b)
<1>1. PICK name \in Names, a \in First..(Limit - 1) :
        \E b \in (a + 1)..Min({a + MaxLen, Limit}) : Insert(name, a, b) \/ Read(name, a, b)
  BY DEF Next
<1>2. PICK b \in (a + 1)..Min({a + MaxLen, Limit}) : Insert(name, a, b) \/ Read(name, a, b)
  BY <1>1
<1>3. /\ First \in Nat /\ Limit \in Nat /\ MaxLen \in Nat /\ BlockLen \in Nat
      /\ MaxLen <= BlockLen
  BY BlockCacheAssumption
<1>4. a \in Nat /\ a < Limit /\ a + MaxLen \in Nat
  BY <1>1, <1>3
<1>5. /\ Min({a + MaxLen, Limit}) \in Nat
      /\ Min({a + MaxLen, Limit}) <= a + MaxLen /\ Min({a + MaxLen, Limit}) <= Limit
  BY <1>3, <1>4, MinMax
<1>6. b \in Nat /\ a + 1 <= b /\ b <= Min({a + MaxLen, Limit})
  BY <1>2, <1>4, <1>5
<1>7. b \in 0..Limit /\ a < b /\ b <= a + BlockLen
  BY <1>3, <1>4, <1>5, <1>6
<1> QED  BY <1>2, <1>4, <1>7

LEMMA InitCache == Init => CacheInv
<1> SUFFICES ASSUME Init  PROVE CacheInv
  OBVIOUS
<1>1. /\ DOMAIN dataMap = {} /\ dataMap \in [{} -> Block]
      /\ lruList = <<>> /\ overflown = {}
  BY DEF Init
<1>2. MapOK(dataMap)
  <2>1. dataMap \in Maps  BY <1>1, MapsAre
  <2> QED  BY <1>1, <2>1 DEF MapOK
<1>3. ListOK(dataMap, lruList)
  BY <1>1, BlockCacheAssumption DEF ListOK, Once
<1> QED  BY <1>1, <1>2, <1>3 DEF CacheInv

LEMMA StepCache == CacheInv /\ [Next]_vars => CacheInv'
<1> SUFFICES ASSUME CacheInv, [Next]_vars  PROVE CacheInv'
  OBVIOUS
<1>1. CASE Next
  <2>1. PICK name \in Names, a \in Nat, b \in 0..Limit :
          a < b /\ (Insert(name, a, b) \/ Read(name, a, b))
    BY <1>1, NextFacts
  <2>2. CASE Insert(name, a, b)
    BY <2>1, <2>2, InsertKeeps
  <2>3. CASE Read(name, a, b)
    <3>1. ListOK(dataMap, ReadResult(name, a, b).lru)
      BY <2>1, ReadIs
    <3>2. lruList' = ReadResult(name, a, b).lru /\ dataMap' = dataMap /\ overflown' = overflown
      BY <2>3 DEF Read
    <3>3. ListOK(dataMap', lruList')
      BY <3>1, <3>2
    <3> QED  BY <3>2, <3>3 DEF CacheInv
  <2> QED  BY <2>1, <2>2, <2>3
<1>2. CASE UNCHANGED vars
  BY <1>2 DEF vars, CacheInv
<1> QED  BY <1>1, <1>2

(***************************************************************************)
(* Map, list, tables and copied bytes agree after every insert and read    *)
(* (cache.cpp 57-179).                                                     *)
(***************************************************************************)
THEOREM CacheInvariance == Spec => []CacheInv
  BY InitCache, StepCache, PTL DEF Spec

\* A list without repetition is as long as the set of its elements is large.
LEMMA ListLength ==
  ASSUME NEW map, NEW lru, ListOK(map, lru)
  PROVE  /\ IsFiniteSet(DOMAIN map) /\ Cardinality(DOMAIN map) = Len(lru)
         /\ Len(lru) \in Nat /\ ToSet(lru) = DOMAIN map
<1> DEFINE n == Len(lru)
           D == DOMAIN map
<1>1. /\ lru \in Seq(KeySet) /\ n \in Nat /\ DOMAIN lru = 1..n
      /\ \A i, j \in 1..n : lru[i] = lru[j] => i = j
      /\ \A k : k \in D <=> \E i \in 1..n : lru[i] = k
  BY DEF ListOK, Once
<1> HIDE DEF n, D
<1>2. lru \in [1..n -> D]
  <2>1. lru = [i \in 1..n |-> lru[i]]  BY <1>1
  <2> QED  BY <1>1, <2>1
<1>3. lru \in Bijection(1..n, D)
  <2>1. lru \in Injection(1..n, D)
    BY <1>1, <1>2 DEF Injection, IsInjective
  <2>2. lru \in Surjection(1..n, D)
    BY <1>1, <1>2 DEF Surjection
  <2> QED  BY <2>1, <2>2 DEF Bijection
<1>4. ExistsBijection(1..n, D)
  BY <1>3 DEF ExistsBijection
<1>5. Cardinality(D) = n /\ IsFiniteSet(D)
  BY <1>1, <1>4, FS_CountingElements, FS_NatBijection
<1>6. ToSet(lru) = D
  BY <1>1 DEF ToSet
<1> QED  BY <1>1, <1>5, <1>6 DEF n, D

(***************************************************************************)
(* The list and the map hold the same blocks, no more than MAX_BLOCK_NUM,  *)
(* and the ranges of a table lie in their block and apart, whatever is     *)
(* inserted, read and dropped (cache.cpp 26-51, 75-121).                   *)
(***************************************************************************)
THEOREM CacheAlwaysSound == Spec => []CacheSound
<1>1. CacheInv => CacheSound
  <2> SUFFICES ASSUME CacheInv  PROVE CacheSound
    OBVIOUS
  <2>1. /\ dataMap \in [DOMAIN dataMap -> Block] /\ DOMAIN dataMap \in SUBSET KeySet
        /\ MapOK(dataMap) /\ ListOK(dataMap, lruList) /\ overflown \subseteq DOMAIN dataMap
    BY MapsAre DEF CacheInv, MapOK
  <2>2. /\ ToSet(lruList) = DOMAIN dataMap
        /\ Len(lruList) = Cardinality(DOMAIN dataMap) /\ Len(lruList) <= MaxBlocks
    BY <2>1, ListLength DEF ListOK
  <2>3. ASSUME NEW k \in DOMAIN dataMap
        PROVE  /\ k \in Names \X {BlockStart(i) : i \in 0..Limit}
               /\ dataMap[k].lastPos \in 0..SegNum
               /\ dataMap[k].written \subseteq Span(k[2], k[2] + BlockLen)
    BY <2>1 DEF MapOK, Block, KeySet, BlockAt
  <2>4. ASSUME NEW k \in DOMAIN dataMap, NEW i \in Slots, dataMap[k].ranges[i] # Free
        PROVE  LET x == dataMap[k].ranges[i]
               IN /\ k[2] <= x.start /\ x.start < x.end /\ x.end <= k[2] + BlockLen
                  /\ \A j \in Slots \ {i} :
                       LET y == dataMap[k].ranges[j]
                       IN y = Free \/ y.end < x.start \/ x.end < y.start
    <3> DEFINE T == dataMap[k].ranges
    <3>1. TableOK(T, k[2])
      BY <2>1 DEF MapOK
    <3> HIDE DEF T
    <3>2. T[i] # Free
      BY <2>4 DEF T
    <3>3. Within(T[i], k[2])
      BY <3>1, <3>2 DEF TableOK
    <3>4. \A j \in Slots \ {i} : T[j] = Free \/ T[j].end < T[i].start \/ T[i].end < T[j].start
      BY <3>1, <3>2 DEF TableOK, Apart
    <3> QED  BY <3>3, <3>4 DEF Within, T
  <2> QED  BY <2>1, <2>2, <2>3, <2>4 DEF CacheSound
<1> QED  BY <1>1, CacheInvariance, PTL

\* The bytes a table calls valid, as sets.
LEMMA ValidInIs ==
  ASSUME NEW b, b.ranges \in Table
  PROVE  \A x : x \in ValidIn(b) <=> x \in Nat /\ Has(b.ranges, x)
<1>1. \A i \in Slots : b.ranges[i].start \in Nat /\ b.ranges[i].end \in Nat
  BY DEF Table, Rng
<1>2. ASSUME NEW i \in Slots, NEW x
      PROVE  x \in Span(b.ranges[i].start, b.ranges[i].end) <=> x \in Nat /\ In(b.ranges[i], x)
  <2>1. b.ranges[i].start \in Nat /\ b.ranges[i].end \in Nat
    BY <1>1
  <2> QED  BY <2>1 DEF Span, In
<1>3. \A x : x \in ValidIn(b) <=>
             \E i \in Slots : x \in Span(b.ranges[i].start, b.ranges[i].end)
  BY DEF ValidIn
<1> QED  BY <1>2, <1>3 DEF Has

LEMMA ValidIs ==
  ASSUME NEW name, NEW map, MapOK(map)
  PROVE  \A x : x \in Valid(name, map) <=>
                x \in Nat /\ \E k \in DOMAIN map : k[1] = name /\ Has(map[k].ranges, x)
<1>1. \A k \in DOMAIN map : map[k].ranges \in Table
  BY DEF MapOK, TableOK
<1>2. \A k \in DOMAIN map : \A x : x \in ValidIn(map[k]) <=> x \in Nat /\ Has(map[k].ranges, x)
  BY <1>1, ValidInIs
<1>3. \A x : x \in Valid(name, map) <=>
             \E k \in DOMAIN map : k[1] = name /\ x \in ValidIn(map[k])
  BY DEF Valid
<1> QED  BY <1>2, <1>3

(***************************************************************************)
(* What a table calls valid was copied: read never returns memory that no  *)
(* insert filled (cache.cpp 75-125), but of a block whose table was too    *)
(* small.                                                                  *)
(***************************************************************************)
THEOREM CacheValidIsWritten == Spec => []ValidIsWritten
<1>1. CacheInv => ValidIsWritten
  <2> SUFFICES ASSUME CacheInv, NEW k \in DOMAIN dataMap, k \notin overflown
               PROVE  ValidIn(dataMap[k]) \subseteq dataMap[k].written
    BY DEF ValidIsWritten
  <2>1. CopiedIn(dataMap[k]) /\ dataMap[k].ranges \in Table
    BY DEF CacheInv, MapOK, TableOK
  <2>2. \A x : x \in ValidIn(dataMap[k]) <=> x \in Nat /\ Has(dataMap[k].ranges, x)
    BY <2>1, ValidInIs
  <2> QED  BY <2>1, <2>2 DEF CopiedIn
<1> QED  BY <1>1, CacheInvariance, PTL

(***************************************************************************)
(* read returns the longest valid prefix of any range, over as many blocks *)
(* as it spans (cache.cpp 131-178).                                        *)
(***************************************************************************)
THEOREM CacheReadIsPrefix == Spec => []ReadIsPrefix
<1>1. CacheInv => ReadIsPrefix
  <2> SUFFICES ASSUME CacheInv, NEW name \in Names, NEW a \in 0..Limit, NEW b \in 0..Limit, a < b
               PROVE  LET end == a + ReadResult(name, a, b).readlen
                      IN /\ Span(a, end) \subseteq Valid(name, dataMap)
                         /\ end <= b
                         /\ end < b => end \notin Valid(name, dataMap)
    BY DEF ReadIsPrefix
  <2> DEFINE e == a + ReadResult(name, a, b).readlen
  <2>0. a \in Nat /\ Limit \in Nat  BY BlockCacheAssumption
  <2>1. /\ e <= b /\ ReadResult(name, a, b).readlen \in Nat
        /\ \A x \in Nat : a <= x /\ x < e => IsValid(name, x)
        /\ e < b => ~IsValid(name, e)
    BY <2>0, ReadIs
  <2>2. e \in Nat  BY <2>0, <2>1
  <2>3. \A x : x \in Valid(name, dataMap) <=> x \in Nat /\ IsValid(name, x)
    BY ValidIs DEF CacheInv, IsValid
  <2> HIDE DEF e
  <2>4. Span(a, e) \subseteq Valid(name, dataMap)
    BY <2>0, <2>1, <2>2, <2>3 DEF Span
  <2> QED  BY <2>1, <2>3, <2>4 DEF e
<1> QED  BY <1>1, CacheInvariance, PTL

(***************************************************************************)
(* What an insertion loses.  As long as no block is dropped, all blocks    *)
(* stay and their tables grow.  An insertion of at most MAX_BLOCK_NUM      *)
(* blocks drops only blocks that were there before it (Old), as insert     *)
(* puts new ones at the end of the list.                                   *)
(***************************************************************************)
Old == DOMAIN dataMap

AllKept(c) == Old \subseteq DOMAIN c.map /\ Grows(Start, c)

OneLost(c) == Len(c.lru) = MaxBlocks /\ \E d \in Old : d \notin DOMAIN c.map

OldFirst(c, k) == \A i \in 1..Len(c.lru) : i + k <= Len(c.lru) => c.lru[i] \in Old

Stage(c, k) == OldFirst(c, k) /\ (AllKept(c) \/ OneLost(c))

LEMMA StageRound ==
  ASSUME NEW c \in Inserted(overflown), NEW new, NEW key \in KeySet, RoundOf(c, key, new),
         NEW k \in Nat, k < MaxBlocks, Stage(c, k)
  PROVE  Stage(new, k + 1)
<1>1. /\ c \in Acc /\ MapOK(c.map) /\ ListOK(c.map, c.lru)
      /\ Len(c.lru) \in Nat /\ Len(c.lru) <= MaxBlocks /\ MaxBlocks \in Nat
  <2>1. c \in Acc /\ MapOK(c.map) /\ ListOK(c.map, c.lru)
    BY DEF Inserted
  <2>2. c.lru \in Seq(KeySet) /\ Len(c.lru) <= MaxBlocks
    BY <2>1 DEF ListOK
  <2> QED  BY <2>1, <2>2, BlockCacheAssumption
<1>2. /\ \A i \in 1..Len(c.lru) : i + k <= Len(c.lru) => c.lru[i] \in Old
      /\ AllKept(c) \/ OneLost(c)
  BY DEF Stage, OldFirst
<1>3. ASSUME new.lru = c.lru, DOMAIN new.map = DOMAIN c.map, Grows(c, new)
      PROVE  Stage(new, k + 1)
  <2>1. OldFirst(new, k + 1)
    BY <1>1, <1>2, <1>3 DEF OldFirst
  <2>2. CASE AllKept(c)
    <3>1. Grows(Start, new) /\ Old \subseteq DOMAIN new.map
      BY <1>3, <2>2 DEF AllKept, Grows, Start, Old
    <3> QED  BY <2>1, <3>1 DEF Stage, AllKept
  <2>3. CASE OneLost(c)
    <3>1. OneLost(new)  BY <1>3, <2>3 DEF OneLost
    <3> QED  BY <2>1, <3>1 DEF Stage
  <2> QED  BY <1>2, <2>2, <2>3
<1>4. CASE new = c
  <2>1. Grows(c, c)  BY DEF Grows
  <2> QED  BY <1>3, <1>4, <2>1
<1>5. CASE new # c
  <2> DEFINE a == AddBlock(c, key)
  <2>1. /\ DOMAIN new.map = DOMAIN Found(c, key).map /\ new.lru = Found(c, key).lru
        /\ Grows(c, new)
    BY <1>5 DEF RoundOf
  <2>2. CASE key \in DOMAIN c.map
    <3>1. Found(c, key) = c  BY <2>2 DEF Found
    <3> QED  BY <1>3, <2>1, <3>1
  <2>3. CASE key \notin DOMAIN c.map
    <3>1. Found(c, key) = a  BY <2>3 DEF Found
    <3>2. AddedTo(c, key, a)  BY <1>1, <2>3, AddBlockIs
    <3> HIDE DEF a
    <3>3. DOMAIN new.map = DOMAIN a.map /\ new.lru = a.lru
      BY <2>1, <3>1
    <3>4. CASE /\ Len(c.lru) < MaxBlocks /\ Len(a.lru) = Len(c.lru) + 1
               /\ \A i \in 1..Len(c.lru) : a.lru[i] = c.lru[i]
               /\ \A d \in DOMAIN c.map : d \in DOMAIN a.map
      <4>1. ASSUME NEW i \in 1..Len(new.lru), i + (k + 1) <= Len(new.lru)
            PROVE  new.lru[i] \in Old
        <5>1. i \in 1..Len(c.lru) /\ i + k <= Len(c.lru)
          BY <1>1, <3>3, <3>4, <4>1
        <5> QED  BY <1>2, <3>3, <3>4, <5>1
      <4>2. AllKept(c)
        BY <1>1, <1>2, <3>4 DEF OneLost
      <4>3. Old \subseteq DOMAIN new.map
        BY <3>3, <3>4, <4>2 DEF AllKept
      <4>4. Grows(Start, new)
        BY <2>1, <4>2, <4>3 DEF AllKept, Grows, Start, Old
      <4> QED  BY <4>1, <4>3, <4>4 DEF Stage, OldFirst, AllKept
    <3>5. CASE /\ Len(c.lru) = MaxBlocks /\ Len(a.lru) = MaxBlocks
               /\ \A i \in 1..(MaxBlocks - 1) : a.lru[i] = c.lru[i + 1]
               /\ c.lru[1] \notin DOMAIN a.map
      <4>1. ASSUME NEW i \in 1..Len(new.lru), i + (k + 1) <= Len(new.lru)
            PROVE  new.lru[i] \in Old
        <5>1. /\ i \in 1..(MaxBlocks - 1) /\ i + 1 \in 1..Len(c.lru)
              /\ (i + 1) + k <= Len(c.lru)
          BY <1>1, <3>3, <3>5, <4>1
        <5>2. c.lru[i + 1] \in Old  BY <1>2, <5>1
        <5> QED  BY <3>3, <3>5, <5>1, <5>2
      <4>2. 1 \in 1..Len(c.lru) /\ 1 + k <= Len(c.lru)
        BY <1>1, <3>5
      <4>3. c.lru[1] \in Old  BY <1>2, <4>2
      <4>4. OneLost(new)
        BY <3>3, <3>5, <4>3 DEF OneLost
      <4> QED  BY <4>1, <4>4 DEF Stage, OldFirst
    <3> QED  BY <3>2, <3>4, <3>5 DEF AddedTo
  <2> QED  BY <2>2, <2>3
<1> QED  BY <1>4, <1>5

\* What an insertion has come to at its end; it visits at most two blocks.
LEMMA InsertLoses ==
  ASSUME CacheInv, NEW name \in Names, NEW a \in Nat, NEW b \in 0..Limit, a < b,
         b <= a + BlockLen, Insert(name, a, b)
  PROVE  \E c \in Inserted(overflown) :
           /\ dataMap' = c.map /\ lruList' = c.lru
           /\ overflown' = (overflown \cup c.overflown) \cap DOMAIN c.map
           /\ AllKept(c) \/ OneLost(c)
<1> DEFINE r == [start |-> a, end |-> b]
<1>0. PICK n \in Nat : \E s, acc :
        InsertsVia(name, r, n, s, acc) /\ s \in [1..n -> BlockAt] /\ n <= 2
  BY InsertChain
<1>1. PICK s, acc :
        InsertsVia(name, r, n, s, acc) /\ s \in [1..n -> BlockAt] /\ n <= 2
  BY <1>0
<1> HIDE DEF r
<1>2. /\ acc \in [0..n -> Inserted(overflown)] /\ acc[0] = Start
      /\ \A k \in 1..n : RoundOf(acc[k - 1], Key(name, s[k]), acc[k])
      /\ dataMap' = acc[n].map /\ lruList' = acc[n].lru
      /\ overflown' = (overflown \cup acc[n].overflown) \cap DOMAIN acc[n].map
  BY <1>1 DEF InsertsVia
<1>3. Stage(Start, 0)
  <2>1. Start.map = dataMap /\ Start.lru = lruList
    BY DEF Start
  <2>2. \A i \in 1..Len(lruList) : lruList[i] \in Old
    BY DEF CacheInv, ListOK, Old
  <2>3. AllKept(Start)
    BY <2>1 DEF AllKept, Old, Grows
  <2> QED  BY <2>1, <2>2, <2>3 DEF Stage, OldFirst
<1>4. ASSUME NEW k \in 1..n, Stage(acc[k - 1], k - 1)
      PROVE  Stage(acc[k], k)
  <2>1. k - 1 \in Nat /\ k - 1 < MaxBlocks /\ k - 1 \in 0..n /\ (k - 1) + 1 = k
    BY <1>1, BlockCacheAssumption
  <2>2. acc[k - 1] \in Inserted(overflown)
    BY <1>2, <2>1
  <2>3. s[k] \in BlockAt  BY <1>1
  <2>4. Key(name, s[k]) \in KeySet
    BY <2>3, KeyFacts
  <2>5. RoundOf(acc[k - 1], Key(name, s[k]), acc[k])
    BY <1>2
  <2>6. Stage(acc[k], (k - 1) + 1)
    BY <1>4, <2>1, <2>2, <2>4, <2>5, StageRound
  <2> QED  BY <2>1, <2>6
<1>5. Stage(acc[n], n)
  <2>1. CASE n = 0  BY <1>2, <1>3, <2>1
  <2>2. ASSUME n >= 1  PROVE Stage(acc[1], 1)
    BY <1>2, <1>3, <1>4, <2>2
  <2>3. CASE n = 1  BY <2>2, <2>3
  <2>4. CASE n = 2
    <3>1. 2 \in 1..n /\ 2 - 1 = 1  BY <2>4
    <3>2. Stage(acc[2], 2)
      BY <1>4, <2>2, <2>4, <3>1
    <3> QED  BY <2>4, <3>2
  <2> QED  BY <1>1, <2>1, <2>3, <2>4
<1>6. acc[n] \in Inserted(overflown)
  <2>1. n \in 0..n  OBVIOUS
  <2> QED  BY <1>2, <2>1
<1> QED  BY <1>2, <1>5, <1>6 DEF Stage

\* A byte that a table holds is in the block the table is of.
LEMMA ByteKey ==
  ASSUME NEW map, MapOK(map), NEW k \in DOMAIN map, NEW x \in Nat, Has(map[k].ranges, x)
  PROVE  k = Key(k[1], BlockStart(x))
<1>1. k \in KeySet /\ TableOK(map[k].ranges, k[2])
  BY MapsAre DEF MapOK
<1>2. k[2] \in BlockAt /\ k[2] \in Nat /\ k = <<k[1], k[2]>>
  BY <1>1, KeyFacts DEF KeySet
<1>3. PICK i \in Slots : In(map[k].ranges[i], x)
  BY DEF Has
<1> DEFINE T == map[k].ranges
<1>4. T[i] \in Rng
  BY <1>1 DEF TableOK, Table
<1> HIDE DEF T
<1>5. T[i].start <= x /\ x < T[i].end
  BY <1>3 DEF In, T
<1>6. T[i] # Free
  BY <1>5 DEF Free
<1>7. k[2] <= T[i].start /\ T[i].end <= k[2] + BlockLen
  BY <1>1, <1>6 DEF TableOK, Within, T
<1>8. k[2] <= x /\ x < k[2] + BlockLen
  BY <1>2, <1>4, <1>5, <1>7, BlockCacheAssumption DEF Rng
<1>9. k[2] = BlockStart(x)
  BY <1>2, <1>8, OneBlock
<1> QED  BY <1>2, <1>9 DEF Key

(***************************************************************************)
(* A valid byte is lost only when a block is added to a full list or a     *)
(* table is full: never by joining ranges, and never by read (cache.cpp    *)
(* 26-51, 75-125).                                                         *)
(***************************************************************************)
Loses(name, i) == i \in Valid(name, dataMap) \ Valid(name, dataMap')

THEOREM CacheKeepsValid == Spec => KeepsValid
<1>1. ASSUME CacheInv, CacheInv', [Next]_vars, NEW name \in Names, NEW i, Loses(name, i)
      PROVE  \/ Cardinality(DOMAIN dataMap \cup DOMAIN dataMap') > MaxBlocks
             \/ Key(name, BlockStart(i)) \in overflown'
  <2>1. MapOK(dataMap) /\ MapOK(dataMap') /\ ListOK(dataMap, lruList) /\ ListOK(dataMap', lruList')
    BY <1>1 DEF CacheInv
  <2>2. i \in Nat /\ \E k \in DOMAIN dataMap : k[1] = name /\ Has(dataMap[k].ranges, i)
    BY <1>1, <2>1, ValidIs DEF Loses
  <2>3. PICK k \in DOMAIN dataMap : k[1] = name /\ Has(dataMap[k].ranges, i)
    BY <2>2
  <2>4. ~(i \in Nat /\ \E l \in DOMAIN dataMap' : l[1] = name /\ Has(dataMap'[l].ranges, i))
    <3> DEFINE new == dataMap'
    <3>1. MapOK(new) /\ i \notin Valid(name, new)
      BY <1>1, <2>1 DEF Loses
    <3> HIDE DEF new
    <3>2. ~(i \in Nat /\ \E l \in DOMAIN new : l[1] = name /\ Has(new[l].ranges, i))
      BY <3>1, ValidIs
    <3> QED  BY <3>2 DEF new
  <2>5. dataMap' # dataMap
    BY <2>2, <2>4
  <2>6. PICK nm \in Names, a \in Nat, b \in 0..Limit :
          a < b /\ b <= a + BlockLen /\ Insert(nm, a, b)
    <3>1. Next  BY <1>1, <2>5 DEF vars
    <3>2. PICK nm \in Names, a \in Nat, b \in 0..Limit :
            a < b /\ b <= a + BlockLen /\ (Insert(nm, a, b) \/ Read(nm, a, b))
      BY <3>1, NextFacts
    <3>3. ~Read(nm, a, b)  BY <2>5 DEF Read
    <3> QED  BY <3>2, <3>3
  <2>7. PICK c \in Inserted(overflown) :
          /\ dataMap' = c.map /\ lruList' = c.lru
          /\ overflown' = (overflown \cup c.overflown) \cap DOMAIN c.map
          /\ AllKept(c) \/ OneLost(c)
    BY <1>1, <2>6, InsertLoses
  <2>8. CASE AllKept(c)
    <3>1. k \in DOMAIN c.map /\ Grows(Start, c)
      BY <2>3, <2>8 DEF AllKept, Old
    <3>2. ~Has(c.map[k].ranges, i)
      BY <2>2, <2>3, <2>4, <2>7, <3>1
    <3>3. Start.map = dataMap  BY DEF Start
    <3>4. k \in c.overflown
      BY <2>2, <2>3, <3>1, <3>2, <3>3 DEF Grows
    <3>5. k = Key(name, BlockStart(i))
      BY <2>1, <2>2, <2>3, ByteKey
    <3> QED  BY <2>7, <3>1, <3>4, <3>5
  <2>9. CASE OneLost(c)
    <3> DEFINE D == DOMAIN dataMap
               E == DOMAIN c.map
    <3>1. PICK d \in D : d \notin E
      BY <2>9 DEF OneLost, Old
    <3>2. Len(c.lru) = MaxBlocks /\ ListOK(c.map, c.lru)
      BY <2>9 DEF OneLost, Inserted
    <3>3. IsFiniteSet(E) /\ Cardinality(E) = MaxBlocks /\ IsFiniteSet(D)
      BY <2>1, <3>2, ListLength
    <3> HIDE DEF D, E
    <3>4. IsFiniteSet(E \cup {d}) /\ Cardinality(E \cup {d}) = MaxBlocks + 1
      BY <3>1, <3>3, FS_AddElement
    <3>5. IsFiniteSet(D \cup E)
      BY <3>3, FS_Union
    <3>6. E \cup {d} \subseteq D \cup E
      BY <3>1
    <3>7. Cardinality(E \cup {d}) <= Cardinality(D \cup E) /\ Cardinality(D \cup E) \in Nat
      BY <3>5, <3>6, FS_Subset, FS_CardinalityType
    <3>8. Cardinality(D \cup E) > MaxBlocks
      BY <3>4, <3>7, BlockCacheAssumption
    <3> QED  BY <2>7, <3>8 DEF D, E
  <2> QED  BY <2>7, <2>8, <2>9
<1>2. CacheInv /\ CacheInv' /\ [Next]_vars =>
        [\A name \in Names : \A i \in Valid(name, dataMap) \ Valid(name, dataMap') :
           \/ Cardinality(DOMAIN dataMap \cup DOMAIN dataMap') > MaxBlocks
           \/ Key(name, BlockStart(i)) \in overflown']_vars
  BY <1>1 DEF Loses
<1> QED  BY <1>2, CacheInvariance, PTL DEF Spec, KeepsValid
====
