---- MODULE FoldProofs ----
(***************************************************************************)
(* Induction over the natural numbers, and what it says of a fold over a   *)
(* sequence (SequencesExt): there is a chain of accumulators, one step per *)
(* element.  The facts are stated with sets and functions, where others    *)
(* have operators as parameters, so that first-order provers can use them. *)
(***************************************************************************)
EXTENDS Integers, Sequences, FiniteSets, SequencesExt, WellFoundedInduction, TLAPS

\* Every non-empty set of natural numbers has a least element.
LEMMA LeastNat ==
  ASSUME NEW T \in SUBSET Nat, T # {}
  PROVE  \E n \in T : \A m \in T : n <= m
<1> DEFINE R == OpToRel(<, Nat)
<1>1. IsWellFoundedOn(R, Nat)
  BY NatLessThanWellFounded
<1>2. \A x, y \in Nat : x < y => <<x, y>> \in R
  BY DEF OpToRel
<1> HIDE DEF R
<1>3. PICK x \in T : \A y \in T : ~(<<y, x>> \in R)
  BY <1>1, WFMin
<1>4. ASSUME NEW y \in T  PROVE x <= y
  <2>1. ~(y < x)  BY <1>2, <1>3
  <2> QED  BY <2>1
<1> QED  BY <1>4

\* Induction up to a bound: T is the set of numbers with the property.
LEMMA Induct ==
  ASSUME NEW n \in Nat, NEW T, 0 \in T,
         \A k \in 1..n : k - 1 \in T => k \in T
  PROVE  \A k \in 0..n : k \in T
<1> DEFINE Fails == {k \in 0..n : k \notin T}
<1> SUFFICES ASSUME Fails # {}  PROVE FALSE
  OBVIOUS
<1>0. Fails \in SUBSET Nat
  OBVIOUS
<1>1. PICK k \in Fails : \A m \in Fails : k <= m
  <2> HIDE DEF Fails
  <2> QED  BY <1>0, LeastNat
<1>2. k \in 1..n /\ k - 1 \in 0..n
  BY <1>1
<1>3. k - 1 \notin Fails
  BY <1>1, <1>2
<1> QED  BY <1>2, <1>3

\* The greatest element of a set of numbers up to one of its members.
LEMMA MaxIs ==
  ASSUME NEW k \in Int, NEW t \in SUBSET Int, k \in t, \A j \in t : j <= k
  PROVE  Max(t) = k
<1>1. \A x \in t : (\A y \in t : x >= y) => x = k
  OBVIOUS
<1> QED  BY <1>1 DEF Max

\* The greatest element of a set of numbers is in it.
LEMMA MaxIn ==
  ASSUME NEW n \in Nat, NEW t \in SUBSET (1..n), t # {}
  PROVE  Max(t) \in t
<1> DEFINE U == {k \in Nat : n - k \in t}
<1>1. U \in SUBSET Nat /\ U # {}
  <2>1. PICK x \in t : TRUE  OBVIOUS
  <2>2. n - x \in Nat /\ n - (n - x) = x  BY <2>1
  <2>3. n - x \in U  BY <2>1, <2>2
  <2> QED  BY <2>3
<1>2. PICK k \in U : \A m \in U : k <= m
  <2> HIDE DEF U
  <2> QED  BY <1>1, LeastNat
<1>3. n - k \in t  BY <1>2
<1>4. ASSUME NEW y \in t  PROVE n - k >= y
  <2>1. n - y \in Nat /\ n - (n - y) = y  BY <1>4
  <2>2. k <= n - y  BY <1>2, <2>1
  <2>3. k \in Nat /\ y \in Nat  BY <1>2
  <2> QED  BY <2>1, <2>2, <2>3
<1>5. \E x \in t : \A y \in t : x >= y
  BY <1>3, <1>4
<1> QED  BY <1>5 DEF Max

\* The least element of a set of natural numbers is in it.
LEMMA MinIn ==
  ASSUME NEW t \in SUBSET Nat, t # {}
  PROVE  Min(t) \in t /\ \A x \in t : Min(t) <= x
<1>1. \E x \in t : \A y \in t : x <= y
  BY LeastNat
<1> QED  BY <1>1 DEF Min

(***************************************************************************)
(* The function by which a fold over 1..n is defined exists, when its step *)
(* stays in X.                                                             *)
(***************************************************************************)
Iterates(g, step, base, n) ==
  g = [t \in SUBSET (1..n) |->
         IF t = {} THEN base ELSE step[Max(t)][g[t \ {Max(t)}]]]

LEMMA IterExists ==
  ASSUME NEW X, NEW n \in Nat, NEW base \in X, NEW step \in [1..n -> [X -> X]]
  PROVE  \E g \in [SUBSET (1..n) -> X] : Iterates(g, step, base, n)
<1> DEFINE T == {k \in 0..n : \E g \in [SUBSET (1..k) -> X] : Iterates(g, step, base, k)}
<1>1. 0 \in T
  <2> DEFINE g == [t \in SUBSET (1..0) |-> base]
  <2>1. g \in [SUBSET (1..0) -> X]
    OBVIOUS
  <2>2. \A t \in SUBSET (1..0) : t = {}
    OBVIOUS
  <2>3. Iterates(g, step, base, 0)
    BY <2>2 DEF Iterates
  <2> QED  BY <2>1, <2>3
<1>2. ASSUME NEW k \in 1..n, k - 1 \in T
      PROVE  k \in T
  <2>1. PICK g \in [SUBSET (1..(k - 1)) -> X] : Iterates(g, step, base, k - 1)
    BY <1>2
  <2> DEFINE h == [t \in SUBSET (1..k) |->
                     IF k \in t THEN step[k][g[t \ {k}]] ELSE g[t]]
  <2>2. \A t \in SUBSET (1..k) : t \ {k} \in SUBSET (1..(k - 1))
    OBVIOUS
  <2>3. h \in [SUBSET (1..k) -> X]
    <3>1. ASSUME NEW t \in SUBSET (1..k)
          PROVE  (IF k \in t THEN step[k][g[t \ {k}]] ELSE g[t]) \in X
      <4>1. CASE k \in t
        <5>1. g[t \ {k}] \in X  BY <2>2
        <5>2. step[k] \in [X -> X]  OBVIOUS
        <5> QED  BY <4>1, <5>1, <5>2
      <4>2. CASE k \notin t
        <5>1. t \ {k} = t  BY <4>2
        <5> QED  BY <4>2, <5>1, <2>2
      <4> QED  BY <4>1, <4>2
    <3> QED  BY <3>1
  <2>4. \A t \in SUBSET (1..k) : k \in t => Max(t) = k
    <3>1. \A t \in SUBSET (1..k) : t \in SUBSET Int /\ \A j \in t : j <= k
      OBVIOUS
    <3> QED  BY <3>1, MaxIs
  <2>5. ASSUME NEW t \in SUBSET (1..k), k \notin t
        PROVE  t \in SUBSET (1..(k - 1)) /\ h[t] = g[t]
    <3>1. t \ {k} = t  BY <2>5
    <3> QED  BY <2>2, <2>5, <3>1
  <2>6. ASSUME NEW t \in SUBSET (1..k)
        PROVE  h[t] = IF t = {} THEN base ELSE step[Max(t)][h[t \ {Max(t)}]]
    <3>1. CASE k \in t
      <4>1. t # {} /\ Max(t) = k  BY <2>4, <3>1
      <4>2. h[t] = step[k][g[t \ {k}]]  BY <3>1
      <4>3. h[t \ {k}] = g[t \ {k}]
        <5>1. t \ {k} \in SUBSET (1..k) /\ k \notin t \ {k}  OBVIOUS
        <5> QED  BY <2>5, <5>1
      <4> QED  BY <4>1, <4>2, <4>3
    <3>2. CASE k \notin t
      <4>1. t \in SUBSET (1..(k - 1)) /\ h[t] = g[t]  BY <2>5, <3>2
      <4>2. g[t] = IF t = {} THEN base ELSE step[Max(t)][g[t \ {Max(t)}]]
        BY <2>1, <4>1 DEF Iterates
      <4>3. h[t \ {Max(t)}] = g[t \ {Max(t)}]
        <5>1. t \ {Max(t)} \in SUBSET (1..k) /\ k \notin t \ {Max(t)}  BY <3>2
        <5> QED  BY <2>5, <5>1
      <4> QED  BY <4>1, <4>2, <4>3
    <3> QED  BY <3>1, <3>2
  <2>7. Iterates(h, step, base, k)
    <3>1. h = [t \in SUBSET (1..k) |-> h[t]]
      OBVIOUS
    <3> HIDE DEF h
    <3>2. h = [t \in SUBSET (1..k) |->
                 IF t = {} THEN base ELSE step[Max(t)][h[t \ {Max(t)}]]]
      BY <2>6, <3>1, Zenon
    <3> QED  BY <3>2 DEF Iterates
  <2>8. \E e \in [SUBSET (1..k) -> X] : Iterates(e, step, base, k)
    <3> HIDE DEF h
    <3> QED  BY <2>3, <2>7
  <2> QED  BY <2>8
<1>3. \A k \in 0..n : k \in T
  <2> HIDE DEF T
  <2>1. \A k \in 1..n : k - 1 \in T => k \in T  BY <1>2
  <2> QED  BY <1>1, <2>1, Induct
<1>4. n \in T
  <2> HIDE DEF T
  <2> QED  BY <1>3
<1> QED  BY <1>4

(***************************************************************************)
(* The values of such a function on 1..k, for k from 0 to n, are a chain:  *)
(* each comes from the one before by one step.                             *)
(***************************************************************************)
LEMMA IterChain ==
  ASSUME NEW n \in Nat, NEW k \in 1..n
  PROVE  /\ Max(1..k) = k /\ (1..k) \ {Max(1..k)} = 1..(k - 1)
         /\ 1..k # {} /\ 1..k \in SUBSET (1..n) /\ 1..(k - 1) \in SUBSET (1..n)
<1>1. Max(1..k) = k
  <2>1. k \in Int /\ 1..k \in SUBSET Int /\ k \in 1..k /\ \A j \in 1..k : j <= k
    OBVIOUS
  <2> QED  BY <2>1, MaxIs
<1> QED  BY <1>1

(***************************************************************************)
(* Of a function defined as that of a fold only the values on 1..k matter. *)
(***************************************************************************)
Chained(acc, X, step, base, n, last) ==
  /\ acc \in [0..n -> X] /\ acc[0] = base /\ acc[n] = last
  /\ \A k \in 1..n : acc[k] = step[k][acc[k - 1]]

LEMMA ChainExists ==
  ASSUME NEW X, NEW n \in Nat, NEW base \in X, NEW step \in [1..n -> [X -> X]],
         NEW f, f[{}] = base,
         \A k \in 1..n : f[1..(k - 1)] \in X => f[1..k] = step[k][f[1..(k - 1)]]
  PROVE  \E acc : Chained(acc, X, step, base, n, f[1..n])
<1> DEFINE T == {k \in 0..n : f[1..k] \in X}
           acc == [k \in 0..n |-> f[1..k]]
<1>1. f[1..0] = base
  <2>1. 1..0 = {}  OBVIOUS
  <2> QED  BY <2>1
<1>2. \A k \in 0..n : k \in T
  <2>1. 0 \in T  BY <1>1
  <2>2. ASSUME NEW k \in 1..n, k - 1 \in T  PROVE k \in T
    <3>1. f[1..(k - 1)] \in X  BY <2>2
    <3>2. f[1..k] = step[k][f[1..(k - 1)]]  BY <3>1
    <3>3. step[k] \in [X -> X]  OBVIOUS
    <3>4. f[1..k] \in X  BY <3>1, <3>2, <3>3
    <3> QED  BY <3>4
  <2>3. \A k \in 1..n : k - 1 \in T => k \in T  BY <2>2
  <2> HIDE DEF T
  <2> QED  BY <2>1, <2>3, Induct
<1>3. acc \in [0..n -> X]
  BY <1>2
<1>4. acc[0] = base /\ acc[n] = f[1..n]
  <2>1. 0 \in 0..n /\ n \in 0..n  OBVIOUS
  <2> QED  BY <1>1, <2>1
<1>5. ASSUME NEW k \in 1..n  PROVE acc[k] = step[k][acc[k - 1]]
  <2>1. k \in 0..n /\ k - 1 \in 0..n  OBVIOUS
  <2>2. f[1..(k - 1)] \in X  BY <1>2, <2>1
  <2>3. f[1..k] = step[k][f[1..(k - 1)]]  BY <2>2
  <2>4. acc[k] = f[1..k] /\ acc[k - 1] = f[1..(k - 1)]  BY <2>1
  <2> QED  BY <2>3, <2>4
<1> HIDE DEF acc
<1>6. Chained(acc, X, step, base, n, f[1..n])
  BY <1>3, <1>4, <1>5 DEF Chained
<1> QED  BY <1>6

\* The values of an iterating function are in the domain of its step.
StepsBy(g, X, step, base, n) ==
  \A t \in SUBSET (1..n) :
    IF t = {} THEN g[t] = base
    ELSE /\ Max(t) \in 1..n /\ g[t \ {Max(t)}] \in X
         /\ g[t] = step[Max(t)][g[t \ {Max(t)}]]

LEMMA IterValues ==
  ASSUME NEW X, NEW n \in Nat, NEW base, NEW step,
         NEW g \in [SUBSET (1..n) -> X], Iterates(g, step, base, n)
  PROVE  StepsBy(g, X, step, base, n)
<1> SUFFICES ASSUME NEW t \in SUBSET (1..n)
             PROVE  IF t = {} THEN g[t] = base
                    ELSE /\ Max(t) \in 1..n /\ g[t \ {Max(t)}] \in X
                         /\ g[t] = step[Max(t)][g[t \ {Max(t)}]]
  BY DEF StepsBy
<1>1. g[t] = IF t = {} THEN base ELSE step[Max(t)][g[t \ {Max(t)}]]
  BY DEF Iterates
<1>2. t # {} => Max(t) \in t
  BY MaxIn
<1>3. t \ {Max(t)} \in SUBSET (1..n)
  OBVIOUS
<1> QED  BY <1>1, <1>2, <1>3

(***************************************************************************)
(* Flattening a sequence of sequences: a chain of prefixes, one of the     *)
(* sequences appended at a time.                                           *)
(***************************************************************************)
Flattens(acc, X, seqs, last) ==
  /\ acc \in [0..Len(seqs) -> Seq(X)] /\ acc[0] = <<>> /\ acc[Len(seqs)] = last
  /\ \A k \in 1..Len(seqs) : acc[k] = acc[k - 1] \o seqs[k]

LEMMA PrefixesExist ==
  ASSUME NEW X, NEW seqs \in Seq(Seq(X))
  PROVE  \E acc, last : Flattens(acc, X, seqs, last)
<1> DEFINE n == Len(seqs)
           step == [k \in 1..n |-> [c \in Seq(X) |-> c \o seqs[k]]]
<1>0. n \in Nat /\ \A k \in 1..n : seqs[k] \in Seq(X)
  OBVIOUS
<1>1. step \in [1..n -> [Seq(X) -> Seq(X)]]
  <2>1. \A k \in 1..n : \A c \in Seq(X) : c \o seqs[k] \in Seq(X)
    BY <1>0
  <2> QED  BY <2>1
<1>2. <<>> \in Seq(X)
  OBVIOUS
<1>3. PICK g \in [SUBSET (1..n) -> Seq(X)] : Iterates(g, step, <<>>, n)
  <2> HIDE DEF step, n
  <2> QED  BY <1>0, <1>1, <1>2, IterExists
<1>4. StepsBy(g, Seq(X), step, <<>>, n)
  <2> HIDE DEF step, n
  <2> QED  BY <1>0, <1>3, IterValues
<1> HIDE DEF step
<1>5. g[{}] = <<>>
  <2>1. {} \in SUBSET (1..n)  OBVIOUS
  <2> QED  BY <1>4, <2>1 DEF StepsBy
<1>6. \A k \in 1..n : g[1..(k - 1)] \in Seq(X) => g[1..k] = step[k][g[1..(k - 1)]]
  <2> SUFFICES ASSUME NEW k \in 1..n
               PROVE  g[1..k] = step[k][g[1..(k - 1)]]
    OBVIOUS
  <2> HIDE DEF n
  <2>1. /\ Max(1..k) = k /\ (1..k) \ {Max(1..k)} = 1..(k - 1)
        /\ 1..k # {} /\ 1..k \in SUBSET (1..n)
    BY <1>0, IterChain
  <2>2. g[1..k] = step[Max(1..k)][g[(1..k) \ {Max(1..k)}]]
    BY <1>4, <2>1 DEF StepsBy
  <2> QED  BY <2>1, <2>2
<1>7. PICK acc : Chained(acc, Seq(X), step, <<>>, n, g[1..n])
  <2> HIDE DEF n
  <2> QED  BY <1>0, <1>1, <1>2, <1>5, <1>6, ChainExists
<1>8. \A k \in 1..n : acc[k] = acc[k - 1] \o seqs[k]
  <2> SUFFICES ASSUME NEW k \in 1..n  PROVE acc[k] = acc[k - 1] \o seqs[k]
    OBVIOUS
  <2>1. acc[k] = step[k][acc[k - 1]] /\ acc \in [0..n -> Seq(X)]
    BY <1>7 DEF Chained
  <2>2. k - 1 \in 0..n  BY <1>0
  <2>3. acc[k - 1] \in Seq(X)  BY <2>1, <2>2
  <2> QED  BY <2>1, <2>3 DEF step
<1>9. Flattens(acc, X, seqs, g[1..n])
  BY <1>7, <1>8 DEF Flattens, Chained
<1> QED  BY <1>9

LEMMA FlattenChain ==
  ASSUME NEW X, NEW seqs \in Seq(Seq(X))
  PROVE  \E acc : Flattens(acc, X, seqs, FlattenSeq(seqs))
<1> DEFINE n == Len(seqs)
           Flat(f) == f = [i \in 1..n |-> IF i = 1 THEN seqs[i] ELSE f[i - 1] \o seqs[i]]
<1>0. n \in Nat /\ \A k \in 1..n : seqs[k] \in Seq(X)
  OBVIOUS
<1>1. PICK acc, last : Flattens(acc, X, seqs, last)
  BY PrefixesExist
<1>2. /\ acc \in [0..n -> Seq(X)] /\ acc[0] = <<>>
      /\ \A k \in 1..n : acc[k] = acc[k - 1] \o seqs[k]
  BY <1>1 DEF Flattens
<1>3. CASE n = 0
  <2>1. seqs = <<>>  BY <1>3
  <2>2. FlattenSeq(seqs) = seqs  BY <1>3 DEF FlattenSeq
  <2>3. Flattens(acc, X, seqs, FlattenSeq(seqs))
    BY <1>2, <1>3, <2>1, <2>2 DEF Flattens
  <2> QED  BY <2>3
<1>4. CASE n # 0
  <2> DEFINE h == [i \in 1..n |-> acc[i]]
  <2>1. ASSUME NEW i \in 1..n
        PROVE  h[i] = IF i = 1 THEN seqs[i] ELSE h[i - 1] \o seqs[i]
    <3>1. h[i] = acc[i - 1] \o seqs[i]  BY <1>2
    <3>2. CASE i = 1
      <4>1. acc[i - 1] = <<>>  BY <1>2, <3>2
      <4>2. <<>> \o seqs[i] = seqs[i]  BY <1>0
      <4> QED  BY <3>1, <3>2, <4>1, <4>2
    <3>3. CASE i # 1
      <4>1. i - 1 \in 1..n  BY <3>3
      <4> QED  BY <3>1, <3>3, <4>1
    <3> QED  BY <3>2, <3>3
  <2>2. Flat(h)
    <3>1. h = [i \in 1..n |-> h[i]]  OBVIOUS
    <3> HIDE DEF h
    <3> QED  BY <2>1, <3>1, Zenon
  <2>3. \E e : Flat(e)
    <3> HIDE DEF Flat, h
    <3> QED  BY <2>2
  <2> DEFINE f == CHOOSE e : Flat(e)
  <2>4. Flat(f)
    <3> HIDE DEF Flat
    <3> QED  BY <2>3
  <2>5. FlattenSeq(seqs) = f[n]
    BY <1>4, Zenon DEF FlattenSeq
  <2> HIDE DEF f
  <2> DEFINE T == {k \in 0..n : k = 0 \/ f[k] = acc[k]}
  <2>6. \A k \in 0..n : k \in T
    <3>1. 0 \in T  BY <1>0
    <3>2. ASSUME NEW k \in 1..n, k - 1 \in T  PROVE k \in T
      <4>1. f[k] = IF k = 1 THEN seqs[k] ELSE f[k - 1] \o seqs[k]
        BY <2>4
      <4>2. acc[k] = acc[k - 1] \o seqs[k]  BY <1>2
      <4>3. CASE k = 1
        <5>1. acc[k - 1] = <<>>  BY <1>2, <4>3
        <5>2. <<>> \o seqs[k] = seqs[k]  BY <1>0
        <5> QED  BY <4>1, <4>2, <4>3, <5>1, <5>2
      <4>4. CASE k # 1
        <5>1. f[k - 1] = acc[k - 1]  BY <3>2, <4>4
        <5>2. f[k] = f[k - 1] \o seqs[k]  BY <4>1, <4>4
        <5>3. f[k] = acc[k]  BY <4>2, <5>1, <5>2, Zenon
        <5>4. k \in 0..n  OBVIOUS
        <5> QED  BY <5>3, <5>4
      <4> QED  BY <4>3, <4>4
    <3>3. \A k \in 1..n : k - 1 \in T => k \in T  BY <3>2
    <3> HIDE DEF T, n
    <3> QED  BY <1>0, <3>1, <3>3, Induct
  <2>7. f[n] = acc[n]
    BY <1>0, <1>4, <2>6
  <2>8. Flattens(acc, X, seqs, FlattenSeq(seqs))
    BY <1>2, <2>5, <2>7 DEF Flattens
  <2> QED  BY <2>8
<1> QED  BY <1>3, <1>4

LEMMA FlattenAppend ==
  ASSUME NEW X, NEW seqs \in Seq(Seq(X)), NEW s \in Seq(X)
  PROVE  /\ FlattenSeq(seqs) \in Seq(X)
         /\ FlattenSeq(Append(seqs, s)) = FlattenSeq(seqs) \o s
<1> DEFINE n == Len(seqs)
           more == Append(seqs, s)
<1>0. /\ n \in Nat /\ more \in Seq(Seq(X)) /\ Len(more) = n + 1
      /\ \A k \in 1..n : more[k] = seqs[k]
      /\ more[n + 1] = s
  OBVIOUS
<1>1. PICK acc : Flattens(acc, X, seqs, FlattenSeq(seqs))
  BY FlattenChain
<1> HIDE DEF more
<1>2. PICK bcc : Flattens(bcc, X, more, FlattenSeq(more))
  BY <1>0, FlattenChain
<1>3. /\ acc \in [0..n -> Seq(X)] /\ acc[0] = <<>> /\ acc[n] = FlattenSeq(seqs)
      /\ \A k \in 1..n : acc[k] = acc[k - 1] \o seqs[k]
  BY <1>1 DEF Flattens
<1>4. /\ bcc[0] = <<>> /\ bcc[n + 1] = FlattenSeq(more)
      /\ \A k \in 1..(n + 1) : bcc[k] = bcc[k - 1] \o more[k]
  BY <1>0, <1>2 DEF Flattens
<1> HIDE DEF n
<1> DEFINE T == {k \in 0..n : acc[k] = bcc[k]}
<1>5. \A k \in 0..n : k \in T
  <2>1. 0 \in T  BY <1>0, <1>3, <1>4
  <2>2. ASSUME NEW k \in 1..n, k - 1 \in T  PROVE k \in T
    <3>1. acc[k - 1] = bcc[k - 1] /\ k \in 0..n /\ k \in 1..(n + 1)  BY <1>0, <2>2
    <3>2. acc[k] = acc[k - 1] \o seqs[k]  BY <1>3
    <3>3. bcc[k] = bcc[k - 1] \o seqs[k]  BY <1>0, <1>4, <3>1
    <3>4. acc[k] = bcc[k]  BY <3>1, <3>2, <3>3, Zenon
    <3> QED  BY <3>1, <3>4
  <2>3. \A k \in 1..n : k - 1 \in T => k \in T  BY <2>2
  <2> HIDE DEF T
  <2> QED  BY <1>0, <2>1, <2>3, Induct
<1>6. n \in T /\ n + 1 \in 1..(n + 1) /\ (n + 1) - 1 = n /\ n \in 0..n
  BY <1>0, <1>5
<1>7. acc[n] = bcc[n]
  BY <1>6
<1>8. bcc[n + 1] = bcc[n] \o s
  BY <1>0, <1>4, <1>6
<1>9. FlattenSeq(more) = FlattenSeq(seqs) \o s
  BY <1>3, <1>4, <1>7, <1>8, Zenon
<1>10. FlattenSeq(seqs) \in Seq(X)
  BY <1>3, <1>6
<1> QED  BY <1>9, <1>10 DEF more

(***************************************************************************)
(* What is in the flattened sequence, and in which order: by the sequence  *)
(* it comes from, then by its place there.                                 *)
(***************************************************************************)
Before(x, y, seqs, k) ==
  \E p, q \in 1..k : \E m \in 1..Len(seqs[p]), o \in 1..Len(seqs[q]) :
    /\ x = seqs[p][m] /\ y = seqs[q][o]
    /\ p < q \/ (p = q /\ m < o)

InPlace(flat, seqs, k) ==
  /\ \A i \in 1..Len(flat) : \E p \in 1..k : \E m \in 1..Len(seqs[p]) : flat[i] = seqs[p][m]
  /\ \A p \in 1..k : \A m \in 1..Len(seqs[p]) : \E i \in 1..Len(flat) : flat[i] = seqs[p][m]
  /\ \A i, j \in 1..Len(flat) : i < j => Before(flat[i], flat[j], seqs, k)

LEMMA PlaceNext ==
  ASSUME NEW X, NEW seqs \in Seq(Seq(X)), NEW k \in 1..Len(seqs), NEW flat \in Seq(X),
         InPlace(flat, seqs, k - 1)
  PROVE  InPlace(flat \o seqs[k], seqs, k)
<1> DEFINE s == seqs[k]
           new == flat \o s
           n == Len(flat)
<1>0. s \in Seq(X) /\ n \in Nat /\ Len(s) \in Nat /\ k \in Nat /\ k \in 1..k
  OBVIOUS
<1>1. /\ new \in Seq(X) /\ Len(new) = n + Len(s)
      /\ \A i \in 1..(n + Len(s)) : new[i] = IF i <= n THEN flat[i] ELSE s[i - n]
  BY <1>0
<1> HIDE DEF new, s, n
<1>2. /\ \A i \in 1..n : new[i] = flat[i] /\ i \in 1..Len(new)
      /\ \A m \in 1..Len(s) : new[n + m] = s[m] /\ n + m \in 1..Len(new)
      /\ \A i \in 1..Len(new) : i \in 1..n \/ (i - n \in 1..Len(s) /\ new[i] = s[i - n] /\ i > n)
  BY <1>0, <1>1
<1>3. \A p \in 1..(k - 1) : p \in 1..k /\ p < k
  BY <1>0
<1>4. /\ \A i \in 1..n : \E p \in 1..(k - 1) : \E m \in 1..Len(seqs[p]) : flat[i] = seqs[p][m]
      /\ \A p \in 1..(k - 1) : \A m \in 1..Len(seqs[p]) : \E i \in 1..n : flat[i] = seqs[p][m]
      /\ \A i, j \in 1..n : i < j => Before(flat[i], flat[j], seqs, k - 1)
  BY DEF InPlace, n
<1>5. ASSUME NEW i \in 1..Len(new)
      PROVE  \E p \in 1..k : \E m \in 1..Len(seqs[p]) : new[i] = seqs[p][m]
  <2>1. CASE i \in 1..n
    <3>1. new[i] = flat[i]  BY <1>2, <2>1
    <3>2. PICK p \in 1..(k - 1) : \E m \in 1..Len(seqs[p]) : flat[i] = seqs[p][m]
      BY <1>4, <2>1
    <3>3. p \in 1..k  BY <1>3
    <3> QED  BY <3>1, <3>2, <3>3
  <2>2. CASE i - n \in 1..Len(s) /\ new[i] = s[i - n]
    BY <1>0, <2>2 DEF s
  <2> QED  BY <1>2, <2>1, <2>2
<1>6. ASSUME NEW p \in 1..k, NEW m \in 1..Len(seqs[p])
      PROVE  \E i \in 1..Len(new) : new[i] = seqs[p][m]
  <2>1. CASE p \in 1..(k - 1)
    <3>1. PICK i \in 1..n : flat[i] = seqs[p][m]  BY <1>4, <2>1
    <3> QED  BY <1>2, <3>1
  <2>2. CASE p = k
    <3>1. m \in 1..Len(s) /\ seqs[p][m] = s[m]  BY <2>2 DEF s
    <3> QED  BY <1>2, <3>1
  <2> QED  BY <1>0, <2>1, <2>2
<1>7. ASSUME NEW i \in 1..Len(new), NEW j \in 1..Len(new), i < j
      PROVE  Before(new[i], new[j], seqs, k)
  <2>1. CASE i \in 1..n /\ j \in 1..n
    <3>1. Before(flat[i], flat[j], seqs, k - 1)  BY <1>4, <1>7, <2>1
    <3>2. PICK p, q \in 1..(k - 1) : \E m \in 1..Len(seqs[p]), o \in 1..Len(seqs[q]) :
             /\ flat[i] = seqs[p][m] /\ flat[j] = seqs[q][o]
             /\ p < q \/ (p = q /\ m < o)
      BY <3>1 DEF Before
    <3>3. p \in 1..k /\ q \in 1..k  BY <1>3
    <3>4. new[i] = flat[i] /\ new[j] = flat[j]  BY <1>2, <2>1
    <3> QED  BY <3>2, <3>3, <3>4 DEF Before
  <2>2. CASE i \in 1..n /\ j \notin 1..n
    <3>1. PICK p \in 1..(k - 1) : \E m \in 1..Len(seqs[p]) : flat[i] = seqs[p][m]
      BY <1>4, <2>2
    <3>2. PICK m \in 1..Len(seqs[p]) : flat[i] = seqs[p][m]
      BY <3>1
    <3>3. j - n \in 1..Len(seqs[k]) /\ new[j] = seqs[k][j - n] /\ new[i] = flat[i]
      BY <1>2, <2>2 DEF s
    <3>4. p \in 1..k /\ p < k  BY <1>3
    <3> QED  BY <1>0, <3>2, <3>3, <3>4 DEF Before
  <2>3. CASE i \notin 1..n
    <3>1. j \notin 1..n  BY <1>0, <1>7, <2>3
    <3>2. /\ i - n \in 1..Len(seqs[k]) /\ new[i] = seqs[k][i - n]
          /\ j - n \in 1..Len(seqs[k]) /\ new[j] = seqs[k][j - n]
      BY <1>2, <2>3, <3>1 DEF s
    <3>3. i - n < j - n  BY <1>0, <1>7, <1>1
    <3> QED  BY <1>0, <3>2, <3>3 DEF Before
  <2> QED  BY <2>1, <2>2, <2>3
<1>8. InPlace(new, seqs, k)
  BY <1>5, <1>6, <1>7 DEF InPlace
<1> QED  BY <1>8 DEF new, s

LEMMA FlattenPlaces ==
  ASSUME NEW X, NEW seqs \in Seq(Seq(X))
  PROVE  FlattenSeq(seqs) \in Seq(X) /\ InPlace(FlattenSeq(seqs), seqs, Len(seqs))
<1> DEFINE n == Len(seqs)
<1>0. n \in Nat  OBVIOUS
<1>1. PICK acc : Flattens(acc, X, seqs, FlattenSeq(seqs))
  BY FlattenChain
<1>2. /\ acc \in [0..n -> Seq(X)] /\ acc[0] = <<>> /\ acc[n] = FlattenSeq(seqs)
      /\ \A k \in 1..n : acc[k] = acc[k - 1] \o seqs[k]
  BY <1>1 DEF Flattens
<1> DEFINE T == {k \in 0..n : InPlace(acc[k], seqs, k)}
<1>3. \A k \in 0..n : k \in T
  <2>1. 0 \in T
    <3>1. Len(acc[0]) = 0  BY <1>2
    <3>2. InPlace(acc[0], seqs, 0)  BY <3>1 DEF InPlace
    <3> QED  BY <1>0, <3>2
  <2>2. ASSUME NEW k \in 1..n, k - 1 \in T  PROVE k \in T
    <3>1. InPlace(acc[k - 1], seqs, k - 1) /\ acc[k - 1] \in Seq(X) /\ k \in 0..n
      <4>1. k - 1 \in 0..n /\ k \in 0..n  BY <1>0
      <4>2. acc[k - 1] \in Seq(X)  BY <1>2, <4>1
      <4> QED  BY <2>2, <4>1, <4>2
    <3>2. InPlace(acc[k - 1] \o seqs[k], seqs, k)
      BY <3>1, PlaceNext
    <3>3. acc[k] = acc[k - 1] \o seqs[k]  BY <1>2
    <3> QED  BY <3>1, <3>2, <3>3
  <2>3. \A k \in 1..n : k - 1 \in T => k \in T  BY <2>2
  <2> HIDE DEF T, n
  <2> QED  BY <1>0, <2>1, <2>3, Induct
<1>4. n \in T /\ n \in 0..n
  BY <1>0, <1>3
<1> QED  BY <1>2, <1>4
====
