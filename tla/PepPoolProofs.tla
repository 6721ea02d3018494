---- MODULE PepPoolProofs ----
(***************************************************************************)
(* The queues of PEPsal hold what they should for every number of          *)
(* connections and workers, as long as no worker hands over an empty list: *)
(* a connection that was handed over is in one place, and the poller goes  *)
(* on only when all are back.  The lists are followed pointer by pointer.  *)
(***************************************************************************)
EXTENDS PepPool, FoldProofs, FiniteSetTheorems

-----------------------------------------------------------------------------
(***************************************************************************)
(* list.h.  What the operations leave in the memory, node by node.         *)
(***************************************************************************)
LEMMA InitHeadMemory ==
  ASSUME NEW M \in Memory, NEW h \in Nodes
  PROVE  /\ InitHead(M, h) \in Memory
         /\ \A x \in Nodes :
              /\ InitHead(M, h).next[x] = IF x = h THEN h ELSE M.next[x]
              /\ InitHead(M, h).prev[x] = IF x = h THEN h ELSE M.prev[x]
  BY DEF InitHead, Memory

LEMMA AddRangeMemory ==
  ASSUME NEW M \in Memory, NEW first \in Nodes \cup {NULL}, NEW last \in Nodes \cup {NULL},
         NEW prev \in Nodes \cup {NULL}, NEW next \in Nodes \cup {NULL}
  PROVE  LET A == AddRange(M, first, last, prev, next)
         IN /\ A \in Memory
            /\ \A x \in Nodes :
                 /\ A.next[x] = IF x = prev THEN first
                                ELSE IF x = last THEN next ELSE M.next[x]
                 /\ A.prev[x] = IF x = next THEN last
                                ELSE IF x = first THEN prev ELSE M.prev[x]
  BY DEF AddRange, Memory

LEMMA DelMemory ==
  ASSUME NEW M \in Memory, NEW n \in Nodes
  PROVE  /\ Del(M, n) \in Memory
         /\ \A x \in Nodes :
              /\ Del(M, n).next[x] = IF x = n THEN NULL
                                     ELSE IF x = M.prev[n] THEN M.next[n] ELSE M.next[x]
              /\ Del(M, n).prev[x] = IF x = n THEN NULL
                                     ELSE IF x = M.next[n] THEN M.prev[n] ELSE M.prev[x]
  BY DEF Del, Memory

-----------------------------------------------------------------------------
(***************************************************************************)
(* A ring: from the head h along next through the sequence s and back to   *)
(* h, and the same way back along prev.                                    *)
(***************************************************************************)
NodeAt(h, s, i) == IF i \in 1..Len(s) THEN s[i] ELSE h

Ring(M, h, s) ==
  \A i \in 0..Len(s) :
    /\ M.next[NodeAt(h, s, i)] = NodeAt(h, s, i + 1)
    /\ M.prev[NodeAt(h, s, i + 1)] = NodeAt(h, s, i)

Once(s) == \A i, j \in 1..Len(s) : s[i] = s[j] => i = j

OnRing(h, s) == {h} \cup {s[i] : i \in 1..Len(s)}

\* A ring is what its own nodes say.
LEMMA RingFrame ==
  ASSUME NEW M, NEW A, NEW h, NEW s \in Seq(Conns), Ring(M, h, s),
         \A x \in OnRing(h, s) : A.next[x] = M.next[x] /\ A.prev[x] = M.prev[x]
  PROVE  Ring(A, h, s)
<1>1. \A i \in 0..(Len(s) + 1) : NodeAt(h, s, i) \in OnRing(h, s)
  BY DEF NodeAt, OnRing
<1>2. ASSUME NEW i \in 0..Len(s)
      PROVE  /\ A.next[NodeAt(h, s, i)] = NodeAt(h, s, i + 1)
             /\ A.prev[NodeAt(h, s, i + 1)] = NodeAt(h, s, i)
  <2>1. i \in 0..(Len(s) + 1) /\ i + 1 \in 0..(Len(s) + 1)
    OBVIOUS
  <2>2. /\ M.next[NodeAt(h, s, i)] = NodeAt(h, s, i + 1)
        /\ M.prev[NodeAt(h, s, i + 1)] = NodeAt(h, s, i)
    BY DEF Ring
  <2> QED  BY <1>1, <2>1, <2>2
<1> QED  BY <1>2 DEF Ring

LEMMA RingInit ==
  ASSUME NEW M \in Memory, NEW h \in Nodes
  PROVE  Ring(InitHead(M, h), h, <<>>)
  BY InitHeadMemory DEF Ring, NodeAt

LEMMA RingAppend ==
  ASSUME NEW M \in Memory, NEW h \in Nodes \ Conns, NEW s \in Seq(Conns), Conns \subseteq Nodes,
         Once(s), Ring(M, h, s), NEW x \in Conns, x \notin OnRing(h, s)
  PROVE  /\ AddToTail(M, h, x) \in Memory
         /\ Ring(AddToTail(M, h, x), h, Append(s, x))
         /\ \A y \in Nodes \ (OnRing(h, s) \cup {x}) :
              /\ AddToTail(M, h, x).next[y] = M.next[y]
              /\ AddToTail(M, h, x).prev[y] = M.prev[y]
<1> DEFINE A == AddToTail(M, h, x)
           n == Len(s)
           last == NodeAt(h, s, n)
<1>1. n \in Nat /\ \A i \in 1..n : s[i] \in Conns
  OBVIOUS
<1>2. last \in Nodes /\ last # x /\ last \in OnRing(h, s)
  BY <1>1 DEF NodeAt, OnRing
<1>3. M.prev[h] = last
  <2>1. M.prev[NodeAt(h, s, n + 1)] = NodeAt(h, s, n)
    BY <1>1 DEF Ring
  <2> QED  BY <1>1, <2>1 DEF NodeAt
<1>4. /\ A \in Memory
      /\ \A y \in Nodes :
           /\ A.next[y] = IF y = last THEN x ELSE IF y = x THEN h ELSE M.next[y]
           /\ A.prev[y] = IF y = h THEN x ELSE IF y = x THEN last ELSE M.prev[y]
  BY <1>2, <1>3, AddRangeMemory DEF AddToTail
<1>5. \A y \in Nodes \ (OnRing(h, s) \cup {x}) :
        A.next[y] = M.next[y] /\ A.prev[y] = M.prev[y]
  BY <1>2, <1>4 DEF OnRing
<1>6. ASSUME NEW i \in 0..(n + 1)
      PROVE  /\ A.next[NodeAt(h, Append(s, x), i)] = NodeAt(h, Append(s, x), i + 1)
             /\ A.prev[NodeAt(h, Append(s, x), i + 1)] = NodeAt(h, Append(s, x), i)
  <2> DEFINE B(j) == NodeAt(h, Append(s, x), j)
  <2>1. \A j \in 0..(n + 2) : B(j) = IF j = n + 1 THEN x ELSE NodeAt(h, s, j)
    BY <1>1 DEF NodeAt
  <2>2. \A j \in 0..(n + 1) : NodeAt(h, s, j) \in Nodes /\ NodeAt(h, s, j) \in OnRing(h, s)
    BY <1>1 DEF NodeAt, OnRing
  <2>3. CASE i < n
    <3>1. B(i) = NodeAt(h, s, i) /\ B(i + 1) = NodeAt(h, s, i + 1)
      BY <1>1, <2>1, <2>3
    <3>2. M.next[NodeAt(h, s, i)] = NodeAt(h, s, i + 1)
          /\ M.prev[NodeAt(h, s, i + 1)] = NodeAt(h, s, i)
      BY <2>3, <1>1 DEF Ring
    <3>3. NodeAt(h, s, i) # last
      BY <1>1, <2>3 DEF NodeAt, Once
    <3>4. NodeAt(h, s, i + 1) # h
      BY <1>1, <2>3 DEF NodeAt
    <3> QED  BY <1>1, <1>4, <2>2, <2>3, <3>1, <3>2, <3>3, <3>4
  <2>4. CASE i = n
    <3>1. B(i) = last /\ B(i + 1) = x
      BY <1>1, <2>1, <2>4
    <3>2. x \in Nodes /\ x # h
      BY DEF OnRing
    <3> QED  BY <1>2, <1>4, <3>1, <3>2
  <2>5. CASE i = n + 1
    <3>1. B(i) = x /\ B(i + 1) = h
      BY <1>1, <2>1, <2>5 DEF NodeAt
    <3>2. x \in Nodes /\ x # last
      BY <1>2
    <3> QED  BY <1>4, <3>1, <3>2
  <2> QED  BY <1>1, <2>3, <2>4, <2>5
<1>7. Ring(A, h, Append(s, x))
  <2>1. Len(Append(s, x)) = n + 1
    OBVIOUS
  <2> HIDE DEF A, n
  <2> QED  BY <1>6, <2>1 DEF Ring
<1> QED  BY <1>4, <1>5, <1>7

\* pepqueue_dequeue takes the node after the head.
LEMMA RingPop ==
  ASSUME NEW M \in Memory, NEW h \in Nodes \ Conns, NEW s \in Seq(Conns), Conns \subseteq Nodes,
         Once(s), Ring(M, h, s), s # <<>>
  PROVE  /\ M.next[h] = s[1]
         /\ Del(M, s[1]) \in Memory
         /\ Ring(Del(M, s[1]), h, Tail(s))
         /\ \A y \in Nodes \ OnRing(h, s) :
              Del(M, s[1]).next[y] = M.next[y] /\ Del(M, s[1]).prev[y] = M.prev[y]
<1> DEFINE x == s[1]
           A == Del(M, x)
           n == Len(s)
           N(i) == NodeAt(h, s, i)
<1>1. n \in Nat \ {0} /\ \A i \in 1..n : s[i] \in Conns
  OBVIOUS
<1>2. N(0) = h /\ N(1) = x /\ x \in Nodes /\ x # h /\ x \in OnRing(h, s)
  BY <1>1 DEF NodeAt, OnRing
<1>3. \A i \in 0..(n + 1) : N(i) \in OnRing(h, s) /\ N(i) \in Nodes
  BY <1>1 DEF NodeAt, OnRing
<1>4. /\ M.next[h] = x /\ M.prev[x] = h
      /\ M.next[x] = N(2)
  <2>1. /\ M.next[N(0)] = N(0 + 1) /\ M.prev[N(0 + 1)] = N(0)
        /\ M.next[N(1)] = N(1 + 1)
    BY <1>1 DEF Ring
  <2> QED  BY <1>2, <2>1
<1>5. /\ A \in Memory
      /\ \A y \in Nodes :
           /\ A.next[y] = IF y = x THEN NULL ELSE IF y = h THEN N(2) ELSE M.next[y]
           /\ A.prev[y] = IF y = x THEN NULL ELSE IF y = N(2) THEN h ELSE M.prev[y]
  <2>1. /\ Del(M, x) \in Memory
        /\ \A y \in Nodes :
             /\ Del(M, x).next[y] = IF y = x THEN NULL
                                   ELSE IF y = M.prev[x] THEN M.next[x] ELSE M.next[y]
             /\ Del(M, x).prev[y] = IF y = x THEN NULL
                                   ELSE IF y = M.next[x] THEN M.prev[x] ELSE M.prev[y]
    BY <1>2, DelMemory
  <2> HIDE DEF N
  <2> QED  BY <1>4, <2>1
<1>6. \A y \in Nodes \ OnRing(h, s) : A.next[y] = M.next[y] /\ A.prev[y] = M.prev[y]
  <2>1. N(2) \in OnRing(h, s) /\ h \in OnRing(h, s)
    BY <1>1, <1>3 DEF OnRing
  <2> QED  BY <1>2, <1>5, <2>1
<1>7. ASSUME NEW i \in 0..(n - 1)
      PROVE  /\ A.next[NodeAt(h, Tail(s), i)] = NodeAt(h, Tail(s), i + 1)
             /\ A.prev[NodeAt(h, Tail(s), i + 1)] = NodeAt(h, Tail(s), i)
  <2>1. \A j \in 0..n : NodeAt(h, Tail(s), j) = IF j = 0 THEN h ELSE N(j + 1)
    BY <1>1 DEF NodeAt
  <2>2. \A j \in 2..(n + 1) : N(j) # x /\ (N(j) = N(2) => j = 2)
    BY <1>1, <1>2 DEF NodeAt, Once
  <2>3. CASE i = 0
    <3>1. N(2) \in Nodes /\ N(2) # x
      BY <1>1, <1>3, <2>2
    <3> QED  BY <1>1, <1>2, <1>5, <2>1, <2>3, <3>1
  <2>4. CASE i # 0
    <3>1. M.next[N(i + 1)] = N(i + 2) /\ M.prev[N(i + 2)] = N(i + 1)
      <4>1. i + 1 \in 0..n /\ (i + 1) + 1 = i + 2
        BY <1>1, <2>4
      <4> QED  BY <4>1 DEF Ring
    <3>2. N(i + 1) \in Nodes /\ N(i + 2) \in Nodes /\ N(i + 1) # x /\ N(i + 2) # x
          /\ N(i + 2) # N(2) /\ N(i + 1) # h
      <4>1. i + 1 \in 2..n /\ i + 2 \in 2..(n + 1) /\ i + 2 # 2
        BY <1>1, <2>4
      <4>2. N(i + 1) # h
        BY <1>1, <4>1 DEF NodeAt
      <4> QED  BY <1>3, <2>2, <4>1, <4>2
    <3>3. NodeAt(h, Tail(s), i) = N(i + 1) /\ NodeAt(h, Tail(s), i + 1) = N(i + 2)
      BY <1>1, <2>1, <2>4
    <3> QED  BY <1>5, <3>1, <3>2, <3>3
  <2> QED  BY <2>3, <2>4
<1>8. Ring(A, h, Tail(s))
  <2>1. Len(Tail(s)) = n - 1
    BY <1>1
  <2> HIDE DEF A, n
  <2> QED  BY <1>7, <2>1 DEF Ring
<1> QED  BY <1>4, <1>5, <1>6, <1>8

\* list_move_tail: a list that is not empty is linked in before the head h.
LEMMA RingMove ==
  ASSUME NEW M \in Memory, NEW h \in Nodes \ Conns, NEW g \in Nodes \ Conns, g # h,
         NEW s \in Seq(Conns), NEW t \in Seq(Conns), Conns \subseteq Nodes,
         Once(s), Once(t), Ring(M, h, s), Ring(M, g, t), t # <<>>,
         OnRing(h, s) \cap OnRing(g, t) = {}
  PROVE  /\ MoveToTail(M, h, g) \in Memory
         /\ Ring(MoveToTail(M, h, g), h, s \o t)
         /\ Ring(MoveToTail(M, h, g), g, <<>>)
         /\ \A y \in Nodes \ (OnRing(h, s) \cup OnRing(g, t)) :
              /\ MoveToTail(M, h, g).next[y] = M.next[y]
              /\ MoveToTail(M, h, g).prev[y] = M.prev[y]
<1> DEFINE A == MoveToTail(M, h, g)
           n == Len(s)
           m == Len(t)
           N(i) == NodeAt(h, s, i)
           T(i) == NodeAt(g, t, i)
           last == N(n)
<1>1. /\ n \in Nat /\ \A i \in 1..n : s[i] \in Conns
      /\ m \in Nat \ {0} /\ \A i \in 1..m : t[i] \in Conns
  OBVIOUS
<1>2. /\ \A i \in 0..(n + 1) : N(i) \in OnRing(h, s) /\ N(i) \in Nodes
      /\ \A i \in 0..(m + 1) : T(i) \in OnRing(g, t) /\ T(i) \in Nodes
      /\ T(0) = g /\ N(n + 1) = h /\ T(m + 1) = g /\ N(0) = h
      /\ \A i \in 1..m : T(i) = t[i]
  BY <1>1 DEF NodeAt, OnRing
<1>3. M.next[g] = T(1) /\ M.prev[g] = T(m) /\ M.prev[h] = last
  <2>1. /\ M.next[T(0)] = T(0 + 1) /\ M.prev[T(m + 1)] = T(m)
        /\ M.prev[N(n + 1)] = N(n)
    BY <1>1 DEF Ring
  <2> QED  BY <1>2, <2>1
<1>4. /\ last \in Nodes /\ T(1) \in Nodes /\ T(m) \in Nodes
      /\ last \in OnRing(h, s) /\ T(1) \in OnRing(g, t) /\ T(m) \in OnRing(g, t)
      /\ h \in OnRing(h, s) /\ g \in OnRing(g, t)
  BY <1>1, <1>2
<1>5. /\ A \in Memory
      /\ \A y \in Nodes :
           /\ A.next[y] = IF y = g THEN g ELSE IF y = last THEN T(1)
                          ELSE IF y = T(m) THEN h ELSE M.next[y]
           /\ A.prev[y] = IF y = g THEN g ELSE IF y = h THEN T(m)
                          ELSE IF y = T(1) THEN last ELSE M.prev[y]
  <2> DEFINE B == AddRange(M, T(1), T(m), last, h)
  <2>1. /\ B \in Memory
        /\ \A y \in Nodes :
             /\ B.next[y] = IF y = last THEN T(1) ELSE IF y = T(m) THEN h ELSE M.next[y]
             /\ B.prev[y] = IF y = h THEN T(m) ELSE IF y = T(1) THEN last ELSE M.prev[y]
    BY <1>4, AddRangeMemory
  <2>2. A = InitHead(B, g)
    BY <1>3 DEF MoveToTail, Move
  <2> HIDE DEF B
  <2>3. /\ InitHead(B, g) \in Memory
        /\ \A y \in Nodes :
             /\ InitHead(B, g).next[y] = IF y = g THEN g ELSE B.next[y]
             /\ InitHead(B, g).prev[y] = IF y = g THEN g ELSE B.prev[y]
    BY <2>1, InitHeadMemory
  <2> HIDE DEF A, N, T
  <2> QED  BY <2>1, <2>2, <2>3
<1>6. \A y \in Nodes \ (OnRing(h, s) \cup OnRing(g, t)) :
        A.next[y] = M.next[y] /\ A.prev[y] = M.prev[y]
  BY <1>4, <1>5
<1>7. Ring(A, g, <<>>)
  BY <1>5 DEF Ring, NodeAt
<1>8. ASSUME NEW i \in 0..(n + m)
      PROVE  /\ A.next[NodeAt(h, s \o t, i)] = NodeAt(h, s \o t, i + 1)
             /\ A.prev[NodeAt(h, s \o t, i + 1)] = NodeAt(h, s \o t, i)
  <2> DEFINE B(j) == NodeAt(h, s \o t, j)
  <2>1. /\ \A j \in 0..n : B(j) = N(j)
        /\ \A j \in 1..m : B(n + j) = T(j)
        /\ B(n + m + 1) = h
    BY <1>1 DEF NodeAt
  <2>2. CASE i < n
    <3>1. B(i) = N(i) /\ B(i + 1) = N(i + 1)
      BY <1>1, <2>1, <2>2
    <3>2. M.next[N(i)] = N(i + 1) /\ M.prev[N(i + 1)] = N(i)
      BY <1>1, <2>2 DEF Ring
    <3>3. N(i) # last /\ N(i + 1) # h
      BY <1>1, <2>2 DEF NodeAt, Once
    <3>4. /\ N(i) \in Nodes /\ N(i + 1) \in Nodes
          /\ N(i) \in OnRing(h, s) /\ N(i + 1) \in OnRing(h, s)
      BY <1>1, <1>2, <2>2
    <3>5. N(i) # g /\ N(i) # T(m) /\ N(i + 1) # g /\ N(i + 1) # T(1)
      BY <1>4, <3>4
    <3> QED  BY <1>5, <3>1, <3>2, <3>3, <3>4, <3>5
  <2>3. CASE i = n
    <3>1. B(i) = last /\ B(i + 1) = T(1)
      BY <1>1, <2>1, <2>3
    <3>2. last # g /\ T(1) # g /\ T(1) # h
      BY <1>1, <1>2, <1>4
    <3> QED  BY <1>4, <1>5, <3>1, <3>2
  <2>4. CASE i > n /\ i < n + m
    <3> DEFINE j == i - n
    <3>1. j \in 1..(m - 1) /\ i = n + j /\ i + 1 = n + (j + 1) /\ j + 1 \in 1..m
      BY <1>1, <2>4
    <3>2. B(i) = T(j) /\ B(i + 1) = T(j + 1)
      BY <2>1, <3>1
    <3>3. M.next[T(j)] = T(j + 1) /\ M.prev[T(j + 1)] = T(j)
      BY <1>1, <3>1 DEF Ring
    <3>4. T(j) # g /\ T(j + 1) # g /\ T(j) # T(m) /\ T(j + 1) # T(1)
      <4>1. /\ T(j) = t[j] /\ T(j + 1) = t[j + 1] /\ T(m) = t[m] /\ T(1) = t[1]
            /\ j \in 1..m /\ m \in 1..m /\ 1 \in 1..m /\ j # m /\ j + 1 # 1
        BY <1>1, <1>2, <3>1
      <4>2. t[j] \in Conns /\ t[j + 1] \in Conns
        BY <1>1, <3>1, <4>1
      <4> HIDE DEF T, j
      <4> QED  BY <3>1, <4>1, <4>2 DEF Once
    <3>5. /\ T(j) \in Nodes /\ T(j + 1) \in Nodes
          /\ T(j) \in OnRing(g, t) /\ T(j + 1) \in OnRing(g, t)
      BY <1>1, <1>2, <3>1
    <3>6. T(j) # last /\ T(j + 1) # h
      BY <1>4, <3>5
    <3> HIDE DEF j
    <3> QED  BY <1>5, <3>2, <3>3, <3>4, <3>5, <3>6
  <2>5. CASE i = n + m
    <3>1. B(i) = T(m) /\ B(i + 1) = h
      BY <1>1, <2>1, <2>5
    <3>2. T(m) # g /\ T(m) # last /\ h # g
      BY <1>1, <1>2, <1>4
    <3> QED  BY <1>4, <1>5, <3>1, <3>2
  <2> QED  BY <1>1, <2>2, <2>3, <2>4, <2>5
<1>9. Ring(A, h, s \o t)
  <2>1. Len(s \o t) = n + m
    BY <1>1
  <2> HIDE DEF A, n, m
  <2> QED  BY <1>8, <2>1 DEF Ring
<1> QED  BY <1>5, <1>6, <1>7, <1>9

\* Following next from h is well defined.
LEMMA StepsAre ==
  ASSUME NEW M, NEW h
  PROVE  \A k \in 0..Cardinality(Nodes) :
           Steps(M, h)[k] = IF k = 0 THEN h
                            ELSE IF Steps(M, h)[k - 1] = NULL THEN NULL
                            ELSE M.next[Steps(M, h)[k - 1]]
<1> DEFINE C == Cardinality(Nodes)
           Along(e, k) == e = [i \in 0..k |-> IF i = 0 THEN h
                                               ELSE IF e[i - 1] = NULL THEN NULL
                                               ELSE M.next[e[i - 1]]]
           T == {k \in 0..C : \E e : Along(e, k)}
<1>1. C \in Nat
  BY FS_CardinalityType, PepListAssumption
<1>2. 0 \in T
  <2>1. Along([i \in 0..0 |-> h], 0)
    OBVIOUS
  <2>2. 0 \in 0..C  BY <1>1
  <2> HIDE DEF Along, C
  <2> QED  BY <2>1, <2>2
<1>3. ASSUME NEW k \in 1..C, k - 1 \in T  PROVE k \in T
  <2>1. PICK e : Along(e, k - 1)
    BY <1>3
  <2> DEFINE d == [i \in 0..k |-> IF i = k
                                  THEN IF e[k - 1] = NULL THEN NULL ELSE M.next[e[k - 1]]
                                  ELSE e[i]]
  <2>2. \A i \in 0..(k - 1) : d[i] = e[i]
    BY <1>1
  <2>3. ASSUME NEW i \in 0..k
        PROVE  d[i] = IF i = 0 THEN h ELSE IF d[i - 1] = NULL THEN NULL ELSE M.next[d[i - 1]]
    <3>1. CASE i = k
      <4>1. d[k] = IF e[k - 1] = NULL THEN NULL ELSE M.next[e[k - 1]]
        OBVIOUS
      <4>2. d[k - 1] = e[k - 1] /\ k # 0
        BY <1>1, <2>2
      <4> HIDE DEF d
      <4> QED  BY <3>1, <4>1, <4>2
    <3>2. CASE i # k
      <4>1. i \in 0..(k - 1) /\ (i # 0 => i - 1 \in 0..(k - 1))
        BY <1>1, <3>2
      <4>2. e[i] = IF i = 0 THEN h ELSE IF e[i - 1] = NULL THEN NULL ELSE M.next[e[i - 1]]
        BY <2>1, <4>1
      <4> HIDE DEF d
      <4> QED  BY <2>2, <4>1, <4>2
    <3> QED  BY <3>1, <3>2
  <2>4. Along(d, k)
    <3>1. d = [i \in 0..k |-> d[i]]
      OBVIOUS
    <3> HIDE DEF d
    <3> QED  BY <2>3, <3>1, Zenon
  <2> HIDE DEF d, Along
  <2> QED  BY <1>1, <2>4
<1>4. \E e : Along(e, C)
  <2> HIDE DEF T
  <2>1. \A k \in 1..C : k - 1 \in T => k \in T  BY <1>3
  <2>2. C \in T  BY <1>1, <1>2, <2>1, Induct
  <2> QED  BY <2>2 DEF T
<1>5. Along(Steps(M, h), C)
  <2>1. Steps(M, h) = CHOOSE e : Along(e, C)
    BY DEF Steps
  <2> HIDE DEF Along
  <2> QED  BY <1>4, <2>1
<1> QED  BY <1>5

\* A ring is followed along next: its list is the sequence.
LEMMA RingWalk ==
  ASSUME NEW M \in Memory, NEW h \in Nodes \ Conns, NEW s \in Seq(Conns), Conns \subseteq Nodes,
         Once(s), Ring(M, h, s)
  PROVE  Walk(M, h) = s /\ Length(M, h) = Len(s) /\ IsListOf(M, h, Conns)
<1> DEFINE n == Len(s)
           C == Cardinality(Nodes)
           N(i) == NodeAt(h, s, i)
<1>1. n \in Nat /\ \A i \in 1..n : s[i] \in Conns
  OBVIOUS
<1>2. C \in Nat
  BY FS_CardinalityType, PepListAssumption
<1>3. /\ \A i \in 0..(n + 1) : N(i) \in Nodes /\ N(i) # NULL
      /\ N(0) = h /\ N(n + 1) = h
      /\ \A i \in 1..n : N(i) = s[i] /\ N(i) # h
  BY <1>1, PepListAssumption DEF NodeAt
<1>4. n + 1 <= C
  <2> DEFINE f == [i \in 1..(n + 1) |-> N(i)]
  <2>1. f \in [1..(n + 1) -> Nodes]
    BY <1>1, <1>3
  <2>2. \A i, j \in 1..(n + 1) : f[i] = f[j] => i = j
    BY <1>1, <1>3 DEF Once
  <2>3. f \in Injection(1..(n + 1), Nodes)
    <3> HIDE DEF f
    <3> QED  BY <2>1, <2>2 DEF Injection, IsInjective
  <2>4. Cardinality(1..(n + 1)) <= C
    <3> HIDE DEF f
    <3> QED  BY <2>3, FS_Injection, PepListAssumption
  <2>5. Cardinality(1..(n + 1)) = n + 1
    <3>1. 1 \in Int /\ n + 1 \in Int /\ ~(1 > n + 1) /\ n + 1 - 1 + 1 = n + 1
      BY <1>1
    <3> HIDE DEF n
    <3> QED  BY <3>1, FS_Interval
  <2> QED  BY <2>4, <2>5
<1>5. \A k \in 0..(n + 1) : Steps(M, h)[k] = N(k)
  <2> DEFINE T == {k \in 0..(n + 1) : Steps(M, h)[k] = N(k)}
  <2>1. 0 \in T
    <3>1. 0 \in 0..C  BY <1>2
    <3>2. Steps(M, h)[0] = h  BY <3>1, StepsAre
    <3> QED  BY <1>1, <1>3, <3>2
  <2>2. ASSUME NEW k \in 1..(n + 1), k - 1 \in T  PROVE k \in T
    <3>1. k \in 0..C /\ k # 0 /\ k - 1 \in 0..n /\ (k - 1) + 1 = k
      BY <1>1, <1>2, <1>4
    <3>2. Steps(M, h)[k - 1] = N(k - 1) /\ N(k - 1) # NULL
      BY <1>1, <1>3, <2>2, <3>1
    <3>3. Steps(M, h)[k] = M.next[N(k - 1)]
      BY <3>1, <3>2, StepsAre
    <3>4. M.next[N(k - 1)] = N((k - 1) + 1)
      BY <3>1 DEF Ring
    <3> HIDE DEF N
    <3> QED  BY <1>1, <3>1, <3>3, <3>4
  <2>3. \A k \in 1..(n + 1) : k - 1 \in T => k \in T  BY <2>2
  <2>4. n + 1 \in Nat  BY <1>1
  <2> HIDE DEF T, n
  <2>5. \A k \in 0..(n + 1) : k \in T  BY <2>1, <2>3, <2>4, Induct
  <2> QED  BY <2>5 DEF T
<1>6. n + 1 \in Laps(M, h) /\ \A j \in Laps(M, h) : n + 1 <= j
  <2>1. n + 1 \in Laps(M, h)
    BY <1>1, <1>2, <1>3, <1>4, <1>5 DEF Laps
  <2>2. ASSUME NEW j \in Laps(M, h), j < n + 1  PROVE FALSE
    <3>1. j \in 1..n /\ Steps(M, h)[j] = h
      BY <1>1, <1>2, <2>2 DEF Laps
    <3>2. Steps(M, h)[j] = N(j)
      BY <1>1, <1>5, <3>1
    <3> QED  BY <1>3, <3>1, <3>2
  <2>3. \A j \in Laps(M, h) : j \in Int
    BY <1>2 DEF Laps
  <2> QED  BY <1>1, <2>1, <2>2, <2>3
<1>7. Length(M, h) = n
  <2>1. \A k \in Laps(M, h) : k \in Int
    BY <1>2 DEF Laps
  <2>2. (CHOOSE k \in Laps(M, h) : \A j \in Laps(M, h) : k <= j) = n + 1
    <3>1. \A k \in Laps(M, h) : (\A j \in Laps(M, h) : k <= j) => k = n + 1
      BY <1>1, <1>6, <2>1
    <3> QED  BY <1>6, <3>1
  <2>3. Length(M, h) = (n + 1) - 1
    <3> HIDE DEF n
    <3> QED  BY <2>2, Zenon DEF Length
  <2> QED  BY <1>1, <2>3
<1>8. Walk(M, h) = s
  <2>1. Walk(M, h) = [i \in 1..n |-> Steps(M, h)[i]]
    BY <1>7 DEF Walk
  <2>2. \A i \in 1..n : Steps(M, h)[i] = s[i]
    BY <1>1, <1>3, <1>5
  <2>3. s = [i \in 1..n |-> s[i]]
    BY <1>1
  <2> QED  BY <2>1, <2>2, <2>3
<1>9. IsListOf(M, h, Conns)
  <2>1. IsRing(M, h)
    BY <1>6 DEF IsRing
  <2>2. ASSUME NEW k \in 0..n
        PROVE  M.prev[M.next[Steps(M, h)[k]]] = Steps(M, h)[k]
    <3>1. Steps(M, h)[k] = N(k)
      BY <1>1, <1>5
    <3>2. M.next[N(k)] = N(k + 1) /\ M.prev[N(k + 1)] = N(k)
      BY DEF Ring
    <3> QED  BY <3>1, <3>2
  <2>3. \A i \in DOMAIN s : s[i] \in Conns
    BY <1>1
  <2> QED  BY <1>7, <1>8, <2>1, <2>2, <2>3 DEF IsListOf
<1> QED  BY <1>7, <1>8, <1>9

-----------------------------------------------------------------------------
(***************************************************************************)
(* All lists together: seg is what each head's list holds.  No connection  *)
(* is in two lists, or twice in one.                                       *)
(***************************************************************************)
Heads == Workers \cup {ActiveHead, ReadyHead, PollerHead}

LEMMA Distinct ==
  /\ Conns \subseteq Nodes /\ Heads \subseteq Nodes \ Conns
  /\ ActiveHead # ReadyHead /\ ActiveHead # PollerHead /\ ReadyHead # PollerHead
  /\ ActiveHead \notin Workers /\ ReadyHead \notin Workers /\ PollerHead \notin Workers
  /\ {ActiveHead, ReadyHead, PollerHead} \subseteq Heads /\ Workers \subseteq Heads
  /\ None \notin Conns /\ None \notin Heads /\ NULL \notin Nodes
  /\ IsFiniteSet(Conns) /\ IsFiniteSet(Workers)
  /\ Cardinality(Conns) \in Nat /\ Cardinality(Workers) \in Nat
<1> DEFINE C == Conns \cup Workers
           Q == {ActiveHead, ReadyHead, PollerHead}
<1>1. /\ Nodes = C \cup Q /\ IsFiniteSet(Nodes)
      /\ Cardinality(Nodes) = Cardinality(Conns) + Cardinality(Workers) + 3
  BY PepPoolAssumption, PepListAssumption
<1>2. /\ IsFiniteSet(Conns) /\ IsFiniteSet(Workers) /\ IsFiniteSet(C)
      /\ Cardinality(Conns) \in Nat /\ Cardinality(Workers) \in Nat /\ Cardinality(C) \in Nat
  <2>1. Conns \in SUBSET Nodes /\ Workers \in SUBSET Nodes /\ C \in SUBSET Nodes
    BY <1>1
  <2> HIDE DEF C
  <2> QED  BY <1>1, <2>1, FS_Subset, FS_CardinalityType
<1>3. /\ IsFiniteSet(Q) /\ Cardinality(Q) \in Nat /\ Cardinality(Q) <= 3
      /\ Cardinality(Q) = 3 => /\ ActiveHead # ReadyHead /\ ActiveHead # PollerHead
                               /\ ReadyHead # PollerHead
  <2>1. IsFiniteSet({}) /\ Cardinality({}) = 0
    BY FS_EmptySet
  <2>2. IsFiniteSet({} \cup {ActiveHead}) /\ Cardinality({} \cup {ActiveHead}) = 1
    BY <2>1, FS_AddElement
  <2> DEFINE P == ({} \cup {ActiveHead}) \cup {ReadyHead}
  <2>3. /\ IsFiniteSet(P)
        /\ Cardinality(P) = IF ReadyHead = ActiveHead THEN 1 ELSE 2
    BY <2>2, FS_AddElement
  <2>4. /\ IsFiniteSet(P \cup {PollerHead})
        /\ Cardinality(P \cup {PollerHead}) =
             IF PollerHead \in P THEN Cardinality(P) ELSE Cardinality(P) + 1
    <3> HIDE DEF P
    <3> QED  BY <2>3, FS_AddElement
  <2>5. Q = P \cup {PollerHead}
    OBVIOUS
  <2>6. /\ Cardinality(Q) = IF PollerHead \in P THEN Cardinality(P) ELSE Cardinality(P) + 1
        /\ IsFiniteSet(Q)
    <3> HIDE DEF P, Q
    <3> QED  BY <2>4, <2>5
  <2>7. PollerHead \in P <=> PollerHead = ActiveHead \/ PollerHead = ReadyHead
    OBVIOUS
  <2> HIDE DEF P, Q
  <2> QED  BY <2>3, <2>6, <2>7
<1>4. /\ Cardinality(C) = Cardinality(Conns) + Cardinality(Workers) - Cardinality(Conns \cap Workers)
      /\ Cardinality(Nodes) = Cardinality(C) + Cardinality(Q) - Cardinality(C \cap Q)
  <2> HIDE DEF Q
  <2>1. Cardinality(C) = Cardinality(Conns) + Cardinality(Workers)
                         - Cardinality(Conns \cap Workers)
    BY <1>2, FS_Union
  <2> HIDE DEF C
  <2> QED  BY <1>1, <1>2, <1>3, <2>1, FS_Union
<1>5. /\ IsFiniteSet(Conns \cap Workers) /\ IsFiniteSet(C \cap Q)
      /\ Cardinality(Conns \cap Workers) \in Nat /\ Cardinality(C \cap Q) \in Nat
  <2> HIDE DEF C, Q
  <2> QED  BY <1>2, FS_Intersection, FS_CardinalityType
<1>6. /\ Cardinality(Conns \cap Workers) = 0 /\ Cardinality(C \cap Q) = 0
      /\ Cardinality(Q) = 3
  <2>1. ASSUME NEW c \in Nat, NEW w \in Nat, NEW q \in Nat, NEW x \in Nat, NEW y \in Nat,
               q <= 3, c + w + 3 = ((c + w) - x + q) - y
        PROVE  x = 0 /\ y = 0 /\ q = 3
    BY <2>1
  <2> HIDE DEF C, Q
  <2>2. Cardinality(Conns) + Cardinality(Workers) + 3 =
          ((Cardinality(Conns) + Cardinality(Workers)) - Cardinality(Conns \cap Workers)
            + Cardinality(Q)) - Cardinality(C \cap Q)
    <3>1. Cardinality(Nodes) = Cardinality(Conns) + Cardinality(Workers) + 3
      BY <1>1
    <3> QED  BY <1>2, <1>3, <1>4, <1>5, <3>1
  <2> QED  BY <1>2, <1>3, <1>5, <2>1, <2>2
<1>7. Conns \cap Workers = {} /\ C \cap Q = {}
  <2> HIDE DEF C, Q
  <2> QED  BY <1>5, <1>6, FS_EmptySet
<1> QED  BY <1>1, <1>2, <1>3, <1>6, <1>7, PepPoolAssumption, PepListAssumption DEF Heads

Chains == [Heads -> Seq(Conns)]

Apart(seg) ==
  \A h, g \in Heads : \A i \in 1..Len(seg[h]), j \in 1..Len(seg[g]) :
    seg[h][i] = seg[g][j] => h = g /\ i = j

Listed(seg, c) == \E h \in Heads : \E i \in 1..Len(seg[h]) : seg[h][i] = c

Holds(M, H, seg) ==
  /\ M \in Memory /\ seg \in Chains /\ Apart(seg) /\ H \subseteq Heads
  /\ \A h \in H : Ring(M, h, seg[h])

LEMMA OneChain ==
  ASSUME NEW seg \in Chains, Apart(seg), NEW h \in Heads
  PROVE  /\ seg[h] \in Seq(Conns) /\ Once(seg[h]) /\ h \in Nodes \ Conns
         /\ Len(seg[h]) \in Nat /\ \A i \in 1..Len(seg[h]) : seg[h][i] \in Conns
         /\ \A g \in Heads : g # h => OnRing(g, seg[g]) \cap OnRing(h, seg[h]) = {}
         /\ OnRing(h, seg[h]) \subseteq Nodes
<1>1. \A g \in Heads : /\ seg[g] \in Seq(Conns) /\ g \in Nodes \ Conns /\ Len(seg[g]) \in Nat
                       /\ \A i \in 1..Len(seg[g]) : seg[g][i] \in Conns
  BY Distinct DEF Chains
<1>2. Once(seg[h])
  BY DEF Apart, Once
<1>3. ASSUME NEW g \in Heads, g # h, NEW x \in OnRing(g, seg[g]), x \in OnRing(h, seg[h])
      PROVE  FALSE
  BY <1>1, <1>3 DEF OnRing, Apart
<1>4. OnRing(h, seg[h]) \subseteq Nodes
  BY <1>1, Distinct DEF OnRing
<1> QED  BY <1>1, <1>2, <1>3, <1>4

\* An operation on one list leaves the others.
LEMMA OthersKeep ==
  ASSUME NEW M, NEW A, NEW H, NEW seg, Holds(M, H, seg), NEW g \in H, NEW X,
         OnRing(g, seg[g]) \cap X = {},
         \A y \in Nodes \ X : A.next[y] = M.next[y] /\ A.prev[y] = M.prev[y]
  PROVE  Ring(A, g, seg[g])
<1>1. /\ g \in Heads /\ seg \in Chains /\ Apart(seg) /\ Ring(M, g, seg[g])
  BY DEF Holds
<1>2. seg[g] \in Seq(Conns) /\ OnRing(g, seg[g]) \subseteq Nodes
  BY <1>1, OneChain
<1> QED  BY <1>1, <1>2, RingFrame

LEMMA HoldsInit ==
  ASSUME NEW M, NEW H, NEW seg, Holds(M, H, seg), NEW h \in Heads, seg[h] = <<>>
  PROVE  Holds(InitHead(M, h), H \cup {h}, seg)
<1>1. M \in Memory /\ seg \in Chains /\ Apart(seg) /\ H \subseteq Heads
  BY DEF Holds
<1>2. h \in Nodes
  BY Distinct
<1>3. InitHead(M, h) \in Memory /\ Ring(InitHead(M, h), h, seg[h])
  BY <1>1, <1>2, InitHeadMemory, RingInit
<1>4. ASSUME NEW g \in H, g # h  PROVE Ring(InitHead(M, h), g, seg[g])
  <2>1. OnRing(g, seg[g]) \cap {h} = {}
    <3>1. h \in OnRing(h, seg[h])  BY DEF OnRing
    <3> QED  BY <1>1, <1>4, <3>1, OneChain
  <2>2. \A y \in Nodes \ {h} : /\ InitHead(M, h).next[y] = M.next[y]
                               /\ InitHead(M, h).prev[y] = M.prev[y]
    BY <1>1, <1>2, InitHeadMemory
  <2> QED  BY <2>1, <2>2, OthersKeep
<1> QED  BY <1>1, <1>3, <1>4 DEF Holds

LEMMA HoldsAppend ==
  ASSUME NEW M, NEW H, NEW seg, Holds(M, H, seg), NEW h \in H,
         NEW x \in Conns, ~Listed(seg, x)
  PROVE  LET new == [seg EXCEPT ![h] = Append(seg[h], x)]
         IN /\ Holds(AddToTail(M, h, x), H, new)
            /\ \A c : Listed(new, c) <=> Listed(seg, c) \/ c = x
<1> DEFINE A == AddToTail(M, h, x)
           new == [seg EXCEPT ![h] = Append(seg[h], x)]
           n == Len(seg[h])
<1>1. M \in Memory /\ seg \in Chains /\ Apart(seg) /\ H \subseteq Heads /\ h \in Heads
  BY DEF Holds
<1>2. /\ seg[h] \in Seq(Conns) /\ Once(seg[h]) /\ h \in Nodes \ Conns /\ n \in Nat
      /\ Ring(M, h, seg[h])
  BY <1>1, OneChain DEF Holds
<1>3. x \notin OnRing(h, seg[h])
  BY <1>1, <1>2 DEF OnRing, Listed
<1>4. /\ A \in Memory /\ Ring(A, h, Append(seg[h], x))
      /\ \A y \in Nodes \ (OnRing(h, seg[h]) \cup {x}) :
           A.next[y] = M.next[y] /\ A.prev[y] = M.prev[y]
  <2>1. Conns \subseteq Nodes  BY Distinct
  <2> QED  BY <1>1, <1>2, <1>3, <2>1, RingAppend
<1>5. /\ new \in Chains
      /\ new[h] = Append(seg[h], x)
      /\ \A g \in Heads : g # h => new[g] = seg[g]
  BY <1>1, <1>2 DEF Chains
<1>6. /\ Len(new[h]) = n + 1 /\ new[h][n + 1] = x
      /\ \A i \in 1..n : new[h][i] = seg[h][i]
  BY <1>2, <1>5
<1>7. Apart(new)
  <2> SUFFICES ASSUME NEW f \in Heads, NEW g \in Heads,
                      NEW i \in 1..Len(new[f]), NEW j \in 1..Len(new[g]),
                      new[f][i] = new[g][j]
               PROVE  f = g /\ i = j
    BY DEF Apart
  <2>1. ASSUME NEW k \in Heads, NEW l \in 1..Len(new[k])
        PROVE  \/ k = h /\ l = n + 1 /\ new[k][l] = x
               \/ l \in 1..Len(seg[k]) /\ new[k][l] = seg[k][l] /\ new[k][l] # x
    <3>1. CASE k = h /\ l = n + 1  BY <1>6, <3>1
    <3>2. CASE k = h /\ l # n + 1
      BY <1>2, <1>6, <2>1, <3>2 DEF Listed
    <3>3. CASE k # h  BY <1>5, <2>1, <3>3 DEF Listed
    <3> QED  BY <3>1, <3>2, <3>3
  <2> HIDE DEF new, n
  <2> QED  BY <1>1, <2>1 DEF Apart
<1>8. ASSUME NEW g \in H  PROVE Ring(A, g, new[g])
  <2>1. CASE g = h  BY <1>4, <1>5, <2>1
  <2>2. CASE g # h
    <3>1. new[g] = seg[g] /\ g \in Heads  BY <1>1, <1>5, <2>2
    <3>2. OnRing(g, seg[g]) \cap (OnRing(h, seg[h]) \cup {x}) = {}
      <4>1. OnRing(g, seg[g]) \cap OnRing(h, seg[h]) = {}
        BY <1>1, <2>2, <3>1, OneChain
      <4>2. x \notin OnRing(g, seg[g])
        BY <3>1, Distinct DEF OnRing, Listed
      <4> QED  BY <4>1, <4>2
    <3>3. Ring(A, g, seg[g])
      <4> HIDE DEF A, new
      <4> QED  BY <1>4, <3>2, OthersKeep
    <3> QED  BY <3>1, <3>3
  <2> QED  BY <2>1, <2>2
<1>9. \A c : Listed(new, c) <=> Listed(seg, c) \/ c = x
  <2>1. ASSUME NEW c, Listed(new, c)  PROVE Listed(seg, c) \/ c = x
    <3>1. PICK k \in Heads : \E l \in 1..Len(new[k]) : new[k][l] = c
      BY <2>1 DEF Listed
    <3>2. PICK l \in 1..Len(new[k]) : new[k][l] = c
      BY <3>1
    <3> HIDE DEF new
    <3> QED  BY <1>2, <1>5, <1>6, <3>2 DEF Listed
  <2>2. ASSUME NEW c, Listed(seg, c)  PROVE Listed(new, c)
    <3>1. PICK k \in Heads : \E l \in 1..Len(seg[k]) : seg[k][l] = c
      BY <2>2 DEF Listed
    <3>2. PICK l \in 1..Len(seg[k]) : seg[k][l] = c
      BY <3>1
    <3>3. l \in 1..Len(new[k]) /\ new[k][l] = c
      BY <1>2, <1>5, <1>6, <3>2
    <3> HIDE DEF new
    <3> QED  BY <3>3 DEF Listed
  <2>3. Listed(new, x)
    <3>1. n + 1 \in 1..Len(new[h])  BY <1>2, <1>6
    <3> HIDE DEF new, n
    <3> QED  BY <1>1, <1>6, <3>1 DEF Listed
  <2> QED  BY <2>1, <2>2, <2>3
<1> HIDE DEF A, new
<1>10. Holds(A, H, new)
  BY <1>1, <1>4, <1>5, <1>7, <1>8 DEF Holds
<1> QED  BY <1>9, <1>10 DEF A, new

LEMMA TailIs ==
  ASSUME NEW s \in Seq(Conns), s # <<>>
  PROVE  /\ Len(Tail(s)) = Len(s) - 1
         /\ \A i \in 1..(Len(s) - 1) : Tail(s)[i] = s[i + 1]
  OBVIOUS

LEMMA HoldsPop ==
  ASSUME NEW M, NEW H, NEW seg, Holds(M, H, seg), NEW h \in H, seg[h] # <<>>
  PROVE  LET x == M.next[h]
             new == [seg EXCEPT ![h] = Tail(seg[h])]
         IN /\ x \in Conns
            /\ Holds(Del(M, x), H, new)
            /\ \A c : Listed(new, c) <=> Listed(seg, c) /\ c # x
            /\ Listed(seg, x)
<1> DEFINE x == seg[h][1]
           A == Del(M, x)
           new == [seg EXCEPT ![h] = Tail(seg[h])]
           n == Len(seg[h])
<1>1. M \in Memory /\ seg \in Chains /\ Apart(seg) /\ H \subseteq Heads /\ h \in Heads
  BY DEF Holds
<1>2. /\ seg[h] \in Seq(Conns) /\ Once(seg[h]) /\ h \in Nodes \ Conns
      /\ n \in Nat \ {0} /\ x \in Conns /\ Ring(M, h, seg[h])
  BY <1>1, OneChain DEF Holds
<1>3. /\ M.next[h] = x /\ A \in Memory /\ Ring(A, h, Tail(seg[h]))
      /\ \A y \in Nodes \ OnRing(h, seg[h]) :
           A.next[y] = M.next[y] /\ A.prev[y] = M.prev[y]
  <2>1. Conns \subseteq Nodes  BY Distinct
  <2> QED  BY <1>1, <1>2, <2>1, RingPop
<1>4. /\ new \in Chains
      /\ new[h] = Tail(seg[h])
      /\ \A g \in Heads : g # h => new[g] = seg[g]
  BY <1>1, <1>2 DEF Chains
<1>5. /\ Len(new[h]) = n - 1
      /\ \A i \in 1..(n - 1) : new[h][i] = seg[h][i + 1]
  BY <1>2, <1>4, TailIs
<1>6. ASSUME NEW k \in Heads, NEW l \in 1..Len(new[k])
      PROVE  LET m == IF k = h THEN l + 1 ELSE l
             IN m \in 1..Len(seg[k]) /\ new[k][l] = seg[k][m]
  <2>1. CASE k = h
    <3>1. l \in 1..(n - 1) /\ l + 1 \in 1..n  BY <1>2, <1>5, <2>1
    <3> QED  BY <1>5, <2>1, <3>1
  <2>2. CASE k # h  BY <1>4, <2>2
  <2> QED  BY <2>1, <2>2
<1>7. Apart(new)
  <2> SUFFICES ASSUME NEW f \in Heads, NEW g \in Heads,
                      NEW i \in 1..Len(new[f]), NEW j \in 1..Len(new[g]),
                      new[f][i] = new[g][j]
               PROVE  f = g /\ i = j
    BY DEF Apart
  <2> DEFINE fi == IF f = h THEN i + 1 ELSE i
             gj == IF g = h THEN j + 1 ELSE j
  <2>1. fi \in 1..Len(seg[f]) /\ new[f][i] = seg[f][fi]  BY <1>6
  <2>2. gj \in 1..Len(seg[g]) /\ new[g][j] = seg[g][gj]  BY <1>6
  <2>3. f = g /\ fi = gj
    <3> HIDE DEF fi, gj, new
    <3>1. seg[f][fi] = seg[g][gj]  BY <2>1, <2>2
    <3> QED  BY <1>1, <2>1, <2>2, <3>1 DEF Apart
  <2>4. i \in Int /\ j \in Int
    <3>1. Len(new[f]) \in Int /\ Len(new[g]) \in Int  BY <1>4 DEF Chains
    <3> QED  BY <3>1
  <2> QED  BY <2>3, <2>4
<1>8. ASSUME NEW g \in H  PROVE Ring(A, g, new[g])
  <2>1. CASE g = h  BY <1>3, <1>4, <2>1
  <2>2. CASE g # h
    <3>1. new[g] = seg[g] /\ g \in Heads  BY <1>1, <1>4, <2>2
    <3>2. OnRing(g, seg[g]) \cap OnRing(h, seg[h]) = {}
      BY <1>1, <2>2, <3>1, OneChain
    <3>3. Ring(A, g, seg[g])
      <4> HIDE DEF A, new, x
      <4> QED  BY <1>3, <3>2, OthersKeep
    <3> QED  BY <3>1, <3>3
  <2> QED  BY <2>1, <2>2
<1>9. \A c : Listed(new, c) <=> Listed(seg, c) /\ c # x
  <2>1. ASSUME NEW c, Listed(new, c)  PROVE Listed(seg, c) /\ c # x
    <3>1. PICK k \in Heads : \E l \in 1..Len(new[k]) : new[k][l] = c
      BY <2>1 DEF Listed
    <3>2. PICK l \in 1..Len(new[k]) : new[k][l] = c
      BY <3>1
    <3> DEFINE m == IF k = h THEN l + 1 ELSE l
    <3>3. m \in 1..Len(seg[k]) /\ seg[k][m] = c /\ (k = h => m # 1)
      <4>1. m \in 1..Len(seg[k]) /\ seg[k][m] = c  BY <1>6, <3>2
      <4>2. k = h => l \in Nat \ {0}  BY <1>2, <1>5
      <4> QED  BY <4>1, <4>2
    <3>4. c # x
      <4>1. 1 \in 1..Len(seg[h])  BY <1>2
      <4> HIDE DEF m, new
      <4> QED  BY <1>1, <3>3, <4>1 DEF Apart
    <3> HIDE DEF m, new
    <3> QED  BY <3>3, <3>4 DEF Listed
  <2>2. ASSUME NEW c, Listed(seg, c), c # x  PROVE Listed(new, c)
    <3>1. PICK k \in Heads : \E l \in 1..Len(seg[k]) : seg[k][l] = c
      BY <2>2 DEF Listed
    <3>2. PICK l \in 1..Len(seg[k]) : seg[k][l] = c
      BY <3>1
    <3> DEFINE m == IF k = h THEN l - 1 ELSE l
    <3>3. m \in 1..Len(new[k]) /\ new[k][m] = c
      <4>1. CASE k = h
        <5>1. l # 1 /\ l \in 1..n  BY <2>2, <3>2, <4>1
        <5>2. l - 1 \in 1..(n - 1) /\ (l - 1) + 1 = l  BY <1>2, <5>1
        <5> QED  BY <1>5, <3>2, <4>1, <5>2
      <4>2. CASE k # h  BY <1>4, <3>2, <4>2
      <4> QED  BY <4>1, <4>2
    <3> HIDE DEF m, new
    <3> QED  BY <3>3 DEF Listed
  <2> QED  BY <2>1, <2>2
<1>10. Listed(seg, x)
  <2>1. 1 \in 1..Len(seg[h])  BY <1>2
  <2> QED  BY <1>1, <2>1 DEF Listed
<1>11. Holds(A, H, new)
  <2> HIDE DEF A, new
  <2> QED  BY <1>1, <1>3, <1>4, <1>7, <1>8 DEF Holds
<1> HIDE DEF x, new
<1> QED  BY <1>2, <1>3, <1>9, <1>10, <1>11 DEF A, new

LEMMA ConcatIs ==
  ASSUME NEW s \in Seq(Conns), NEW t \in Seq(Conns), NEW r, r = s \o t
  PROVE  /\ r \in Seq(Conns) /\ Len(r) = Len(s) + Len(t)
         /\ \A i \in 1..Len(s) : r[i] = s[i]
         /\ \A i \in 1..Len(t) : r[Len(s) + i] = t[i]
  OBVIOUS

LEMMA HoldsMove ==
  ASSUME NEW M, NEW H, NEW seg, Holds(M, H, seg), NEW h \in H, NEW g \in H, h # g,
         seg[g] # <<>>
  PROVE  LET new == [seg EXCEPT ![h] = seg[h] \o seg[g], ![g] = <<>>]
         IN /\ Holds(MoveToTail(M, h, g), H, new)
            /\ \A c : Listed(new, c) <=> Listed(seg, c)
<1> DEFINE A == MoveToTail(M, h, g)
           new == [seg EXCEPT ![h] = seg[h] \o seg[g], ![g] = <<>>]
           n == Len(seg[h])
           m == Len(seg[g])
<1>1. /\ M \in Memory /\ seg \in Chains /\ Apart(seg) /\ H \subseteq Heads
      /\ h \in Heads /\ g \in Heads
  BY DEF Holds
<1>2. /\ seg[h] \in Seq(Conns) /\ Once(seg[h]) /\ h \in Nodes \ Conns /\ n \in Nat
      /\ Ring(M, h, seg[h])
      /\ seg[g] \in Seq(Conns) /\ Once(seg[g]) /\ g \in Nodes \ Conns /\ m \in Nat
      /\ Ring(M, g, seg[g])
      /\ OnRing(h, seg[h]) \cap OnRing(g, seg[g]) = {}
  BY <1>1, OneChain DEF Holds
<1>3. /\ A \in Memory /\ Ring(A, h, seg[h] \o seg[g]) /\ Ring(A, g, <<>>)
      /\ \A y \in Nodes \ (OnRing(h, seg[h]) \cup OnRing(g, seg[g])) :
           A.next[y] = M.next[y] /\ A.prev[y] = M.prev[y]
  <2>1. Conns \subseteq Nodes  BY Distinct
  <2> QED  BY <1>1, <1>2, <2>1, RingMove
<1>4. /\ new \in Chains
      /\ new[h] = seg[h] \o seg[g] /\ new[g] = <<>>
      /\ \A f \in Heads : f # h /\ f # g => new[f] = seg[f]
  <2>1. seg[h] \o seg[g] \in Seq(Conns) /\ <<>> \in Seq(Conns)
    BY <1>2, ConcatIs
  <2>2. seg \in [Heads -> Seq(Conns)]
    BY <1>1 DEF Chains
  <2>3. new \in [Heads -> Seq(Conns)]
    BY <2>1, <2>2
  <2> QED  BY <1>1, <2>2, <2>3 DEF Chains
<1>5. /\ Len(new[h]) = n + m /\ Len(new[g]) = 0
      /\ \A i \in 1..n : new[h][i] = seg[h][i]
      /\ \A i \in 1..m : new[h][n + i] = seg[g][i]
  <2> HIDE DEF new
  <2>1. seg[h] \in Seq(Conns) /\ seg[g] \in Seq(Conns)  BY <1>2
  <2>2. /\ Len(new[h]) = Len(seg[h]) + Len(seg[g])
        /\ \A i \in 1..Len(seg[h]) : new[h][i] = seg[h][i]
        /\ \A i \in 1..Len(seg[g]) : new[h][Len(seg[h]) + i] = seg[g][i]
    <3> DEFINE s == seg[h]
               t == seg[g]
               r == new[h]
    <3>1. r = s \o t  BY <1>4
    <3>2. s \in Seq(Conns) /\ t \in Seq(Conns)  BY <2>1
    <3> HIDE DEF r, s, t
    <3>3. /\ Len(r) = Len(s) + Len(t)
          /\ \A i \in 1..Len(s) : r[i] = s[i]
          /\ \A i \in 1..Len(t) : r[Len(s) + i] = t[i]
      BY <3>1, <3>2, ConcatIs
    <3> QED  BY <3>3 DEF r, s, t
  <2>3. Len(new[g]) = 0  BY <1>4
  <2> QED  BY <2>2, <2>3
<1> HIDE DEF new
<1>n. n \in Nat /\ m \in Nat
  BY <1>2
\* Where the l-th node of k's new list was before.
<1> DEFINE K(k, l) == IF k = h /\ l > n THEN g ELSE k
           I(k, l) == IF k = h /\ l > n THEN l - n ELSE l
<1>6. ASSUME NEW k \in Heads, NEW l \in 1..Len(new[k])
      PROVE  /\ K(k, l) \in Heads /\ I(k, l) \in 1..Len(seg[K(k, l)])
             /\ new[k][l] = seg[K(k, l)][I(k, l)]
             /\ k # g /\ l \in Nat
  <2>1. CASE k = h /\ l > n
    <3>1. l - n \in 1..m /\ n + (l - n) = l
      <4>1. Len(new[k]) = n + m  BY <1>5, <2>1
      <4> HIDE DEF n, m
      <4> QED  BY <1>n, <2>1, <4>1
    <3> QED  BY <1>1, <1>2, <1>5, <2>1, <3>1
  <2>2. CASE k = h /\ ~(l > n)
    <3>1. l \in 1..n  BY <1>2, <1>5, <2>2
    <3> QED  BY <1>1, <1>2, <1>5, <2>2, <3>1
  <2>3. CASE k # h
    <3>1. k # g  BY <1>5, <2>3
    <3>2. new[k] = seg[k]  BY <1>4, <2>3, <3>1
    <3>3. Len(seg[k]) \in Nat  BY <1>1, OneChain
    <3> QED  BY <2>3, <3>1, <3>2, <3>3
  <2> QED  BY <2>1, <2>2, <2>3
<1>7. Apart(new)
  <2> SUFFICES ASSUME NEW f \in Heads, NEW e \in Heads,
                      NEW i \in 1..Len(new[f]), NEW j \in 1..Len(new[e]),
                      new[f][i] = new[e][j]
               PROVE  f = e /\ i = j
    BY DEF Apart
  <2>1. /\ K(f, i) \in Heads /\ I(f, i) \in 1..Len(seg[K(f, i)])
        /\ new[f][i] = seg[K(f, i)][I(f, i)] /\ f # g /\ i \in Nat
    BY <1>6
  <2>2. /\ K(e, j) \in Heads /\ I(e, j) \in 1..Len(seg[K(e, j)])
        /\ new[e][j] = seg[K(e, j)][I(e, j)] /\ e # g /\ j \in Nat
    BY <1>6
  <2>3. K(f, i) = K(e, j) /\ I(f, i) = I(e, j)
    <3> HIDE DEF K, I
    <3>1. seg[K(f, i)][I(f, i)] = seg[K(e, j)][I(e, j)]  BY <2>1, <2>2
    <3> QED  BY <1>1, <2>1, <2>2, <3>1 DEF Apart
  <2> QED  BY <1>2, <2>1, <2>2, <2>3
<1>8. ASSUME NEW f \in H  PROVE Ring(A, f, new[f])
  <2>1. CASE f = h  BY <1>3, <1>4, <2>1
  <2>2. CASE f = g  BY <1>3, <1>4, <2>2
  <2>3. CASE f # h /\ f # g
    <3>1. new[f] = seg[f] /\ f \in Heads  BY <1>1, <1>4, <2>3
    <3>2. OnRing(f, seg[f]) \cap (OnRing(h, seg[h]) \cup OnRing(g, seg[g])) = {}
      <4>1. /\ OnRing(f, seg[f]) \cap OnRing(h, seg[h]) = {}
            /\ OnRing(f, seg[f]) \cap OnRing(g, seg[g]) = {}
        BY <1>1, <2>3, <3>1, OneChain
      <4> QED  BY <4>1
    <3>3. Ring(A, f, seg[f])
      <4> HIDE DEF A
      <4> QED  BY <1>3, <3>2, OthersKeep
    <3> QED  BY <3>1, <3>3
  <2> QED  BY <2>1, <2>2, <2>3
<1>9. \A c : Listed(new, c) <=> Listed(seg, c)
  <2>1. ASSUME NEW c, Listed(new, c)  PROVE Listed(seg, c)
    <3>1. PICK k \in Heads : \E l \in 1..Len(new[k]) : new[k][l] = c
      BY <2>1 DEF Listed
    <3>2. PICK l \in 1..Len(new[k]) : new[k][l] = c
      BY <3>1
    <3>3. /\ K(k, l) \in Heads /\ I(k, l) \in 1..Len(seg[K(k, l)])
          /\ seg[K(k, l)][I(k, l)] = c
      BY <1>6, <3>2
    <3> HIDE DEF K, I
    <3> QED  BY <3>3 DEF Listed
  <2>2. ASSUME NEW c, Listed(seg, c)  PROVE Listed(new, c)
    <3>1. PICK k \in Heads : \E l \in 1..Len(seg[k]) : seg[k][l] = c
      BY <2>2 DEF Listed
    <3>2. PICK l \in 1..Len(seg[k]) : seg[k][l] = c
      BY <3>1
    <3>3. CASE k = g
      <4>1. l \in 1..m /\ n + l \in 1..(n + m)
        <5>1. l \in 1..m  BY <3>2, <3>3
        <5> HIDE DEF n, m
        <5> QED  BY <1>n, <5>1
      <4>2. n + l \in 1..Len(new[h]) /\ new[h][n + l] = c
        BY <1>5, <3>2, <3>3, <4>1
      <4> HIDE DEF n
      <4> QED  BY <1>1, <4>2 DEF Listed
    <3>4. CASE k # g
      <4>1. l \in 1..Len(new[k]) /\ new[k][l] = c
        <5>1. CASE k = h
          <6>1. l \in 1..n /\ l \in 1..(n + m)
            <7>1. l \in 1..n  BY <3>2, <5>1
            <7> HIDE DEF n, m
            <7> QED  BY <1>n, <7>1
          <6> QED  BY <1>5, <3>2, <5>1, <6>1
        <5>2. CASE k # h  BY <1>4, <3>2, <3>4, <5>2
        <5> QED  BY <5>1, <5>2
      <4> QED  BY <4>1 DEF Listed
    <3> QED  BY <3>3, <3>4
  <2> QED  BY <2>1, <2>2
<1> HIDE DEF A
<1>10. Holds(A, H, new)
  BY <1>1, <1>3, <1>4, <1>7, <1>8 DEF Holds
<1> QED  BY <1>9, <1>10 DEF A, new

\* Into an empty list, the two ends are the same.
LEMMA MoveToEmpty ==
  ASSUME NEW M, NEW H, NEW seg, Holds(M, H, seg), NEW h \in H, NEW g, seg[h] = <<>>
  PROVE  MoveToHead(M, h, g) = MoveToTail(M, h, g)
<1>1. Ring(M, h, <<>>)
  BY DEF Holds
<1>2. M.next[h] = h /\ M.prev[h] = h
  BY <1>1 DEF Ring, NodeAt
<1> QED  BY <1>2 DEF MoveToHead, MoveToTail

\* What the lists of PepList say of a head.
LEMMA HoldsWalk ==
  ASSUME NEW M, NEW H, NEW seg, Holds(M, H, seg), NEW h \in H
  PROVE  /\ Walk(M, h) = seg[h] /\ Length(M, h) = Len(seg[h]) /\ IsListOf(M, h, Conns)
<1>1. /\ M \in Memory /\ seg \in Chains /\ Apart(seg) /\ h \in Heads /\ Ring(M, h, seg[h])
      /\ Conns \subseteq Nodes
  BY Distinct DEF Holds
<1>2. seg[h] \in Seq(Conns) /\ Once(seg[h]) /\ h \in Nodes \ Conns
  BY <1>1, OneChain
<1> QED  BY <1>1, <1>2, RingWalk

-----------------------------------------------------------------------------
(***************************************************************************)
(* Poll links the connections one by one: the fold has a memory for every  *)
(* connection linked.                                                      *)
(***************************************************************************)
LEMMA AddMemory ==
  ASSUME NEW M \in Memory, NEW h \in Nodes, NEW x \in Nodes \cup {NULL}
  PROVE  AddToTail(M, h, x) \in Memory
<1> DEFINE last == M.prev[h]
<1>1. last \in Nodes \cup {NULL}
  BY DEF Memory
<1> HIDE DEF last
<1>2. AddRange(M, x, x, last, h) \in Memory
  BY <1>1, AddRangeMemory
<1> QED  BY <1>2 DEF AddToTail, last

Linked(M, h, s) == FoldLeft(LAMBDA m, c : AddToTail(m, h, c), M, s)

LinkedBy(acc, M, h, n, s) ==
  /\ acc \in [0..n -> Memory] /\ acc[0] = M
  /\ \A k \in 1..n : acc[k] = AddToTail(acc[k - 1], h, s[k])
  /\ Linked(M, h, s) = acc[n]

LEMMA LinkFold ==
  ASSUME NEW M \in Memory, NEW h \in Nodes, NEW n \in Nat, NEW s \in [1..n -> Conns]
  PROVE  \E acc : LinkedBy(acc, M, h, n, s)
<1> DEFINE step == [k \in 1..n |-> [m \in Memory |-> AddToTail(m, h, s[k])]]
           Fold(g) == g = [t \in SUBSET (1..n) |->
                             IF t = {} THEN M
                             ELSE AddToTail(g[t \ {Max(t)}], h, s[Max(t)])]
<1>1. step \in [1..n -> [Memory -> Memory]]
  <2>1. ASSUME NEW k \in 1..n, NEW m \in Memory  PROVE AddToTail(m, h, s[k]) \in Memory
    <3>1. s[k] \in Nodes \cup {NULL}  BY Distinct
    <3> QED  BY <3>1, AddMemory
  <2> QED  BY <2>1
<1>2. PICK g \in [SUBSET (1..n) -> Memory] : Iterates(g, step, M, n)
  <2> HIDE DEF step
  <2> QED  BY <1>1, IterExists
<1>3. \A t \in SUBSET (1..n) : t # {} => Max(t) \in t
  <2>1. ASSUME NEW t \in SUBSET (1..n), t # {}  PROVE Max(t) \in t
    <3>1. IsFiniteSet(1..n)  BY FS_Interval
    <3>2. \E x \in t : \A y \in t : x >= y
      <4> DEFINE U == {k \in Nat : n - k \in t}
      <4>1. U \in SUBSET Nat /\ U # {}
        <5>1. PICK x \in t : TRUE  BY <2>1
        <5>2. n - x \in Nat /\ n - (n - x) = x  BY <5>1
        <5>3. n - x \in U  BY <5>1, <5>2
        <5> QED  BY <5>3
      <4>2. PICK k \in U : \A m \in U : k <= m
        <5> HIDE DEF U
        <5> QED  BY <4>1, LeastNat
      <4>3. n - k \in t  BY <4>2
      <4>4. ASSUME NEW y \in t  PROVE n - k >= y
        <5>1. n - y \in Nat /\ n - (n - y) = y  BY <4>4
        <5>2. k <= n - y  BY <4>2, <5>1
        <5>3. k \in Nat /\ y \in Nat  BY <4>2
        <5> QED  BY <5>1, <5>2, <5>3
      <4> QED  BY <4>3, <4>4
    <3> QED  BY <3>2 DEF Max
  <2> QED  BY <2>1
<1>4. Fold(g)
  <2>1. ASSUME NEW t \in SUBSET (1..n), t # {}
        PROVE  step[Max(t)][g[t \ {Max(t)}]] = AddToTail(g[t \ {Max(t)}], h, s[Max(t)])
    <3>1. Max(t) \in 1..n /\ t \ {Max(t)} \in SUBSET (1..n)  BY <1>3, <2>1
    <3>2. g[t \ {Max(t)}] \in Memory  BY <3>1
    <3> QED  BY <3>1, <3>2
  <2>2. ASSUME NEW t \in SUBSET (1..n)
        PROVE  g[t] = IF t = {} THEN M ELSE AddToTail(g[t \ {Max(t)}], h, s[Max(t)])
    <3>1. g[t] = IF t = {} THEN M ELSE step[Max(t)][g[t \ {Max(t)}]]
      BY <1>2 DEF Iterates
    <3> HIDE DEF step
    <3> QED  BY <2>1, <3>1
  <2>3. g = [t \in SUBSET (1..n) |-> g[t]]  OBVIOUS
  <2> QED  BY <2>2, <2>3, Zenon
<1> DEFINE f == CHOOSE i : Fold(i)
<1>5. Fold(f)
  <2> HIDE DEF Fold
  <2> QED  BY <1>4
<1>6. Linked(M, h, s) = f[1..n]
  <2>1. DOMAIN s = 1..n  OBVIOUS
  <2> QED  BY <2>1, Zenon DEF Linked, FoldLeft, MapThenFoldSet
<1> DEFINE acc == [k \in 0..n |-> f[1..k]]
<1>7. acc[0] = M
  <2>1. 1..0 = {} /\ 1..0 \in SUBSET (1..n)  OBVIOUS
  <2>2. f[{}] = M
    <3> HIDE DEF f
    <3> QED  BY <1>5, <2>1
  <2> QED  BY <2>1, <2>2
<1>8. ASSUME NEW k \in 1..n  PROVE acc[k] = AddToTail(acc[k - 1], h, s[k])
  <2>1. /\ Max(1..k) = k /\ (1..k) \ {Max(1..k)} = 1..(k - 1)
        /\ 1..k # {} /\ 1..k \in SUBSET (1..n)
    BY IterChain
  <2>2. f[1..k] = AddToTail(f[1..(k - 1)], h, s[k])
    <3>1. f[1..k] = AddToTail(f[(1..k) \ {Max(1..k)}], h, s[Max(1..k)])
      <4> HIDE DEF f
      <4> QED  BY <1>5, <2>1
    <3> HIDE DEF f
    <3> QED  BY <2>1, <3>1
  <2>3. k - 1 \in 0..n /\ k \in 0..n  OBVIOUS
  <2> HIDE DEF f
  <2> QED  BY <2>2, <2>3
<1>9. acc \in [0..n -> Memory]
  <2> DEFINE T == {k \in 0..n : acc[k] \in Memory}
  <2> HIDE DEF acc
  <2>1. 0 \in T  BY <1>7
  <2>2. ASSUME NEW k \in 1..n, k - 1 \in T  PROVE k \in T
    <3>1. acc[k - 1] \in Memory /\ s[k] \in Nodes \cup {NULL}
      BY <2>2, Distinct
    <3>2. AddToTail(acc[k - 1], h, s[k]) \in Memory
      BY <3>1, AddMemory
    <3> QED  BY <1>8, <3>2
  <2>3. \A k \in 1..n : k - 1 \in T => k \in T  BY <2>2
  <2>4. \A k \in 0..n : k \in T
    <3> HIDE DEF T
    <3> QED  BY <2>1, <2>3, Induct
  <2> QED  BY <2>4 DEF acc
<1> HIDE DEF f
<1>10. acc[n] = f[1..n]  OBVIOUS
<1> HIDE DEF acc
<1> QED  BY <1>6, <1>7, <1>8, <1>9, <1>10 DEF LinkedBy

\* SetToSeq: every element once.
LEMMA SeqOfSet ==
  ASSUME NEW S \in SUBSET Conns
  PROVE  LET s == SetToSeq(S)
             n == Cardinality(S)
         IN /\ n \in Nat /\ n <= Cardinality(Conns) /\ (S # {} => n > 0)
            /\ s \in [1..n -> Conns]
            /\ \A i, j \in 1..n : s[i] = s[j] => i = j
            /\ \A c : c \in S <=> \E i \in 1..n : s[i] = c
<1> DEFINE n == Cardinality(S)
<1>1. IsFiniteSet(S) /\ n \in Nat /\ n <= Cardinality(Conns) /\ ExistsBijection(1..n, S)
  BY Distinct, FS_Subset, FS_CardinalityType
<1>2. S # {} => n > 0
  BY <1>1, FS_EmptySet
<1>3. \E f \in [1..n -> S] : IsInjective(f)
  BY <1>1 DEF ExistsBijection, Bijection, Injection, IsInjective
<1> DEFINE s == SetToSeq(S)
<1>4. s \in [1..n -> S] /\ IsInjective(s)
  <2> HIDE DEF n
  <2>1. s = CHOOSE f \in [1..n -> S] : IsInjective(f)
    BY DEF SetToSeq, n
  <2> HIDE DEF s
  <2> QED  BY <1>3, <2>1
<1> HIDE DEF s, n
<1>5. s \in Surjection(1..n, S)
  <2>1. s \in Injection(1..n, S)
    BY <1>4 DEF Injection, IsInjective
  <2>2. 1 \in Int /\ n \in Int  BY <1>1
  <2>3. Cardinality(1..n) = n
    <3>1. Cardinality(1..n) = IF 1 > n THEN 0 ELSE n - 1 + 1  BY <2>2, FS_Interval
    <3> QED  BY <1>1, <3>1
  <2>4. Cardinality(1..n) = Cardinality(S)  BY <2>3 DEF n
  <2> QED  BY <1>1, <2>1, <2>4, FS_Injection
<1>6. \A i, j \in 1..n : s[i] = s[j] => i = j
  BY <1>4 DEF IsInjective
<1>7. \A c : c \in S <=> \E i \in 1..n : s[i] = c
  BY <1>4, <1>5 DEF Surjection
<1>8. s \in [1..n -> Conns]
  BY <1>4
<1> QED  BY <1>1, <1>2, <1>6, <1>7, <1>8 DEF s, n

LEMMA HoldsLink ==
  ASSUME NEW M, NEW H, NEW seg, Holds(M, H, seg), NEW h \in H, seg[h] = <<>>,
         NEW S \in SUBSET Conns, \A c \in S : ~Listed(seg, c)
  PROVE  \E new :
           /\ Holds(Linked(M, h, SetToSeq(S)), H, new)
           /\ Len(new[h]) = Cardinality(S)
           /\ \A g \in Heads : g # h => new[g] = seg[g]
           /\ \A c : Listed(new, c) <=> Listed(seg, c) \/ c \in S
<1> DEFINE n == Cardinality(S)
           s == SetToSeq(S)
<1>1. /\ n \in Nat /\ s \in [1..n -> Conns]
      /\ \A i, j \in 1..n : s[i] = s[j] => i = j
      /\ \A c : c \in S <=> \E i \in 1..n : s[i] = c
  BY SeqOfSet
<1>2. M \in Memory /\ h \in Heads /\ h \in Nodes /\ seg \in Chains
  BY Distinct DEF Holds
<1>3. PICK acc : LinkedBy(acc, M, h, n, s)
  <2> HIDE DEF n, s
  <2> QED  BY <1>1, <1>2, LinkFold
<1>k. /\ acc[0] = M /\ Linked(M, h, s) = acc[n]
      /\ \A k \in 1..n : acc[k] = AddToTail(acc[k - 1], h, s[k])
  <2> HIDE DEF n, s
  <2> QED  BY <1>3 DEF LinkedBy
<1> HIDE DEF n, s
<1> DEFINE Upto(k, e) ==
             /\ Holds(acc[k], H, e) /\ Len(e[h]) = k
             /\ \A g \in Heads : g # h => e[g] = seg[g]
             /\ \A c : Listed(e, c) <=> Listed(seg, c) \/ \E i \in 1..k : s[i] = c
           T == {k \in 0..n : \E e : Upto(k, e)}
<1>4. 0 \in T
  <2>1. Upto(0, seg)  BY <1>k
  <2> HIDE DEF Upto
  <2> QED  BY <1>1, <2>1
<1>5. ASSUME NEW k \in 1..n, k - 1 \in T  PROVE k \in T
  <2>1. PICK e : Upto(k - 1, e)  BY <1>5
  <2> DEFINE x == s[k]
             d == [e EXCEPT ![h] = Append(e[h], x)]
  <2>2. /\ Holds(acc[k - 1], H, e) /\ Len(e[h]) = k - 1
        /\ \A g \in Heads : g # h => e[g] = seg[g]
        /\ \A c : Listed(e, c) <=> Listed(seg, c) \/ \E i \in 1..(k - 1) : s[i] = c
    BY <2>1
  <2> HIDE DEF Upto
  <2>3. x \in Conns /\ x \in S  BY <1>1
  <2>4. ~Listed(e, x)
    <3>1. \A i \in 1..(k - 1) : i \in 1..n /\ i # k  BY <1>1
    <3> QED  BY <1>1, <2>2, <2>3, <3>1
  <2>5. /\ Holds(AddToTail(acc[k - 1], h, x), H, d)
        /\ \A c : Listed(d, c) <=> Listed(e, c) \/ c = x
    <3> DEFINE m == acc[k - 1]
    <3>1. Holds(m, H, e)  BY <2>2
    <3> HIDE DEF x, m, d
    <3>2. LET r == [e EXCEPT ![h] = Append(e[h], x)]
          IN /\ Holds(AddToTail(m, h, x), H, r)
             /\ \A c : Listed(r, c) <=> Listed(e, c) \/ c = x
      <4>1. x \in Conns  BY <2>3
      <4>2. ~Listed(e, x)  BY <2>4
      <4>3. h \in H  OBVIOUS
      <4>4. Holds(AddToTail(m, h, x), H, [e EXCEPT ![h] = Append(e[h], x)])
        BY <3>1, <4>1, <4>2, <4>3, HoldsAppend
      <4>5. \A c : Listed([e EXCEPT ![h] = Append(e[h], x)], c) <=> Listed(e, c) \/ c = x
        BY <3>1, <4>1, <4>2, <4>3, HoldsAppend
      <4> QED  BY <4>4, <4>5
    <3> QED  BY <3>2 DEF d, m
  <2>6. Holds(acc[k], H, d)
    <3> HIDE DEF d
    <3> QED  BY <1>k, <2>5
  <2>7. e \in Chains  BY <2>2 DEF Holds
  <2>8. Len(d[h]) = k /\ \A g \in Heads : g # h => d[g] = seg[g]
    <3>1. e[h] \in Seq(Conns)  BY <1>2, <2>7 DEF Chains
    <3>2. d[h] = Append(e[h], x)  BY <1>2, <2>7 DEF Chains
    <3>3. Len(d[h]) = Len(e[h]) + 1
      <4> HIDE DEF d, x
      <4> QED  BY <2>3, <3>1, <3>2
    <3>4. \A g \in Heads : g # h => d[g] = e[g]  BY <2>7 DEF Chains
    <3> HIDE DEF d, x
    <3> QED  BY <2>2, <3>3, <3>4
  <2>9. \A c : Listed(d, c) <=> Listed(seg, c) \/ \E i \in 1..k : s[i] = c
    <3>1. \A i : i \in 1..k <=> i \in 1..(k - 1) \/ i = k  OBVIOUS
    <3> HIDE DEF d
    <3> QED  BY <2>2, <2>5, <3>1
  <2> HIDE DEF d
  <2>10. Upto(k, d)  BY <2>6, <2>8, <2>9 DEF Upto
  <2> QED  BY <2>10
<1>6. n \in T
  <2> HIDE DEF T
  <2>1. \A k \in 1..n : k - 1 \in T => k \in T  BY <1>5
  <2>2. n \in Nat /\ n \in 0..n  BY <1>1
  <2> QED  BY <1>4, <2>1, <2>2, Induct
<1>7. PICK e : Upto(n, e)
  <2> HIDE DEF Upto
  <2> QED  BY <1>6
<1>8. /\ Holds(acc[n], H, e) /\ Len(e[h]) = n
      /\ \A g \in Heads : g # h => e[g] = seg[g]
      /\ \A c : Listed(e, c) <=> Listed(seg, c) \/ \E i \in 1..n : s[i] = c
  BY <1>7
<1> HIDE DEF Upto
<1>9. Holds(Linked(M, h, s), H, e) /\ Len(e[h]) = Cardinality(S)
  BY <1>k, <1>8 DEF n
<1>10. \A c : Listed(e, c) <=> Listed(seg, c) \/ c \in S
  BY <1>1, <1>8
<1> QED  BY <1>8, <1>9, <1>10 DEF s

\* The fold of Poll, whatever the memory.
LEMMA LinkMemory ==
  ASSUME NEW M \in Memory, NEW h \in Nodes, NEW S \in SUBSET Conns
  PROVE  Linked(M, h, SetToSeq(S)) \in Memory
<1> DEFINE n == Cardinality(S)
           s == SetToSeq(S)
<1>1. n \in Nat /\ s \in [1..n -> Conns]
  BY SeqOfSet
<1> HIDE DEF n, s
<1>2. PICK acc : LinkedBy(acc, M, h, n, s)
  BY <1>1, LinkFold
<1>3. acc[n] \in Memory /\ Linked(M, h, s) = acc[n]
  BY <1>1, <1>2 DEF LinkedBy
<1> QED  BY <1>3 DEF s

-----------------------------------------------------------------------------
\* list_move and list_move_tail, whatever the memory.
LEMMA MoveMemory ==
  ASSUME NEW M \in Memory, NEW h \in Nodes, NEW g \in Nodes
  PROVE  MoveToTail(M, h, g) \in Memory /\ MoveToHead(M, h, g) \in Memory
<1>1. ASSUME NEW p \in Nodes \cup {NULL}, NEW q \in Nodes \cup {NULL}
      PROVE  Move(M, p, q, g) \in Memory
  <2> DEFINE first == M.next[g]
             last == M.prev[g]
  <2>1. first \in Nodes \cup {NULL} /\ last \in Nodes \cup {NULL}
    BY DEF Memory
  <2> HIDE DEF first, last
  <2>2. AddRange(M, first, last, p, q) \in Memory
    <3>1. first \in Nodes \cup {NULL}  BY <2>1
    <3>2. last \in Nodes \cup {NULL}  BY <2>1
    <3> QED  BY <3>1, <3>2 DEF AddRange, Memory
  <2>3. InitHead(AddRange(M, first, last, p, q), g) \in Memory
    BY <2>2, InitHeadMemory
  <2> QED  BY <2>3 DEF Move, first, last
<1>2. M.prev[h] \in Nodes \cup {NULL} /\ M.next[h] \in Nodes \cup {NULL}
  BY DEF Memory
<1>3. Move(M, M.prev[h], h, g) \in Memory
  BY <1>1, <1>2
<1>4. Move(M, h, M.next[h], g) \in Memory
  BY <1>1, <1>2
<1> QED  BY <1>3, <1>4 DEF MoveToTail, MoveToHead

(***************************************************************************)
(* The operations on the lists once more, by what they leave in each list. *)
(***************************************************************************)
LEMMA Appended ==
  ASSUME NEW M, NEW H, NEW seg, Holds(M, H, seg), NEW h \in H,
         NEW x \in Conns, ~Listed(seg, x)
  PROVE  \E new : /\ Holds(AddToTail(M, h, x), H, new)
                  /\ Len(new[h]) = Len(seg[h]) + 1
                  /\ \A g \in Heads : g # h => new[g] = seg[g]
                  /\ \A c : Listed(new, c) <=> Listed(seg, c) \/ c = x
<1> DEFINE new == [seg EXCEPT ![h] = Append(seg[h], x)]
<1>1. /\ Holds(AddToTail(M, h, x), H, new)
      /\ \A c : Listed(new, c) <=> Listed(seg, c) \/ c = x
  BY HoldsAppend
<1>2. seg \in Chains /\ h \in Heads
  BY DEF Holds
<1>3. seg[h] \in Seq(Conns)
  BY <1>2 DEF Chains
<1>4. new[h] = Append(seg[h], x) /\ \A g \in Heads : g # h => new[g] = seg[g]
  BY <1>2 DEF Chains
<1>5. Len(Append(seg[h], x)) = Len(seg[h]) + 1
  BY <1>3
<1> HIDE DEF new
<1> QED  BY <1>1, <1>4, <1>5

LEMMA Popped ==
  ASSUME NEW M, NEW H, NEW seg, Holds(M, H, seg), NEW h \in H, Len(seg[h]) > 0
  PROVE  LET x == M.next[h]
         IN /\ x \in Conns /\ Listed(seg, x)
            /\ \E new : /\ Holds(Del(M, x), H, new)
                        /\ Len(new[h]) = Len(seg[h]) - 1
                        /\ \A g \in Heads : g # h => new[g] = seg[g]
                        /\ \A c : Listed(new, c) <=> Listed(seg, c) /\ c # x
<1> DEFINE x == M.next[h]
           new == [seg EXCEPT ![h] = Tail(seg[h])]
<1>2. seg \in Chains /\ h \in Heads
  BY DEF Holds
<1>3. seg[h] \in Seq(Conns)
  BY <1>2 DEF Chains
<1>n. seg[h] # <<>>
  BY <1>3
<1>1. /\ Holds(Del(M, x), H, new) /\ x \in Conns /\ Listed(seg, x)
      /\ \A c : Listed(new, c) <=> Listed(seg, c) /\ c # x
  BY <1>n, HoldsPop
<1>4. new[h] = Tail(seg[h]) /\ \A g \in Heads : g # h => new[g] = seg[g]
  BY <1>2 DEF Chains
<1>5. Len(Tail(seg[h])) = Len(seg[h]) - 1
  BY <1>3, <1>n
<1> HIDE DEF new, x
<1>6. Len(new[h]) = Len(seg[h]) - 1
  BY <1>4, <1>5
<1>7. \E e : /\ Holds(Del(M, x), H, e)
             /\ Len(e[h]) = Len(seg[h]) - 1
             /\ \A g \in Heads : g # h => e[g] = seg[g]
             /\ \A c : Listed(e, c) <=> Listed(seg, c) /\ c # x
  BY <1>1, <1>4, <1>6
<1> QED  BY <1>1, <1>7 DEF x

MovedOver(seg, new, h, g) ==
  /\ Len(new[h]) = Len(seg[h]) + Len(seg[g]) /\ new[g] = <<>>
  /\ \A f \in Heads : f # h /\ f # g => new[f] = seg[f]
  /\ \A c : Listed(new, c) <=> Listed(seg, c)

LEMMA Moved ==
  ASSUME NEW M, NEW H, NEW seg, Holds(M, H, seg), NEW h \in H, NEW g \in H, h # g,
         Len(seg[g]) > 0
  PROVE  \E new : Holds(MoveToTail(M, h, g), H, new) /\ MovedOver(seg, new, h, g)
<1> DEFINE new == [seg EXCEPT ![h] = seg[h] \o seg[g], ![g] = <<>>]
<1>2. seg \in Chains /\ h \in Heads /\ g \in Heads
  BY DEF Holds
<1>3. seg[h] \in Seq(Conns) /\ seg[g] \in Seq(Conns)
  BY <1>2 DEF Chains
<1>n. seg[g] # <<>>
  BY <1>3
<1>1. /\ Holds(MoveToTail(M, h, g), H, new)
      /\ \A c : Listed(new, c) <=> Listed(seg, c)
  BY <1>n, HoldsMove
<1>4. /\ new[h] = seg[h] \o seg[g] /\ new[g] = <<>>
      /\ \A f \in Heads : f # h /\ f # g => new[f] = seg[f]
  BY <1>2 DEF Chains
<1>5. Len(seg[h] \o seg[g]) = Len(seg[h]) + Len(seg[g])
  BY <1>3
<1> HIDE DEF new
<1>6. Len(new[h]) = Len(seg[h]) + Len(seg[g])
  BY <1>4, <1>5
<1> QED  BY <1>1, <1>4, <1>6 DEF MovedOver

\* A list that is no longer used.
DroppedFrom(seg, new, h) ==
  /\ new[h] = <<>>
  /\ \A f \in Heads : f # h => new[f] = seg[f]
  /\ \A c : Listed(new, c) <=>
              Listed(seg, c) /\ ~(\E i \in 1..Len(seg[h]) : seg[h][i] = c)

LEMMA Dropped ==
  ASSUME NEW M, NEW H, NEW seg, Holds(M, H, seg), NEW h \in Heads
  PROVE  \E new : Holds(M, H \ {h}, new) /\ DroppedFrom(seg, new, h)
<1> DEFINE new == [seg EXCEPT ![h] = <<>>]
<1>1. /\ seg \in Chains /\ H \subseteq Heads /\ M \in Memory /\ Apart(seg)
      /\ \A g \in H : Ring(M, g, seg[g])
  BY DEF Holds
<1>2. <<>> \in Seq(Conns)
  OBVIOUS
<1>3. /\ new \in Chains /\ new[h] = <<>>
      /\ \A f \in Heads : f # h => new[f] = seg[f]
  BY <1>1, <1>2 DEF Chains
<1> HIDE DEF new
<1>4. Len(new[h]) = 0
  BY <1>3
<1>5. \A f \in Heads : \A i \in 1..Len(new[f]) : f # h
  BY <1>4
<1>6. Apart(new)
  BY <1>1, <1>3, <1>5 DEF Apart
<1>7. Holds(M, H \ {h}, new)
  BY <1>1, <1>3, <1>6 DEF Holds
<1>8. ASSUME NEW c
      PROVE  Listed(new, c) <=> Listed(seg, c) /\ ~(\E i \in 1..Len(seg[h]) : seg[h][i] = c)
  <2>1. ASSUME Listed(new, c)
        PROVE  Listed(seg, c) /\ ~(\E i \in 1..Len(seg[h]) : seg[h][i] = c)
    <3>1. PICK f \in Heads : \E i \in 1..Len(new[f]) : new[f][i] = c
      BY <2>1 DEF Listed
    <3>2. PICK i \in 1..Len(new[f]) : new[f][i] = c
      BY <3>1
    <3>3. f # h /\ i \in 1..Len(seg[f]) /\ seg[f][i] = c
      BY <1>3, <1>5, <3>2
    <3>4. \A j \in 1..Len(seg[h]) : seg[h][j] # c
      BY <1>1, <3>3 DEF Apart
    <3> QED  BY <3>3, <3>4 DEF Listed
  <2>2. ASSUME Listed(seg, c), ~(\E i \in 1..Len(seg[h]) : seg[h][i] = c)
        PROVE  Listed(new, c)
    <3>1. PICK f \in Heads : \E i \in 1..Len(seg[f]) : seg[f][i] = c
      BY <2>2 DEF Listed
    <3>2. f # h
      BY <2>2, <3>1
    <3> QED  BY <1>3, <3>1, <3>2 DEF Listed
  <2> QED  BY <2>1, <2>2
<1> QED  BY <1>3, <1>7, <1>8 DEF DroppedFrom

LEMMA HoldsLess ==
  ASSUME NEW M, NEW H, NEW seg, Holds(M, H, seg), NEW G \in SUBSET H
  PROVE  Holds(M, G, seg)
  BY DEF Holds

-----------------------------------------------------------------------------
(***************************************************************************)
(* The invariant.  A part of it holds whether a worker has handed over an  *)
(* empty list or not: who owns a mutex, and that nothing is lost in the    *)
(* counters.                                                               *)
(***************************************************************************)
PoolTypes ==
  /\ L \in Memory /\ activeItems \in Nat /\ readyItems \in Nat
  /\ activeLock \in Workers \cup {PollerHead, None}
  /\ readyLock \in {PollerHead, None}
  /\ enqueued \in [Conns -> BOOLEAN]
  /\ poller \in PollerAt /\ num_works \in 0..Cardinality(Conns)
  /\ worker \in [Workers -> WorkerAt]
  /\ item \in [Workers -> Conns \cup {None}]
  /\ ready_items \in [Workers -> 0..Cardinality(Conns)]

Marks == up \in BOOLEAN /\ spurious \in 0..MaxSpurious /\ clean \in BOOLEAN

\* A worker that tests active_queue owns its mutex until it sleeps or serves.
Owners ==
  /\ poller = "wake" <=> activeLock = PollerHead
  /\ poller = "test" <=> readyLock = PollerHead
  /\ \A w \in Workers : /\ worker[w] \in {"test", "deliver", "signal"} <=> activeLock = w
                        /\ worker[w] = "serve" <=> item[w] # None
                        /\ worker[w] = "start" => ready_items[w] = 0

\* The poller sleeps, or is about to.
Out == poller \in {"wake", "test", "wait", "woken"}

\* One token per connection a worker has: the one it serves, those it served
\* and has not handed over.  at: where the workers are; count: ready_items.
Tokens(at, count) ==
  {t \in Workers \X (0..Cardinality(Conns)) :
     IF t[2] = 0 THEN at[t[1]] = "serve"
     ELSE t[2] <= count[t[1]] /\ at[t[1]] # "signal"}

Counts ==
  /\ activeItems + Cardinality(Tokens(worker, ready_items)) + readyItems = IF Out THEN num_works ELSE 0
  /\ poller # "poll" => num_works > 0

Base == PoolTypes /\ Owners /\ Counts

\* The lists that are in use.
Live == IF poller \in {"give", "post"} THEN Heads ELSE Heads \ {PollerHead}

Served(c) == \E w \in Workers : item[w] = c

Placed(seg) ==
  /\ Holds(L, Live, seg)
  /\ poller = "give" => Len(seg[PollerHead]) = num_works
  /\ poller \notin {"give", "post"} => seg[PollerHead] = <<>>
  /\ Len(seg[ActiveHead]) = activeItems /\ Len(seg[ReadyHead]) = readyItems
  /\ \A w \in Workers : Len(seg[w]) = IF worker[w] = "signal" THEN 0 ELSE ready_items[w]
  /\ \A w, v \in Workers : item[w] # None /\ item[w] = item[v] => w = v
  /\ \A c \in Conns : /\ enqueued[c] <=> Listed(seg, c) \/ Served(c)
                      /\ ~(Listed(seg, c) /\ Served(c))

PoolInv ==
  /\ Base /\ Marks
  /\ clean => up /\ \E seg : Placed(seg)

-----------------------------------------------------------------------------
(***************************************************************************)
(* How each step of a worker changes its tokens.                           *)
(***************************************************************************)
LEMMA TokensAre ==
  ASSUME NEW at, NEW count
  PROVE  /\ \A w \in Workers, i \in 0..Cardinality(Conns) :
              <<w, i>> \in Tokens(at, count) <=>
                IF i = 0 THEN at[w] = "serve" ELSE i <= count[w] /\ at[w] # "signal"
         /\ \A t \in Tokens(at, count) :
              \E w \in Workers, i \in 0..Cardinality(Conns) : t = <<w, i>>
         /\ IsFiniteSet(Tokens(at, count)) /\ Cardinality(Tokens(at, count)) \in Nat
<1> DEFINE C == Cardinality(Conns)
           P == Workers \X (0..C)
<1>1. /\ \A w \in Workers, i \in 0..C :
           <<w, i>> \in Tokens(at, count) <=>
             IF i = 0 THEN at[w] = "serve" ELSE i <= count[w] /\ at[w] # "signal"
      /\ \A t \in Tokens(at, count) : \E w \in Workers, i \in 0..C : t = <<w, i>>
  <2> HIDE DEF C
  <2> QED  BY DEF Tokens, C
<1>2. IsFiniteSet(P)
  <2>1. IsFiniteSet(Workers) /\ C \in Int /\ 0 \in Int  BY Distinct
  <2> HIDE DEF C
  <2>2. IsFiniteSet(0..C)  BY <2>1, FS_Interval
  <2> QED  BY <2>1, <2>2, FS_Product
<1>3. Tokens(at, count) \in SUBSET P
  BY DEF Tokens
<1>4. IsFiniteSet(Tokens(at, count)) /\ Cardinality(Tokens(at, count)) \in Nat
  <2> HIDE DEF P
  <2> QED  BY <1>2, <1>3, FS_Subset, FS_CardinalityType
<1> QED  BY <1>1, <1>4

LEMMA TokensSame ==
  ASSUME NEW at, NEW count, NEW at2, NEW count2,
         \A w \in Workers :
           /\ at2[w] = "serve" <=> at[w] = "serve"
           /\ \A i \in 1..Cardinality(Conns) :
                i <= count2[w] /\ at2[w] # "signal" <=> i <= count[w] /\ at[w] # "signal"
  PROVE  Tokens(at2, count2) = Tokens(at, count)
<1>1. \A i \in 0..Cardinality(Conns) : i # 0 => i \in 1..Cardinality(Conns)
  BY Distinct
<1>2. \A w \in Workers, i \in 0..Cardinality(Conns) :
        <<w, i>> \in Tokens(at2, count2) <=> <<w, i>> \in Tokens(at, count)
  <2> SUFFICES ASSUME NEW w \in Workers, NEW i \in 0..Cardinality(Conns)
               PROVE  <<w, i>> \in Tokens(at2, count2) <=> <<w, i>> \in Tokens(at, count)
    OBVIOUS
  <2>1. <<w, i>> \in Tokens(at2, count2) <=>
          IF i = 0 THEN at2[w] = "serve" ELSE i <= count2[w] /\ at2[w] # "signal"
    BY TokensAre
  <2>2. <<w, i>> \in Tokens(at, count) <=>
          IF i = 0 THEN at[w] = "serve" ELSE i <= count[w] /\ at[w] # "signal"
    BY TokensAre
  <2> QED  BY <1>1, <2>1, <2>2
<1>3. \A t : t \in Tokens(at2, count2) => t \in Tokens(at, count)
  BY <1>2, TokensAre
<1>4. \A t : t \in Tokens(at, count) => t \in Tokens(at2, count2)
  BY <1>2, TokensAre
<1> QED  BY <1>3, <1>4

LEMMA TokensKeep ==
  ASSUME NEW at \in [Workers -> WorkerAt], NEW count, NEW w \in Workers, NEW x,
         at[w] \notin {"serve", "signal"}, x \notin {"serve", "signal"}
  PROVE  Tokens([at EXCEPT ![w] = x], count) = Tokens(at, count)
<1> DEFINE at2 == [at EXCEPT ![w] = x]
<1>1. \A v \in Workers : /\ at2[v] = "serve" <=> at[v] = "serve"
                         /\ at2[v] = "signal" <=> at[v] = "signal"
  OBVIOUS
<1> HIDE DEF at2
<1>2. Tokens(at2, count) = Tokens(at, count)
  BY <1>1, TokensSame
<1> QED  BY <1>2 DEF at2

LEMMA TokensTake ==
  ASSUME NEW at \in [Workers -> WorkerAt], NEW count, NEW w \in Workers, at[w] = "test"
  PROVE  Cardinality(Tokens([at EXCEPT ![w] = "serve"], count))
           = Cardinality(Tokens(at, count)) + 1
<1> DEFINE at2 == [at EXCEPT ![w] = "serve"]
           A == Tokens(at, count)
           B == Tokens(at2, count)
<1>1. 0 \in 0..Cardinality(Conns)
  BY Distinct
<1>2. <<w, 0>> \notin A
  BY <1>1, TokensAre
<1>3. \A v \in Workers, i \in 0..Cardinality(Conns) :
        <<v, i>> \in B <=> <<v, i>> \in A \/ <<v, i>> = <<w, 0>>
  <2> SUFFICES ASSUME NEW v \in Workers, NEW i \in 0..Cardinality(Conns)
               PROVE  <<v, i>> \in B <=> <<v, i>> \in A \/ <<v, i>> = <<w, 0>>
    OBVIOUS
  <2>1. at2[w] = "serve" /\ \A u \in Workers : u # w => at2[u] = at[u]
    OBVIOUS
  <2> HIDE DEF at2
  <2>2. <<v, i>> \in B <=> IF i = 0 THEN at2[v] = "serve"
                           ELSE i <= count[v] /\ at2[v] # "signal"
    BY TokensAre
  <2>3. <<v, i>> \in A <=> IF i = 0 THEN at[v] = "serve"
                           ELSE i <= count[v] /\ at[v] # "signal"
    BY TokensAre
  <2> HIDE DEF A, B
  <2> QED  BY <2>1, <2>2, <2>3
<1>4. \A t : t \in B => t \in A \cup {<<w, 0>>}
  <2> HIDE DEF A
  <2> QED  BY <1>3, TokensAre
<1>5. \A t : t \in A \cup {<<w, 0>>} => t \in B
  <2> HIDE DEF B
  <2> QED  BY <1>1, <1>3, TokensAre
<1>6. B = A \cup {<<w, 0>>}
  <2> HIDE DEF A, B
  <2> QED  BY <1>4, <1>5
<1>7. IsFiniteSet(A)
  BY TokensAre
<1> HIDE DEF A
<1>8. Cardinality(A \cup {<<w, 0>>}) = Cardinality(A) + 1
  BY <1>2, <1>7, FS_AddElement
<1> HIDE DEF B
<1> QED  BY <1>6, <1>8 DEF A, B

LEMMA TokensServe ==
  ASSUME NEW at \in [Workers -> WorkerAt], NEW count \in [Workers -> 0..Cardinality(Conns)],
         NEW w \in Workers, at[w] = "serve"
  PROVE  /\ count[w] + 1 <= Cardinality(Tokens(at, count))
         /\ count[w] + 1 <= Cardinality(Conns) =>
              Cardinality(Tokens([at EXCEPT ![w] = "lock"], [count EXCEPT ![w] = @ + 1]))
                = Cardinality(Tokens(at, count))
<1> DEFINE C == Cardinality(Conns)
           A == Tokens(at, count)
           n == count[w]
<1>1. n \in 0..C /\ C \in Nat /\ n \in Nat
  BY Distinct
<1>2. IsFiniteSet(A) /\ Cardinality(A) \in Nat
  BY TokensAre
<1>3. n + 1 <= Cardinality(A)
  <2> DEFINE Own == {w} \X (0..n)
  <2>1. Own \in SUBSET A
    <3>1. ASSUME NEW i \in 0..n  PROVE <<w, i>> \in A
      <4>1. i \in 0..C  BY <1>1
      <4> QED  BY <1>1, <4>1, TokensAre
    <3> HIDE DEF A
    <3> QED  BY <3>1
  <2>2. IsFiniteSet({w}) /\ Cardinality({w}) = 1
    BY FS_Singleton
  <2>3. IsFiniteSet(0..n) /\ Cardinality(0..n) = n + 1
    <3>1. n \in Int /\ 0 \in Int /\ ~(0 > n) /\ n - 0 + 1 = n + 1  BY <1>1
    <3> HIDE DEF n
    <3> QED  BY <3>1, FS_Interval
  <2>4. Cardinality(Own) = 1 * (n + 1)
    <3> DEFINE S == {w}
               T == 0..n
    <3>1. IsFiniteSet(S) /\ Cardinality(S) = 1  BY <2>2
    <3>2. IsFiniteSet(T) /\ Cardinality(T) = n + 1  BY <2>3
    <3> HIDE DEF S, T, n
    <3>3. Cardinality(S \X T) = Cardinality(S) * Cardinality(T)
      BY <3>1, <3>2, FS_Product
    <3>4. Cardinality(S \X T) = 1 * (n + 1)  BY <3>1, <3>2, <3>3
    <3> QED  BY <3>4 DEF S, T
  <2> HIDE DEF Own, A
  <2>5. Cardinality(Own) <= Cardinality(A)
    BY <1>2, <2>1, FS_Subset
  <2>6. 1 * (n + 1) = n + 1  BY <1>1
  <2> QED  BY <2>4, <2>5, <2>6
<1>4. ASSUME n + 1 <= C
      PROVE  Cardinality(Tokens([at EXCEPT ![w] = "lock"], [count EXCEPT ![w] = @ + 1]))
               = Cardinality(A)
  <2> DEFINE at2 == [at EXCEPT ![w] = "lock"]
             count2 == [count EXCEPT ![w] = @ + 1]
             B == Tokens(at2, count2)
             D == A \ {<<w, 0>>}
  <2>1. /\ at2[w] = "lock" /\ count2[w] = n + 1
        /\ \A v \in Workers : v # w => at2[v] = at[v] /\ count2[v] = count[v]
    OBVIOUS
  <2>2. n + 1 \in 0..C /\ 0 \in 0..C /\ n + 1 # 0 /\ ~(n + 1 <= n)
    BY <1>1, <1>4
  <2>3. <<w, 0>> \in A /\ <<w, n + 1>> \notin A
    BY <2>2, TokensAre
  <2>4. \A v \in Workers, i \in 0..C :
          <<v, i>> \in B <=> <<v, i>> \in D \/ <<v, i>> = <<w, n + 1>>
    <3> SUFFICES ASSUME NEW v \in Workers, NEW i \in 0..C
                 PROVE  <<v, i>> \in B <=> <<v, i>> \in D \/ <<v, i>> = <<w, n + 1>>
      OBVIOUS
    <3> HIDE DEF at2, count2, n, C
    <3>1. <<v, i>> \in B <=> IF i = 0 THEN at2[v] = "serve"
                             ELSE i <= count2[v] /\ at2[v] # "signal"
      BY TokensAre DEF C
    <3>2. <<v, i>> \in A <=> IF i = 0 THEN at[v] = "serve"
                             ELSE i <= count[v] /\ at[v] # "signal"
      BY TokensAre DEF C
    <3> HIDE DEF A, B
    <3>3. CASE v # w  BY <2>1, <3>1, <3>2, <3>3
    <3>4. CASE v = w
      <4>1. count[w] = n  BY DEF n
      <4>2. i \in Nat /\ (i <= n + 1 <=> i <= n \/ i = n + 1)  BY <1>1
      <4> QED  BY <2>1, <2>2, <3>1, <3>2, <3>4, <4>1, <4>2
    <3> QED  BY <3>3, <3>4
  <2>5. \A t : t \in B => t \in D \cup {<<w, n + 1>>}
    <3> HIDE DEF D
    <3> QED  BY <2>4, TokensAre
  <2>6. \A t : t \in D \cup {<<w, n + 1>>} => t \in B
    <3> HIDE DEF B, n
    <3>1. \A t : t \in D => \E v \in Workers, i \in 0..C : t = <<v, i>>
      BY TokensAre
    <3> HIDE DEF D
    <3> QED  BY <2>2, <2>4, <3>1
  <2> HIDE DEF A, B, n
  <2>7. B = D \cup {<<w, n + 1>>}
    <3> HIDE DEF D
    <3> QED  BY <2>5, <2>6
  <2>8. IsFiniteSet(D) /\ Cardinality(D) = Cardinality(A) - 1
    BY <1>2, <2>3, FS_RemoveElement
  <2>9. <<w, n + 1>> \notin D
    BY <2>3
  <2> HIDE DEF D
  <2>10. Cardinality(D \cup {<<w, n + 1>>}) = Cardinality(D) + 1
    BY <2>8, <2>9, FS_AddElement
  <2>11. Cardinality(B) = Cardinality(A)
    BY <1>2, <2>7, <2>8, <2>10
  <2> QED  BY <2>11 DEF B
<1> QED  BY <1>3, <1>4

LEMMA TokensDeliver ==
  ASSUME NEW at \in [Workers -> WorkerAt], NEW count \in [Workers -> 0..Cardinality(Conns)],
         NEW w \in Workers, at[w] = "deliver"
  PROVE  Cardinality(Tokens(at, count))
           = Cardinality(Tokens([at EXCEPT ![w] = "signal"], count)) + count[w]
<1> DEFINE C == Cardinality(Conns)
           at2 == [at EXCEPT ![w] = "signal"]
           A == Tokens(at, count)
           B == Tokens(at2, count)
           n == count[w]
           Own == {w} \X (1..n)
<1>1. n \in 0..C /\ C \in Nat /\ n \in Nat
  BY Distinct
<1>2. IsFiniteSet(B) /\ Cardinality(B) \in Nat
  BY TokensAre
<1>3. \A v \in Workers, i \in 0..C : <<v, i>> \in A <=> <<v, i>> \in B \/ <<v, i>> \in Own
  <2> SUFFICES ASSUME NEW v \in Workers, NEW i \in 0..C
               PROVE  <<v, i>> \in A <=> <<v, i>> \in B \/ <<v, i>> \in Own
    OBVIOUS
  <2>1. at2[w] = "signal" /\ \A u \in Workers : u # w => at2[u] = at[u]
    OBVIOUS
  <2> HIDE DEF at2, C
  <2>2. <<v, i>> \in B <=> IF i = 0 THEN at2[v] = "serve"
                           ELSE i <= count[v] /\ at2[v] # "signal"
    BY TokensAre DEF C
  <2>3. <<v, i>> \in A <=> IF i = 0 THEN at[v] = "serve"
                           ELSE i <= count[v] /\ at[v] # "signal"
    BY TokensAre DEF C
  <2>4. <<v, i>> \in Own <=> v = w /\ i # 0 /\ i <= n
    BY <1>1
  <2> HIDE DEF A, B, Own
  <2> QED  BY <2>1, <2>2, <2>3, <2>4
<1>4. \A t \in Own : \E v \in Workers, i \in 0..C : t = <<v, i>>
  BY <1>1
<1>5. \A t : t \in A => t \in B \cup Own
  <2> HIDE DEF B, Own
  <2> QED  BY <1>3, TokensAre
<1>6. \A t : t \in B \cup Own => t \in A
  <2>1. \A t : t \in B => \E v \in Workers, i \in 0..C : t = <<v, i>>
    BY TokensAre
  <2> HIDE DEF A, B, Own
  <2> QED  BY <1>3, <1>4, <2>1
<1>7. B \cap Own = {}
  <2> SUFFICES ASSUME NEW t \in Own, t \in B  PROVE FALSE
    OBVIOUS
  <2>1. PICK i \in 1..n : t = <<w, i>>  OBVIOUS
  <2>2. i \in 0..C /\ i # 0  BY <1>1
  <2>3. at2[w] = "signal"  OBVIOUS
  <2> HIDE DEF at2
  <2> QED  BY <2>1, <2>2, <2>3, TokensAre
<1>8. IsFiniteSet(Own) /\ Cardinality(Own) = n
  <2>1. IsFiniteSet({w}) /\ Cardinality({w}) = 1
    BY FS_Singleton
  <2>2. IsFiniteSet(1..n) /\ Cardinality(1..n) = n
    <3>1. n \in Int /\ 1 \in Int /\ (1 > n => n = 0) /\ n - 1 + 1 = n  BY <1>1
    <3> HIDE DEF n
    <3> QED  BY <3>1, FS_Interval
  <2>3. IsFiniteSet(Own) /\ Cardinality(Own) = 1 * n
    <3> DEFINE S == {w}
               T == 1..n
    <3>1. IsFiniteSet(S) /\ Cardinality(S) = 1  BY <2>1
    <3>2. IsFiniteSet(T) /\ Cardinality(T) = n  BY <2>2
    <3> HIDE DEF S, T, n
    <3>3. IsFiniteSet(S \X T) /\ Cardinality(S \X T) = Cardinality(S) * Cardinality(T)
      BY <3>1, <3>2, FS_Product
    <3>4. IsFiniteSet(S \X T) /\ Cardinality(S \X T) = 1 * n  BY <3>1, <3>2, <3>3
    <3> QED  BY <3>4 DEF S, T
  <2> HIDE DEF Own
  <2> QED  BY <1>1, <2>3
<1> HIDE DEF A, B, Own, n
<1>9. A = B \cup Own
  BY <1>5, <1>6
<1>10. Cardinality(B \cup Own) = Cardinality(B) + Cardinality(Own) - Cardinality({})
  BY <1>2, <1>7, <1>8, FS_Union
<1>11. Cardinality({}) = 0
  BY FS_EmptySet
<1>12. Cardinality(A) = Cardinality(B) + n
  BY <1>1, <1>2, <1>8, <1>9, <1>10, <1>11
<1> QED  BY <1>12 DEF A, B, n

-----------------------------------------------------------------------------
(***************************************************************************)
(* Types, owners of mutexes and counters: they hold whatever the lists are.*)
(***************************************************************************)
LEMMA KeepBase ==
  ASSUME Base, UNCHANGED <<lists, locks, pollerVars, workerVars>>
  PROVE  Base'
  BY DEF Base, PoolTypes, Owners, Counts, Out, Tokens, lists, locks, pollerVars, workerVars

\* What the counters say, as numbers.
LEMMA CountsAre ==
  ASSUME Base
  PROVE  /\ activeItems \in Nat /\ readyItems \in Nat /\ num_works \in Nat
         /\ Cardinality(Tokens(worker, ready_items)) \in Nat
         /\ num_works <= Cardinality(Conns) /\ Cardinality(Conns) \in Nat
         /\ Out => activeItems + Cardinality(Tokens(worker, ready_items)) + readyItems = num_works
         /\ ~Out => /\ activeItems = 0 /\ readyItems = 0
                    /\ Cardinality(Tokens(worker, ready_items)) = 0
<1>1. /\ activeItems \in Nat /\ readyItems \in Nat /\ num_works \in Nat
      /\ num_works <= Cardinality(Conns) /\ Cardinality(Conns) \in Nat
  BY Distinct DEF Base, PoolTypes
<1> DEFINE k == Cardinality(Tokens(worker, ready_items))
<1>2. k \in Nat
  BY TokensAre
<1>3. activeItems + k + readyItems = IF Out THEN num_works ELSE 0
  BY DEF Base, Counts
<1> HIDE DEF k
<1>4. ~Out => activeItems = 0 /\ readyItems = 0 /\ k = 0
  BY <1>1, <1>2, <1>3
<1>5. Out => activeItems + k + readyItems = num_works
  BY <1>3
<1> QED  BY <1>1, <1>2, <1>4, <1>5 DEF k

LEMMA PollBase ==
  ASSUME Base, NEW S \in SUBSET {c \in Conns : ~enqueued[c]}, S # {}, Poll(S)
  PROVE  Base'
<1>1. S \in SUBSET Conns
  OBVIOUS
<1>2. L' \in Memory
  <2>1. L \in Memory /\ PollerHead \in Nodes
    BY Distinct DEF Base, PoolTypes
  <2>2. InitHead(L, PollerHead) \in Memory
    BY <2>1, InitHeadMemory
  <2>3. L' = Linked(InitHead(L, PollerHead), PollerHead, SetToSeq(S))
    BY DEF Poll, Linked
  <2>4. Linked(InitHead(L, PollerHead), PollerHead, SetToSeq(S)) \in Memory
    BY <1>1, <2>1, <2>2, LinkMemory
  <2> QED  BY <2>3, <2>4
<1>3. Cardinality(S) \in Nat /\ Cardinality(S) <= Cardinality(Conns) /\ Cardinality(S) > 0
  BY <1>1, SeqOfSet
<1>4. num_works' = Cardinality(S) /\ poller = "poll" /\ poller' = "give"
  BY DEF Poll
<1>5. PoolTypes'
  <2>1. num_works' \in 0..Cardinality(Conns)  BY <1>3, <1>4
  <2>2. enqueued' \in [Conns -> BOOLEAN]  BY DEF Poll, Base, PoolTypes
  <2> QED  BY <1>2, <1>4, <2>1, <2>2 DEF Poll, Base, PoolTypes, PollerAt, locks, workerVars
<1>6. Owners'
  BY <1>4 DEF Poll, Base, Owners, locks, workerVars
<1>7. Counts'
  <2>1. ~Out /\ ~Out'  BY <1>4 DEF Out
  <2>2. UNCHANGED <<activeItems, readyItems, worker, ready_items>>
    BY DEF Poll, workerVars
  <2>3. Tokens(worker, ready_items)' = Tokens(worker, ready_items)
    BY <2>2 DEF Tokens
  <2>4. num_works' > 0  BY <1>3, <1>4
  <2> QED  BY <1>4, <2>1, <2>2, <2>3, <2>4 DEF Base, Counts
<1> QED  BY <1>5, <1>6, <1>7 DEF Base

LEMMA GiveBase ==
  ASSUME Base, Give
  PROVE  Base'
<1>1. MoveToTail(L, ActiveHead, PollerHead) \in Memory
  BY MoveMemory, Distinct DEF Base, PoolTypes
<1>2. PoolTypes'
  BY <1>1 DEF Give, Base, PoolTypes, PollerAt, workerVars
<1>3. Owners'
  BY Distinct DEF Give, Base, PoolTypes, Owners, workerVars
<1>4. Counts'
  <2>1. ~Out /\ Out' /\ poller # "poll" /\ poller' # "poll"  BY DEF Out, Give
  <2>2. /\ UNCHANGED <<readyItems, worker, ready_items, num_works>>
        /\ activeItems' = activeItems + num_works
    BY DEF Give, workerVars
  <2>3. Tokens(worker, ready_items)' = Tokens(worker, ready_items)
    BY <2>2 DEF Tokens
  <2>4. num_works > 0  BY <2>1 DEF Base, Counts
  <2> DEFINE k == Cardinality(Tokens(worker, ready_items))
  <2>5. activeItems = 0 /\ readyItems = 0 /\ k = 0 /\ num_works \in Nat
    BY <2>1, CountsAre
  <2>6. k' = k  BY <2>3
  <2> HIDE DEF k
  <2>7. activeItems' + k' + readyItems' = num_works'
    BY <2>2, <2>5, <2>6
  <2> QED  BY <2>1, <2>2, <2>4, <2>7 DEF Counts, k
<1> QED  BY <1>2, <1>3, <1>4 DEF Base

LEMMA WakeWorkerBase ==
  ASSUME Base, WakeWorker
  PROVE  Base'
<1>1. \A w \in Workers : \/ worker'[w] = worker[w]
                         \/ worker[w] = "wait" /\ worker'[w] = "woken"
  <2>1. CASE Sleeping = {}
    <3>1. worker' = worker  BY <2>1 DEF WakeWorker, SignalActive
    <3> QED  BY <3>1
  <2>2. CASE Sleeping # {}
    <3>1. PICK v \in Sleeping : worker' = [worker EXCEPT ![v] = "woken"]
      BY <2>2 DEF WakeWorker, SignalActive
    <3>2. worker \in [Workers -> WorkerAt] /\ worker[v] = "wait" /\ v \in Workers
      BY DEF Base, PoolTypes, Sleeping
    <3>3. \A w \in Workers : worker'[w] = IF w = v THEN "woken" ELSE worker[w]
      BY <3>1, <3>2
    <3> QED  BY <3>2, <3>3
  <2> QED  BY <2>1, <2>2
<1>2. PoolTypes'
  <2>1. worker' \in [Workers -> WorkerAt]
    BY DEF WakeWorker, SignalActive, Sleeping, Base, PoolTypes, WorkerAt
  <2> QED  BY <2>1 DEF WakeWorker, Base, PoolTypes, PollerAt, lists
<1>3. Owners'
  <2>1. \A w \in Workers : /\ worker'[w] \in {"test", "deliver", "signal"}
                              <=> worker[w] \in {"test", "deliver", "signal"}
                           /\ worker'[w] = "serve" <=> worker[w] = "serve"
                           /\ worker'[w] = "start" <=> worker[w] = "start"
    BY <1>1
  <2> QED  BY <2>1, Distinct DEF WakeWorker, Base, PoolTypes, Owners
<1>4. Counts'
  <2>1. Out /\ Out' /\ poller # "poll" /\ poller' # "poll"  BY DEF Out, WakeWorker
  <2>2. UNCHANGED <<activeItems, readyItems, ready_items, num_works>>
    BY DEF WakeWorker, lists
  <2>3. Tokens(worker', ready_items') = Tokens(worker, ready_items)
    <3>1. \A w \in Workers : /\ worker'[w] = "serve" <=> worker[w] = "serve"
                             /\ worker'[w] = "signal" <=> worker[w] = "signal"
      BY <1>1
    <3> QED  BY <2>2, <3>1, TokensSame
  <2> QED  BY <2>1, <2>2, <2>3 DEF Base, Counts
<1> QED  BY <1>2, <1>3, <1>4 DEF Base

\* The steps by which the poller waits.
LEMMA WaitBase ==
  ASSUME Base, AwaitReady \/ PollerWakes
  PROVE  Base'
<1>1. UNCHANGED <<lists, activeLock, num_works, enqueued, workerVars>> /\ Out /\ Out'
      /\ poller # "poll" /\ poller' # "poll"
  BY DEF AwaitReady, PollerWakes, Out
<1>2. PoolTypes'
  BY <1>1 DEF AwaitReady, PollerWakes, Base, PoolTypes, PollerAt, lists, workerVars
<1>3. Owners'
  BY <1>1, Distinct DEF AwaitReady, PollerWakes, Base, Owners, PoolTypes, workerVars
<1>4. Counts'
  BY <1>1 DEF Base, Counts, lists, workerVars, Tokens
<1> QED  BY <1>2, <1>3, <1>4 DEF Base

LEMMA TakeReadyBase ==
  ASSUME Base, TakeReady
  PROVE  Base'
<1>1. MoveToHead(InitHead(L, PollerHead), PollerHead, ReadyHead) \in Memory
  BY MoveMemory, InitHeadMemory, Distinct DEF Base, PoolTypes
<1>2. PoolTypes'
  BY <1>1 DEF TakeReady, Base, PoolTypes, PollerAt, workerVars
<1>3. Owners'
  BY Distinct DEF TakeReady, Base, PoolTypes, Owners, workerVars
<1>4. Counts'
  <2>1. Out /\ ~Out' /\ poller # "poll" /\ poller' # "poll"  BY DEF Out, TakeReady
  <2>2. /\ UNCHANGED <<activeItems, worker, ready_items, num_works>>
        /\ readyItems' = 0 /\ readyItems = num_works
    BY DEF TakeReady, workerVars, AllBack
  <2>3. Tokens(worker, ready_items)' = Tokens(worker, ready_items)
    BY <2>2 DEF Tokens
  <2>4. num_works > 0  BY <2>1 DEF Base, Counts
  <2> DEFINE k == Cardinality(Tokens(worker, ready_items))
  <2>5. activeItems + k + readyItems = num_works /\ num_works \in Nat
        /\ activeItems \in Nat /\ k \in Nat
    BY <2>1, CountsAre
  <2>6. k' = k  BY <2>3
  <2> HIDE DEF k
  <2>7. activeItems' + k' + readyItems' = 0
    BY <2>2, <2>5, <2>6
  <2> QED  BY <2>1, <2>2, <2>4, <2>7 DEF Counts, k
<1> QED  BY <1>2, <1>3, <1>4 DEF Base

LEMMA PostBase ==
  ASSUME Base, Post
  PROVE  Base'
<1>1. PoolTypes'
  BY DEF Post, Base, PoolTypes, PollerAt, lists, locks, workerVars
<1>2. Owners'
  BY DEF Post, Base, Owners, locks, workerVars
<1>3. Counts'
  <2>1. ~Out /\ ~Out' /\ poller' = "poll"  BY DEF Out, Post
  <2> QED  BY <2>1 DEF Post, Base, Counts, lists, workerVars, Tokens
<1> QED  BY <1>1, <1>2, <1>3 DEF Base

LEMMA EnterBase ==
  ASSUME Base, NEW w \in Workers, Enter(w)
  PROVE  Base'
<1>1. InitHead(L, w) \in Memory
  BY InitHeadMemory, Distinct DEF Base, PoolTypes
<1>2. PoolTypes'
  BY <1>1 DEF Enter, Base, PoolTypes, WorkerAt, locks, pollerVars
<1>3. Owners'
  BY Distinct DEF Enter, Base, PoolTypes, Owners, locks, pollerVars
<1>4. Counts'
  <2>1. /\ UNCHANGED <<activeItems, readyItems, ready_items, num_works, poller>>
        /\ worker' = [worker EXCEPT ![w] = "wait"] /\ worker[w] = "start"
        /\ worker \in [Workers -> WorkerAt]
    BY DEF Enter, pollerVars, Base, PoolTypes
  <2>2. Tokens(worker', ready_items') = Tokens(worker, ready_items)
    BY <2>1, TokensKeep
  <2> QED  BY <2>1, <2>2 DEF Base, Counts, Out
<1> QED  BY <1>2, <1>3, <1>4 DEF Base

LEMMA LockBase ==
  ASSUME Base, NEW w \in Workers, Lock(w)
  PROVE  Base'
<1>1. PoolTypes'
  BY DEF Lock, Base, PoolTypes, WorkerAt, lists, pollerVars
<1>2. Owners'
  BY Distinct DEF Lock, Base, PoolTypes, Owners, pollerVars
<1>3. Counts'
  <2>1. /\ UNCHANGED <<activeItems, readyItems, ready_items, num_works, poller>>
        /\ worker' = [worker EXCEPT ![w] = "test"] /\ worker[w] \in {"woken", "lock"}
        /\ worker \in [Workers -> WorkerAt]
    BY DEF Lock, lists, pollerVars, Base, PoolTypes
  <2>2. Tokens(worker', ready_items') = Tokens(worker, ready_items)
    BY <2>1, TokensKeep
  <2> QED  BY <2>1, <2>2 DEF Base, Counts, Out
<1> QED  BY <1>1, <1>2, <1>3 DEF Base

LEMMA TakeBase ==
  ASSUME Base, NEW w \in Workers, Take(w)
  PROVE  Base'
<1>1. Del(L, L.next[ActiveHead]) \in Memory /\ L.next[ActiveHead] \in Conns
  <2>1. L.next[ActiveHead] \in Conns  BY DEF Take
  <2> QED  BY <2>1, DelMemory, Distinct DEF Base, PoolTypes
<1>2. PoolTypes'
  BY <1>1 DEF Take, Base, PoolTypes, WorkerAt, pollerVars
<1>3. Owners'
  BY <1>1, Distinct DEF Take, Base, PoolTypes, Owners, pollerVars
<1>4. Counts'
  <2>1. /\ UNCHANGED <<readyItems, ready_items, num_works, poller>>
        /\ activeItems > 0 /\ activeItems' = activeItems - 1
        /\ worker' = [worker EXCEPT ![w] = "serve"] /\ worker[w] = "test"
        /\ worker \in [Workers -> WorkerAt]
    BY DEF Take, pollerVars, Base, PoolTypes
  <2> DEFINE k == Cardinality(Tokens(worker, ready_items))
             l == Cardinality(Tokens(worker', ready_items'))
  <2>2. l = k + 1
    BY <2>1, TokensTake
  <2>3. activeItems \in Nat /\ k \in Nat /\ readyItems \in Nat
    BY CountsAre
  <2>4. activeItems + k + readyItems = IF Out THEN num_works ELSE 0
    BY DEF Base, Counts
  <2>5. Out' <=> Out  BY <2>1 DEF Out
  <2> HIDE DEF k, l
  <2>6. activeItems' + l + readyItems' = IF Out' THEN num_works' ELSE 0
    BY <2>1, <2>2, <2>3, <2>4, <2>5
  <2>7. poller' # "poll" => num_works' > 0
    BY <2>1 DEF Base, Counts
  <2> QED  BY <2>6, <2>7 DEF Counts, l
<1> QED  BY <1>2, <1>3, <1>4 DEF Base

LEMMA ServeBase ==
  ASSUME Base, NEW w \in Workers, Serve(w)
  PROVE  Base'
<1>1. /\ UNCHANGED <<activeItems, readyItems, num_works, poller>>
      /\ worker' = [worker EXCEPT ![w] = "lock"] /\ worker[w] = "serve"
      /\ worker \in [Workers -> WorkerAt]
      /\ ready_items \in [Workers -> 0..Cardinality(Conns)]
      /\ ready_items' = [ready_items EXCEPT ![w] = @ + 1]
  BY DEF Serve, pollerVars, Base, PoolTypes
<1> DEFINE k == Cardinality(Tokens(worker, ready_items))
           C == Cardinality(Conns)
<1>2. ready_items[w] + 1 <= k
  BY <1>1, TokensServe
<1>3. ready_items[w] + 1 <= C
  <2>1. /\ activeItems \in Nat /\ readyItems \in Nat /\ num_works \in Nat /\ k \in Nat
        /\ num_works <= C /\ C \in Nat /\ ready_items[w] \in Nat
        /\ Out => activeItems + k + readyItems = num_works
        /\ ~Out => k = 0
    BY <1>1, CountsAre
  <2> HIDE DEF k, C
  <2>2. k <= C  BY <2>1
  <2> QED  BY <1>2, <2>1, <2>2
<1>4. AddToTail(L, w, item[w]) \in Memory
  <2>1. item[w] \in Nodes \cup {NULL}
    BY <1>1, Distinct DEF Base, PoolTypes, Owners
  <2> QED  BY <2>1, AddMemory, Distinct DEF Base, PoolTypes
<1>5. PoolTypes'
  <2>1. ready_items' \in [Workers -> 0..Cardinality(Conns)]
    <3>1. ready_items[w] + 1 \in 0..C
      <4>1. ready_items[w] \in 0..C /\ C \in Nat  BY <1>1, CountsAre
      <4> HIDE DEF C
      <4> QED  BY <1>3, <4>1
    <3> QED  BY <1>1, <3>1
  <2> QED  BY <1>4, <2>1 DEF Serve, Base, PoolTypes, WorkerAt, locks, pollerVars
<1>6. Owners'
  BY Distinct DEF Serve, Base, PoolTypes, Owners, locks, pollerVars
<1>7. Counts'
  <2>1. Cardinality(Tokens(worker', ready_items')) = Cardinality(Tokens(worker, ready_items))
    BY <1>1, <1>3, TokensServe
  <2> QED  BY <1>1, <2>1 DEF Base, Counts, Out
<1> QED  BY <1>5, <1>6, <1>7 DEF Base

LEMMA NoMoreBase ==
  ASSUME Base, NEW w \in Workers, NoMore(w)
  PROVE  Base'
<1>1. PoolTypes'
  BY DEF NoMore, Base, PoolTypes, WorkerAt, lists, locks, pollerVars
<1>2. Owners'
  BY Distinct DEF NoMore, Base, PoolTypes, Owners, locks, pollerVars
<1>3. Counts'
  <2>1. /\ UNCHANGED <<activeItems, readyItems, ready_items, num_works, poller>>
        /\ worker' = [worker EXCEPT ![w] = "deliver"] /\ worker[w] = "test"
        /\ worker \in [Workers -> WorkerAt]
    BY DEF NoMore, lists, pollerVars, Base, PoolTypes
  <2>2. Tokens(worker', ready_items') = Tokens(worker, ready_items)
    BY <2>1, TokensKeep
  <2> QED  BY <2>1, <2>2 DEF Base, Counts, Out
<1> QED  BY <1>1, <1>2, <1>3 DEF Base

LEMMA DeliverBase ==
  ASSUME Base, NEW w \in Workers, Deliver(w)
  PROVE  Base'
<1>1. MoveToTail(L, ReadyHead, w) \in Memory
  BY MoveMemory, Distinct DEF Base, PoolTypes
<1>2. PoolTypes'
  <2>1. readyItems' \in Nat
    BY Distinct DEF Deliver, Base, PoolTypes
  <2> QED  BY <1>1, <2>1 DEF Deliver, Base, PoolTypes, WorkerAt, locks, pollerVars
<1>3. Owners'
  BY Distinct DEF Deliver, Base, PoolTypes, Owners, locks, pollerVars
<1>4. Counts'
  <2>1. /\ UNCHANGED <<activeItems, ready_items, num_works, poller>>
        /\ readyItems' = readyItems + ready_items[w]
        /\ worker' = [worker EXCEPT ![w] = "signal"] /\ worker[w] = "deliver"
        /\ worker \in [Workers -> WorkerAt]
        /\ ready_items \in [Workers -> 0..Cardinality(Conns)]
    BY DEF Deliver, pollerVars, Base, PoolTypes
  <2> DEFINE k == Cardinality(Tokens(worker, ready_items))
             l == Cardinality(Tokens(worker', ready_items'))
             r == ready_items[w]
  <2>2. k = l + r
    BY <2>1, TokensDeliver
  <2>3. activeItems \in Nat /\ l \in Nat /\ readyItems \in Nat /\ r \in Nat
    BY <2>1, CountsAre, TokensAre, Distinct
  <2>4. activeItems + k + readyItems = IF Out THEN num_works ELSE 0
    BY DEF Base, Counts
  <2>5. Out' <=> Out  BY <2>1 DEF Out
  <2>6. readyItems' = readyItems + r  BY <2>1
  <2> HIDE DEF k, l, r
  <2>7. activeItems' + l + readyItems' = IF Out' THEN num_works' ELSE 0
    BY <2>1, <2>2, <2>3, <2>4, <2>5, <2>6
  <2>8. poller' # "poll" => num_works' > 0
    BY <2>1 DEF Base, Counts
  <2> QED  BY <2>7, <2>8 DEF Counts, l
<1> QED  BY <1>2, <1>3, <1>4 DEF Base

LEMMA SignalBase ==
  ASSUME Base, NEW w \in Workers, SignalAndWait(w)
  PROVE  Base'
<1>1. InitHead(L, w) \in Memory
  BY InitHeadMemory, Distinct DEF Base, PoolTypes
<1>2. PoolTypes'
  <2>1. 0 \in 0..Cardinality(Conns)  BY Distinct
  <2> QED  BY <1>1, <2>1 DEF SignalAndWait, SignalReady, Base, PoolTypes, WorkerAt, PollerAt
<1>3. Owners'
  BY Distinct DEF SignalAndWait, SignalReady, Base, PoolTypes, Owners
<1>4. Counts'
  <2>1. /\ UNCHANGED <<activeItems, readyItems, num_works>>
        /\ (Out' <=> Out) /\ (poller' = "poll" <=> poller = "poll")
        /\ worker' = [worker EXCEPT ![w] = "wait"] /\ worker[w] = "signal"
        /\ worker \in [Workers -> WorkerAt]
        /\ ready_items \in [Workers -> 0..Cardinality(Conns)]
        /\ ready_items' = [ready_items EXCEPT ![w] = 0]
    BY DEF SignalAndWait, SignalReady, Out, Base, PoolTypes
  <2>2. \A v \in Workers : /\ worker'[v] = IF v = w THEN "wait" ELSE worker[v]
                           /\ ready_items'[v] = IF v = w THEN 0 ELSE ready_items[v]
    BY <2>1
  <2>3. \A i \in 1..Cardinality(Conns) : ~(i <= 0)
    BY Distinct
  <2>4. Tokens(worker', ready_items') = Tokens(worker, ready_items)
    <3>1. \A v \in Workers :
            /\ worker'[v] = "serve" <=> worker[v] = "serve"
            /\ \A i \in 1..Cardinality(Conns) :
                 i <= ready_items'[v] /\ worker'[v] # "signal"
                   <=> i <= ready_items[v] /\ worker[v] # "signal"
      BY <2>1, <2>2, <2>3
    <3> QED  BY <3>1, TokensSame
  <2> QED  BY <2>1, <2>4 DEF Base, Counts
<1> QED  BY <1>2, <1>3, <1>4 DEF Base

LEMMA UnaskedBase ==
  ASSUME Base, WakeUnasked
  PROVE  Base'
<1>1. /\ UNCHANGED <<lists, locks, num_works, enqueued, item, ready_items>>
      /\ poller' # poller => poller = "wait" /\ poller' = "woken"
  BY DEF WakeUnasked
<1>2. /\ worker' \in [Workers -> WorkerAt]
      /\ \A w \in Workers : \/ worker'[w] = worker[w]
                            \/ worker[w] = "wait" /\ worker'[w] = "woken"
  BY DEF WakeUnasked, Sleeping, Base, PoolTypes, WorkerAt
<1>3. PoolTypes'
  BY <1>1, <1>2 DEF Base, PoolTypes, PollerAt, lists, locks
<1>4. Owners'
  <2>1. \A w \in Workers : /\ worker'[w] \in {"test", "deliver", "signal"}
                              <=> worker[w] \in {"test", "deliver", "signal"}
                           /\ worker'[w] = "serve" <=> worker[w] = "serve"
                           /\ worker'[w] = "start" <=> worker[w] = "start"
    BY <1>2
  <2>2. /\ poller' = "wake" <=> poller = "wake"
        /\ poller' = "test" <=> poller = "test"
    BY <1>1
  <2> QED  BY <1>1, <2>1, <2>2 DEF Base, Owners, locks
<1>5. Counts'
  <2>1. (Out' <=> Out) /\ (poller' = "poll" <=> poller = "poll")
    BY <1>1 DEF Out
  <2>2. UNCHANGED <<activeItems, readyItems, ready_items, num_works>>
    BY <1>1 DEF lists
  <2>3. Tokens(worker', ready_items') = Tokens(worker, ready_items)
    <3>1. \A w \in Workers : /\ worker'[w] = "serve" <=> worker[w] = "serve"
                             /\ worker'[w] = "signal" <=> worker[w] = "signal"
      BY <1>2
    <3> QED  BY <2>2, <3>1, TokensSame
  <2> QED  BY <2>1, <2>2, <2>3 DEF Base, Counts
<1> QED  BY <1>3, <1>4, <1>5 DEF Base

LEMMA StepBase ==
  ASSUME Base, [Next]_vars
  PROVE  Base'
<1>1. ASSUME NEW S \in SUBSET {c \in Conns : ~enqueued[c]}, S # {}, Poll(S)  PROVE Base'
  BY <1>1, PollBase
<1>2. CASE GoOn
  BY <1>2, GiveBase, WakeWorkerBase, WaitBase, TakeReadyBase, PostBase DEF GoOn
<1>3. ASSUME NEW w \in Workers, Work(w)  PROVE Base'
  BY <1>3, EnterBase, LockBase, TakeBase, ServeBase, NoMoreBase, DeliverBase, SignalBase
     DEF Work
<1>4. CASE WakeUnasked
  BY <1>4, UnaskedBase
<1>5. CASE Derail
  BY <1>5, KeepBase DEF Derail
<1>6. CASE UNCHANGED vars
  BY <1>6, KeepBase DEF vars
<1>7. CASE \E S \in (SUBSET {c \in Conns : ~enqueued[c]}) \ {{}} : Poll(S)
  <2>1. PICK S \in SUBSET {c \in Conns : ~enqueued[c]} : S # {} /\ Poll(S)
    BY <1>7
  <2> QED  BY <1>1, <2>1
<1> QED  BY <1>2, <1>3, <1>4, <1>5, <1>6, <1>7 DEF Next

-----------------------------------------------------------------------------
(***************************************************************************)
(* What each step does with the connections in the lists.                  *)
(***************************************************************************)
LEMMA HeadsAre ==
  /\ ActiveHead \in Heads /\ ReadyHead \in Heads /\ PollerHead \in Heads
  /\ \A w \in Workers : /\ w \in Heads /\ w # ActiveHead /\ w # ReadyHead /\ w # PollerHead
                        /\ w # None
  /\ ActiveHead # ReadyHead /\ ActiveHead # PollerHead /\ ReadyHead # PollerHead
  /\ \A c \in Conns : c # None
  BY Distinct

\* The lists that are always in use.
LEMMA AlwaysLive ==
  /\ ActiveHead \in Live /\ ReadyHead \in Live /\ \A w \in Workers : w \in Live
  /\ Live \subseteq Heads /\ Live \cup {PollerHead} = Heads
  BY HeadsAre DEF Live

LEMMA ChainLens ==
  ASSUME NEW seg, Placed(seg), NEW h \in Heads
  PROVE  Len(seg[h]) \in Nat /\ (Len(seg[h]) = 0 => seg[h] = <<>>)
<1>1. seg \in Chains
  BY DEF Placed, Holds
<1>2. seg[h] \in Seq(Conns)
  BY <1>1 DEF Chains
<1> QED  BY <1>2

\* Steps that move no connection.
LEMMA PlacedKeeps ==
  ASSUME NEW seg, Placed(seg),
         UNCHANGED <<L, activeItems, readyItems, enqueued, num_works, item, ready_items>>,
         poller' # poller => {poller, poller'} \cap {"give", "post"} = {},
         \A w \in Workers : worker'[w] = "signal" <=> worker[w] = "signal"
  PROVE  Placed(seg)'
<1>1. Live' = Live
  BY DEF Live
<1>2. Holds(L', Live', seg)
  BY <1>1 DEF Placed
<1>3. /\ poller' = "give" => poller = "give"
      /\ poller' \notin {"give", "post"} => poller \notin {"give", "post"}
  OBVIOUS
<1> QED  BY <1>2, <1>3 DEF Placed, Served

LEMMA PollPlaced ==
  ASSUME Base, NEW seg, Placed(seg),
         NEW S \in SUBSET {c \in Conns : ~enqueued[c]}, S # {}, Poll(S)
  PROVE  \E new : Placed(new)'
<1> DEFINE M == InitHead(L, PollerHead)
<1>1. poller = "poll" /\ poller' = "give" /\ num_works' = Cardinality(S)
  BY DEF Poll
<1>2. seg[PollerHead] = <<>>
  BY <1>1 DEF Placed
<1>3. Holds(M, Heads, seg)
  <2>1. Holds(L, Live, seg)  BY DEF Placed
  <2>2. Holds(M, Live \cup {PollerHead}, seg)
    BY <1>2, <2>1, HoldsInit, HeadsAre
  <2> QED  BY <2>2, AlwaysLive
<1> HIDE DEF M
<1>4. \A c \in S : c \in Conns /\ ~enqueued[c] /\ ~Listed(seg, c) /\ ~Served(c)
  BY DEF Placed
<1>5. PICK new :
        /\ Holds(Linked(M, PollerHead, SetToSeq(S)), Heads, new)
        /\ Len(new[PollerHead]) = Cardinality(S)
        /\ \A g \in Heads : g # PollerHead => new[g] = seg[g]
        /\ \A c : Listed(new, c) <=> Listed(seg, c) \/ c \in S
  <2>1. S \in SUBSET Conns /\ \A c \in S : ~Listed(seg, c)  BY <1>4
  <2>2. PollerHead \in Heads  BY HeadsAre
  <2> QED  BY <1>2, <1>3, <2>1, <2>2, HoldsLink
<1>6. L' = Linked(M, PollerHead, SetToSeq(S))
  BY DEF Poll, Linked, M
<1>7. Holds(L', Live', new)
  BY <1>1, <1>5, <1>6 DEF Live
<1>8. /\ UNCHANGED <<activeItems, readyItems, worker, item, ready_items>>
      /\ \A c \in Conns : enqueued'[c] <=> enqueued[c] \/ c \in S
  BY DEF Poll, workerVars
<1>9. \A c \in Conns : /\ enqueued'[c] <=> Listed(new, c) \/ Served(c)
                       /\ ~(Listed(new, c) /\ Served(c))
  <2> SUFFICES ASSUME NEW c \in Conns
               PROVE  /\ enqueued'[c] <=> Listed(new, c) \/ Served(c)
                      /\ ~(Listed(new, c) /\ Served(c))
    OBVIOUS
  <2>1. /\ enqueued[c] <=> Listed(seg, c) \/ Served(c)
        /\ ~(Listed(seg, c) /\ Served(c))
    BY DEF Placed
  <2>2. enqueued'[c] <=> enqueued[c] \/ c \in S  BY <1>8
  <2>3. Listed(new, c) <=> Listed(seg, c) \/ c \in S  BY <1>5
  <2>4. c \in S => ~Served(c)  BY <1>4
  <2> QED  BY <2>1, <2>2, <2>3, <2>4
<1>10. Placed(new)'
  <2>1. \A c : Served(c)' <=> Served(c)  BY <1>8 DEF Served
  <2>2. \A g \in Heads : g # PollerHead => Len(new[g]) = Len(seg[g])  BY <1>5
  <2>3. Len(new[PollerHead]) = num_works'  BY <1>1, <1>5
  <2> QED  BY <1>1, <1>7, <1>8, <1>9, <2>1, <2>2, <2>3, HeadsAre DEF Placed
<1> QED  BY <1>10

LEMMA GivePlaced ==
  ASSUME Base, NEW seg, Placed(seg), Give
  PROVE  \E new : Placed(new)'
<1>1. poller = "give" /\ poller' = "wake" /\ activeItems' = activeItems + num_works
      /\ L' = MoveToTail(L, ActiveHead, PollerHead)
      /\ UNCHANGED <<readyItems, num_works, enqueued, worker, item, ready_items>>
  BY DEF Give, workerVars
<1>2. Live = Heads /\ Live' \in SUBSET Heads
  BY <1>1 DEF Live
<1>3. Holds(L, Heads, seg) /\ Len(seg[PollerHead]) = num_works
  BY <1>1, <1>2 DEF Placed
<1>4. num_works > 0
  BY <1>1 DEF Base, Counts
<1>p. PICK new : /\ Holds(MoveToTail(L, ActiveHead, PollerHead), Heads, new)
                 /\ MovedOver(seg, new, ActiveHead, PollerHead)
  <2>1. Len(seg[PollerHead]) > 0  BY <1>3, <1>4
  <2>2. ActiveHead \in Heads /\ PollerHead \in Heads /\ ActiveHead # PollerHead
    BY HeadsAre
  <2>3. Holds(L, Heads, seg)  BY <1>3
  <2> QED  BY <2>1, <2>2, <2>3, Moved
<1>5. /\ Holds(MoveToTail(L, ActiveHead, PollerHead), Heads, new)
      /\ Len(new[ActiveHead]) = Len(seg[ActiveHead]) + Len(seg[PollerHead])
      /\ new[PollerHead] = <<>>
      /\ \A f \in Heads : f # ActiveHead /\ f # PollerHead => new[f] = seg[f]
      /\ \A c : Listed(new, c) <=> Listed(seg, c)
  BY <1>p DEF MovedOver
<1>6. Holds(L', Live', new)
  BY <1>1, <1>2, <1>5, HoldsLess
<1>7. \A c : Served(c)' <=> Served(c)  BY <1>1 DEF Served
<1>8. \A g \in Heads : g # ActiveHead /\ g # PollerHead => Len(new[g]) = Len(seg[g])
  BY <1>5
<1>9. Len(new[ActiveHead]) = activeItems'
  BY <1>1, <1>3, <1>5 DEF Placed
<1>10. Placed(new)'
  BY <1>1, <1>5, <1>6, <1>7, <1>8, <1>9, HeadsAre DEF Placed
<1> QED  BY <1>10

LEMMA TakeReadyPlaced ==
  ASSUME Base, NEW seg, Placed(seg), TakeReady
  PROVE  \E new : Placed(new)'
<1> DEFINE M == InitHead(L, PollerHead)
<1>1. poller = "test" /\ poller' = "post" /\ readyItems = num_works /\ readyItems' = 0
      /\ L' = MoveToHead(M, PollerHead, ReadyHead)
      /\ UNCHANGED <<activeItems, num_works, enqueued, worker, item, ready_items>>
  BY DEF TakeReady, AllBack, workerVars
<1>2. seg[PollerHead] = <<>>
  BY <1>1 DEF Placed
<1>3. Holds(M, Heads, seg)
  <2>1. Holds(L, Live, seg)  BY DEF Placed
  <2>2. Holds(M, Live \cup {PollerHead}, seg)
    BY <1>2, <2>1, HoldsInit, HeadsAre
  <2> QED  BY <2>2, AlwaysLive
<1> HIDE DEF M
<1>4. num_works > 0 /\ Len(seg[ReadyHead]) = readyItems
  BY <1>1 DEF Base, Counts, Placed
<1>p. PICK new : /\ Holds(MoveToTail(M, PollerHead, ReadyHead), Heads, new)
                 /\ MovedOver(seg, new, PollerHead, ReadyHead)
  <2>1. Len(seg[ReadyHead]) > 0  BY <1>1, <1>4
  <2>2. PollerHead \in Heads /\ ReadyHead \in Heads /\ PollerHead # ReadyHead
    BY HeadsAre
  <2> QED  BY <1>3, <2>1, <2>2, Moved
<1>5. /\ Holds(MoveToTail(M, PollerHead, ReadyHead), Heads, new)
      /\ new[ReadyHead] = <<>>
      /\ \A f \in Heads : f # PollerHead /\ f # ReadyHead => new[f] = seg[f]
      /\ \A c : Listed(new, c) <=> Listed(seg, c)
  BY <1>p DEF MovedOver
<1>6. Holds(L', Live', new)
  <2>1. MoveToHead(M, PollerHead, ReadyHead) = MoveToTail(M, PollerHead, ReadyHead)
    BY <1>2, <1>3, HeadsAre, MoveToEmpty
  <2>2. Live' = Heads  BY <1>1 DEF Live
  <2> QED  BY <1>1, <1>5, <2>1, <2>2
<1>7. \A c : Served(c)' <=> Served(c)  BY <1>1 DEF Served
<1>8. \A g \in Heads : g # PollerHead /\ g # ReadyHead => Len(new[g]) = Len(seg[g])
  BY <1>5
<1>9. Len(new[ReadyHead]) = readyItems'
  BY <1>1, <1>5
<1>10. Placed(new)'
  BY <1>1, <1>5, <1>6, <1>7, <1>8, <1>9, HeadsAre DEF Placed
<1> QED  BY <1>10

LEMMA PostPlaced ==
  ASSUME Base, NEW seg, Placed(seg), Post
  PROVE  \E new : Placed(new)'
<1>1. /\ poller = "post" /\ poller' = "poll"
      /\ UNCHANGED <<L, activeItems, readyItems, num_works, worker, item, ready_items>>
      /\ \A c \in Conns :
           enqueued'[c] <=> enqueued[c] /\ c \notin ToSet(Walk(L, PollerHead))
  BY DEF Post, lists, workerVars
<1>2. Live = Heads /\ Live' = Heads \ {PollerHead}
  BY <1>1 DEF Live
<1>3. Holds(L, Heads, seg)
  BY <1>2 DEF Placed
<1>4. Walk(L, PollerHead) = seg[PollerHead]
  BY <1>3, HeadsAre, HoldsWalk
<1>p. PICK new : Holds(L, Heads \ {PollerHead}, new) /\ DroppedFrom(seg, new, PollerHead)
  <2>1. PollerHead \in Heads  BY HeadsAre
  <2> QED  BY <1>3, <2>1, Dropped
<1>5. /\ Holds(L, Heads \ {PollerHead}, new) /\ new[PollerHead] = <<>>
      /\ \A f \in Heads : f # PollerHead => new[f] = seg[f]
      /\ \A c : Listed(new, c) <=>
                  /\ Listed(seg, c)
                  /\ ~(\E i \in 1..Len(seg[PollerHead]) : seg[PollerHead][i] = c)
  BY <1>p DEF DroppedFrom
<1>6. \A c : c \in ToSet(seg[PollerHead])
               <=> \E i \in 1..Len(seg[PollerHead]) : seg[PollerHead][i] = c
  <2>1. seg \in Chains  BY <1>3 DEF Holds
  <2>2. seg[PollerHead] \in Seq(Conns)  BY <2>1, HeadsAre DEF Chains
  <2> QED  BY <2>2 DEF ToSet
<1>7. \A c : Served(c)' <=> Served(c)  BY <1>1 DEF Served
<1>8. \A c \in Conns : /\ enqueued'[c] <=> Listed(new, c) \/ Served(c)
                       /\ ~(Listed(new, c) /\ Served(c))
  <2> SUFFICES ASSUME NEW c \in Conns
               PROVE  /\ enqueued'[c] <=> Listed(new, c) \/ Served(c)
                      /\ ~(Listed(new, c) /\ Served(c))
    OBVIOUS
  <2> DEFINE there == \E i \in 1..Len(seg[PollerHead]) : seg[PollerHead][i] = c
  <2>1. /\ enqueued[c] <=> Listed(seg, c) \/ Served(c)
        /\ ~(Listed(seg, c) /\ Served(c))
    BY DEF Placed
  <2>2. enqueued'[c] <=> enqueued[c] /\ ~there  BY <1>1, <1>4, <1>6
  <2>3. Listed(new, c) <=> Listed(seg, c) /\ ~there  BY <1>5
  <2>4. there => Listed(seg, c)  BY HeadsAre DEF Listed
  <2> HIDE DEF there
  <2> QED  BY <2>1, <2>2, <2>3, <2>4
<1>9. \A g \in Heads : g # PollerHead => Len(new[g]) = Len(seg[g])
  BY <1>5
<1>10. Holds(L', Live', new)
  BY <1>1, <1>2, <1>5
<1>11. Placed(new)'
  BY <1>1, <1>5, <1>7, <1>8, <1>9, <1>10, HeadsAre DEF Placed
<1> QED  BY <1>11

LEMMA EnterPlaced ==
  ASSUME Base, NEW seg, Placed(seg), NEW w \in Workers, Enter(w)
  PROVE  Placed(seg)'
<1>1. /\ UNCHANGED <<activeItems, readyItems, poller, enqueued, num_works, item, ready_items>>
      /\ L' = InitHead(L, w) /\ worker[w] = "start" /\ worker \in [Workers -> WorkerAt]
      /\ worker' = [worker EXCEPT ![w] = "wait"]
  BY DEF Enter, pollerVars, Base, PoolTypes
<1>2. seg[w] = <<>>
  <2>1. Len(seg[w]) = 0  BY <1>1 DEF Base, Owners, Placed
  <2> QED  BY <2>1, ChainLens, HeadsAre
<1>3. Holds(L', Live', seg)
  <2>1. Holds(L, Live, seg) /\ w \in Live /\ w \in Heads  BY AlwaysLive, HeadsAre DEF Placed
  <2>2. Holds(InitHead(L, w), Live \cup {w}, seg)  BY <1>2, <2>1, HoldsInit
  <2>3. Live \cup {w} = Live /\ Live' = Live  BY <1>1, <2>1 DEF Live
  <2> QED  BY <1>1, <2>2, <2>3
<1>4. \A v \in Workers : worker'[v] = "signal" <=> worker[v] = "signal"
  BY <1>1
<1> QED  BY <1>1, <1>3, <1>4 DEF Placed, Served

LEMMA TakePlaced ==
  ASSUME Base, NEW seg, Placed(seg), NEW w \in Workers, Take(w)
  PROVE  \E new : Placed(new)'
<1> DEFINE x == L.next[ActiveHead]
<1>1. /\ UNCHANGED <<readyItems, poller, enqueued, num_works, ready_items>>
      /\ L' = Del(L, x) /\ activeItems > 0 /\ activeItems' = activeItems - 1
      /\ worker[w] = "test" /\ worker' = [worker EXCEPT ![w] = "serve"]
      /\ item' = [item EXCEPT ![w] = x] /\ item[w] = None
      /\ worker \in [Workers -> WorkerAt] /\ item \in [Workers -> Conns \cup {None}]
  BY DEF Take, pollerVars, Base, PoolTypes, Owners
<1>2. Holds(L, Live, seg) /\ ActiveHead \in Live /\ Len(seg[ActiveHead]) = activeItems
  BY AlwaysLive DEF Placed
<1>3. /\ x \in Conns /\ Listed(seg, x)
      /\ \E new : /\ Holds(Del(L, x), Live, new)
                  /\ Len(new[ActiveHead]) = Len(seg[ActiveHead]) - 1
                  /\ \A g \in Heads : g # ActiveHead => new[g] = seg[g]
                  /\ \A c : Listed(new, c) <=> Listed(seg, c) /\ c # x
  <2>1. Len(seg[ActiveHead]) > 0  BY <1>1, <1>2
  <2> QED  BY <1>2, <2>1, Popped
<1>4. PICK new : /\ Holds(Del(L, x), Live, new)
                 /\ Len(new[ActiveHead]) = Len(seg[ActiveHead]) - 1
                 /\ \A g \in Heads : g # ActiveHead => new[g] = seg[g]
                 /\ \A c : Listed(new, c) <=> Listed(seg, c) /\ c # x
  BY <1>3
<1> HIDE DEF x
<1>5. Holds(L', Live', new)
  BY <1>1, <1>4 DEF Live
<1>6. \A v \in Workers : /\ worker'[v] = "signal" <=> worker[v] = "signal"
                         /\ item'[v] = IF v = w THEN x ELSE item[v]
  BY <1>1
<1>7. ~Served(x)
  BY <1>3 DEF Placed
<1>8. \A c \in Conns : Served(c)' <=> Served(c) \/ c = x
  BY <1>1, <1>6, HeadsAre DEF Served
<1>9. \A v, u \in Workers : item'[v] # None /\ item'[v] = item'[u] => v = u
  BY <1>6, <1>7 DEF Placed, Served
<1>10. \A c \in Conns : /\ enqueued'[c] <=> Listed(new, c) \/ Served(c)'
                        /\ ~(Listed(new, c) /\ Served(c)')
  <2> SUFFICES ASSUME NEW c \in Conns
               PROVE  /\ enqueued'[c] <=> Listed(new, c) \/ Served(c)'
                      /\ ~(Listed(new, c) /\ Served(c)')
    OBVIOUS
  <2>1. /\ enqueued[c] <=> Listed(seg, c) \/ Served(c)
        /\ ~(Listed(seg, c) /\ Served(c))
    BY DEF Placed
  <2>2. Listed(new, c) <=> Listed(seg, c) /\ c # x  BY <1>4
  <2>3. Served(c)' <=> Served(c) \/ c = x  BY <1>8
  <2>4. enqueued'[c] = enqueued[c]  BY <1>1
  <2>5. c = x => Listed(seg, c) /\ ~Served(c)  BY <1>3, <1>7
  <2> QED  BY <2>1, <2>2, <2>3, <2>4, <2>5
<1>11. \A g \in Heads : g # ActiveHead => Len(new[g]) = Len(seg[g])
  BY <1>4
<1>12. Len(new[ActiveHead]) = activeItems'
  BY <1>1, <1>2, <1>4
<1>13. Placed(new)'
  BY <1>1, <1>4, <1>5, <1>6, <1>9, <1>10, <1>11, <1>12, HeadsAre DEF Placed
<1> QED  BY <1>13

LEMMA ServePlaced ==
  ASSUME Base, NEW seg, Placed(seg), NEW w \in Workers, Serve(w)
  PROVE  \E new : Placed(new)'
<1> DEFINE x == item[w]
<1>1. /\ UNCHANGED <<activeItems, readyItems, poller, enqueued, num_works>>
      /\ L' = AddToTail(L, w, x)
      /\ worker[w] = "serve" /\ worker' = [worker EXCEPT ![w] = "lock"]
      /\ item' = [item EXCEPT ![w] = None] /\ x \in Conns
      /\ ready_items' = [ready_items EXCEPT ![w] = @ + 1]
      /\ worker \in [Workers -> WorkerAt] /\ item \in [Workers -> Conns \cup {None}]
      /\ ready_items \in [Workers -> 0..Cardinality(Conns)]
  BY DEF Serve, pollerVars, Base, PoolTypes, Owners
<1>2. Holds(L, Live, seg) /\ w \in Live /\ w \in Heads /\ Len(seg[w]) = ready_items[w]
  BY <1>1, AlwaysLive, HeadsAre DEF Placed
<1>3. Served(x) /\ ~Listed(seg, x)
  BY <1>1 DEF Served, Placed
<1>4. \A v \in Workers : item[v] = x => v = w
  BY <1>1, HeadsAre DEF Placed
<1>5. PICK new : /\ Holds(AddToTail(L, w, x), Live, new)
                 /\ Len(new[w]) = Len(seg[w]) + 1
                 /\ \A g \in Heads : g # w => new[g] = seg[g]
                 /\ \A c : Listed(new, c) <=> Listed(seg, c) \/ c = x
  <2>1. x \in Conns /\ ~Listed(seg, x)  BY <1>1, <1>3
  <2>2. Holds(L, Live, seg) /\ w \in Live  BY <1>2
  <2> HIDE DEF x
  <2> QED  BY <2>1, <2>2, Appended
<1> HIDE DEF x
<1>6. Holds(L', Live', new)
  BY <1>1, <1>5 DEF Live
<1>7. \A v \in Workers :
        /\ worker'[v] = "signal" <=> worker[v] = "signal"
        /\ worker'[w] = "lock"
        /\ item'[v] = IF v = w THEN None ELSE item[v]
        /\ ready_items'[v] = IF v = w THEN ready_items[w] + 1 ELSE ready_items[v]
  BY <1>1
<1>8. \A c \in Conns : Served(c)' <=> Served(c) /\ c # x
  <2> SUFFICES ASSUME NEW c \in Conns  PROVE Served(c)' <=> Served(c) /\ c # x
    OBVIOUS
  <2>1. item[w] = x /\ c # None  BY HeadsAre DEF x
  <2> QED  BY <1>4, <1>7, <2>1 DEF Served
<1>9. \A v, u \in Workers : item'[v] # None /\ item'[v] = item'[u] => v = u
  BY <1>7 DEF Placed
<1>10. \A c \in Conns : /\ enqueued'[c] <=> Listed(new, c) \/ Served(c)'
                        /\ ~(Listed(new, c) /\ Served(c)')
  <2> SUFFICES ASSUME NEW c \in Conns
               PROVE  /\ enqueued'[c] <=> Listed(new, c) \/ Served(c)'
                      /\ ~(Listed(new, c) /\ Served(c)')
    OBVIOUS
  <2>1. /\ enqueued[c] <=> Listed(seg, c) \/ Served(c)
        /\ ~(Listed(seg, c) /\ Served(c))
    BY DEF Placed
  <2>2. Listed(new, c) <=> Listed(seg, c) \/ c = x  BY <1>5
  <2>3. Served(c)' <=> Served(c) /\ c # x  BY <1>8
  <2>4. enqueued'[c] = enqueued[c]  BY <1>1
  <2>5. c = x => Served(c)  BY <1>3
  <2> QED  BY <2>1, <2>2, <2>3, <2>4, <2>5
<1>11. \A g \in Heads : g # w => Len(new[g]) = Len(seg[g])
  BY <1>5
<1>12. \A v \in Workers :
         Len(new[v]) = IF worker'[v] = "signal" THEN 0 ELSE ready_items'[v]
  <2> SUFFICES ASSUME NEW v \in Workers
               PROVE  Len(new[v]) = IF worker'[v] = "signal" THEN 0 ELSE ready_items'[v]
    OBVIOUS
  <2>1. CASE v = w  BY <1>2, <1>5, <1>7, <2>1
  <2>2. CASE v # w  BY <1>7, <1>11, <2>2, HeadsAre DEF Placed
  <2> QED  BY <2>1, <2>2
<1>13. Placed(new)'
  BY <1>1, <1>5, <1>6, <1>9, <1>10, <1>11, <1>12, HeadsAre DEF Placed
<1> QED  BY <1>13

LEMMA DeliverPlaced ==
  ASSUME Base, NEW seg, Placed(seg), NEW w \in Workers, Deliver(w), ready_items[w] # 0
  PROVE  \E new : Placed(new)'
<1>1. /\ UNCHANGED <<activeItems, poller, enqueued, num_works, item, ready_items>>
      /\ L' = MoveToTail(L, ReadyHead, w) /\ readyItems' = readyItems + ready_items[w]
      /\ worker[w] = "deliver" /\ worker' = [worker EXCEPT ![w] = "signal"]
      /\ worker \in [Workers -> WorkerAt]
      /\ ready_items[w] \in Nat
  BY Distinct DEF Deliver, pollerVars, Base, PoolTypes
<1>2. /\ Holds(L, Live, seg) /\ w \in Live /\ ReadyHead \in Live /\ w # ReadyHead
      /\ Len(seg[w]) = ready_items[w] /\ Len(seg[ReadyHead]) = readyItems
      /\ w \in Heads /\ ReadyHead \in Heads
  BY <1>1, AlwaysLive, HeadsAre DEF Placed
<1>p. PICK new : Holds(MoveToTail(L, ReadyHead, w), Live, new) /\ MovedOver(seg, new, ReadyHead, w)
  <2>1. Len(seg[w]) > 0  BY <1>1, <1>2
  <2> QED  BY <1>2, <2>1, Moved
<1>5. /\ Len(new[ReadyHead]) = Len(seg[ReadyHead]) + Len(seg[w])
      /\ new[w] = <<>>
      /\ \A f \in Heads : f # ReadyHead /\ f # w => new[f] = seg[f]
      /\ \A c : Listed(new, c) <=> Listed(seg, c)
  BY <1>p DEF MovedOver
<1>6. Holds(L', Live', new)
  BY <1>1, <1>p DEF Live
<1>7. \A c : Served(c)' <=> Served(c)  BY <1>1 DEF Served
<1>8. \A g \in Heads : g # ReadyHead /\ g # w => Len(new[g]) = Len(seg[g])
  BY <1>5
<1>9. Len(new[ReadyHead]) = readyItems'
  BY <1>1, <1>2, <1>5
<1>10. \A v \in Workers :
         Len(new[v]) = IF worker'[v] = "signal" THEN 0 ELSE ready_items'[v]
  <2> SUFFICES ASSUME NEW v \in Workers
               PROVE  Len(new[v]) = IF worker'[v] = "signal" THEN 0 ELSE ready_items'[v]
    OBVIOUS
  <2>1. CASE v = w  BY <1>1, <1>5, <2>1
  <2>2. CASE v # w
    <3>1. worker'[v] = worker[v] /\ ready_items'[v] = ready_items[v]  BY <1>1, <2>2
    <3> QED  BY <1>8, <2>2, <3>1, HeadsAre DEF Placed
  <2> QED  BY <2>1, <2>2
<1>11. Placed(new)'
  BY <1>1, <1>5, <1>6, <1>7, <1>8, <1>9, <1>10, HeadsAre DEF Placed
<1> QED  BY <1>11

LEMMA SignalPlaced ==
  ASSUME Base, NEW seg, Placed(seg), NEW w \in Workers, SignalAndWait(w)
  PROVE  Placed(seg)'
<1>1. /\ UNCHANGED <<activeItems, readyItems, enqueued, num_works, item>>
      /\ L' = InitHead(L, w) /\ worker[w] = "signal" /\ worker \in [Workers -> WorkerAt]
      /\ worker' = [worker EXCEPT ![w] = "wait"]
      /\ ready_items' = [ready_items EXCEPT ![w] = 0]
      /\ ready_items \in [Workers -> 0..Cardinality(Conns)]
      /\ poller' # poller => poller = "wait" /\ poller' = "woken"
  BY DEF SignalAndWait, SignalReady, Base, PoolTypes
<1>2. seg[w] = <<>>
  <2>1. Len(seg[w]) = 0  BY <1>1 DEF Placed
  <2> QED  BY <2>1, ChainLens, HeadsAre
<1>3. Holds(L', Live', seg)
  <2>1. Holds(L, Live, seg) /\ w \in Live /\ w \in Heads  BY AlwaysLive, HeadsAre DEF Placed
  <2>2. Holds(InitHead(L, w), Live \cup {w}, seg)  BY <1>2, <2>1, HoldsInit
  <2>3. Live \cup {w} = Live /\ Live' = Live  BY <1>1, <2>1 DEF Live
  <2> QED  BY <1>1, <2>2, <2>3
<1>4. \A v \in Workers :
        Len(seg[v]) = IF worker'[v] = "signal" THEN 0 ELSE ready_items'[v]
  <2> SUFFICES ASSUME NEW v \in Workers
               PROVE  Len(seg[v]) = IF worker'[v] = "signal" THEN 0 ELSE ready_items'[v]
    OBVIOUS
  <2>1. CASE v = w  BY <1>1, <1>2, <2>1
  <2>2. CASE v # w
    <3>1. worker'[v] = worker[v] /\ ready_items'[v] = ready_items[v]  BY <1>1, <2>2
    <3> QED  BY <3>1 DEF Placed
  <2> QED  BY <2>1, <2>2
<1>5. /\ poller' = "give" => poller = "give"
      /\ poller' \notin {"give", "post"} => poller \notin {"give", "post"}
  BY <1>1
<1> QED  BY <1>1, <1>3, <1>4, <1>5 DEF Placed, Served

LEMMA StillPlaced ==
  ASSUME Base, NEW seg, Placed(seg),
         WakeWorker \/ AwaitReady \/ PollerWakes \/ WakeUnasked
           \/ \E w \in Workers : Lock(w) \/ NoMore(w)
  PROVE  Placed(seg)'
<1> DEFINE Same == UNCHANGED <<L, activeItems, readyItems, enqueued, num_works, item, ready_items>>
           Stays == poller' # poller => {poller, poller'} \cap {"give", "post"} = {}
           Quiet == \A w \in Workers : worker'[w] = "signal" <=> worker[w] = "signal"
<1>1. worker \in [Workers -> WorkerAt]
  BY DEF Base, PoolTypes
<1>2. CASE WakeWorker
  <2>1. Same /\ Stays  BY <1>2 DEF WakeWorker, lists
  <2>2. worker' = worker \/ \E w \in Sleeping : worker' = [worker EXCEPT ![w] = "woken"]
    BY <1>2 DEF WakeWorker, SignalActive
  <2>3. Quiet  BY <1>1, <2>2 DEF Sleeping
  <2> QED  BY <2>1, <2>3, PlacedKeeps
<1>3. CASE AwaitReady \/ PollerWakes
  <2>1. Same /\ Stays /\ Quiet  BY <1>3 DEF AwaitReady, PollerWakes, lists, workerVars
  <2> QED  BY <2>1, PlacedKeeps
<1>4. CASE WakeUnasked
  <2>1. Same /\ Stays  BY <1>4 DEF WakeUnasked, lists
  <2>2. worker' = worker \/ \E w \in Sleeping : worker' = [worker EXCEPT ![w] = "woken"]
    BY <1>4 DEF WakeUnasked
  <2>3. Quiet  BY <1>1, <2>2 DEF Sleeping
  <2> QED  BY <2>1, <2>3, PlacedKeeps
<1>5. ASSUME NEW w \in Workers, Lock(w) \/ NoMore(w)  PROVE Placed(seg)'
  <2>1. Same /\ Stays  BY <1>5 DEF Lock, NoMore, lists, pollerVars
  <2>2. Quiet  BY <1>1, <1>5 DEF Lock, NoMore
  <2> QED  BY <2>1, <2>2, PlacedKeeps
<1> QED  BY <1>2, <1>3, <1>4, <1>5

\* As long as all lists are sound, nobody reads a list head as a connection.
LEMMA NeverDerails ==
  ASSUME Base, NEW seg, Placed(seg)
  PROVE  ~Derail
<1>1. Holds(L, Live, seg)
  BY DEF Placed
<1>2. poller = "post" => IsListOf(L, PollerHead, Conns)
  <2>1. poller = "post" => PollerHead \in Live
    BY HeadsAre DEF Live
  <2> QED  BY <1>1, <2>1, HoldsWalk
<1>3. activeItems > 0 => L.next[ActiveHead] \in Conns
  <2>1. Len(seg[ActiveHead]) = activeItems /\ ActiveHead \in Live
    BY AlwaysLive DEF Placed
  <2> QED  BY <1>1, <2>1, Popped
<1> QED  BY <1>2, <1>3 DEF Derail

LEMMA StepPlaced ==
  ASSUME Base, clean => up /\ \E seg : Placed(seg), [Next]_vars
  PROVE  clean' => up' /\ \E seg : Placed(seg)'
<1> SUFFICES ASSUME clean'  PROVE up' /\ \E seg : Placed(seg)'
  OBVIOUS
<1>1. clean
  BY DEF Next, Recorded, WakeUnasked, Derail, vars
<1>2. PICK seg : Placed(seg)
  BY <1>1
<1>3. up
  BY <1>1
<1>4. ~Derail
  BY <1>2, NeverDerails
<1>5. up'
  BY <1>3, <1>4 DEF Next, Recorded, WakeUnasked, vars
<1>6. ASSUME NEW S \in (SUBSET {c \in Conns : ~enqueued[c]}) \ {{}}, Poll(S)
      PROVE  \E new : Placed(new)'
  <2>1. S \in SUBSET {c \in Conns : ~enqueued[c]} /\ S # {}
    OBVIOUS
  <2> QED  BY <1>2, <1>6, <2>1, PollPlaced
<1>7. ASSUME GoOn  PROVE \E new : Placed(new)'
  <2>1. CASE Give  BY <1>2, <2>1, GivePlaced
  <2>2. CASE TakeReady  BY <1>2, <2>2, TakeReadyPlaced
  <2>3. CASE Post  BY <1>2, <2>3, PostPlaced
  <2>4. CASE WakeWorker \/ AwaitReady \/ PollerWakes  BY <1>2, <2>4, StillPlaced
  <2> QED  BY <1>7, <2>1, <2>2, <2>3, <2>4 DEF GoOn
<1>8. ASSUME NEW w \in Workers, Work(w), Recorded
      PROVE  \E new : Placed(new)'
  <2>1. CASE Enter(w)  BY <1>2, <2>1, EnterPlaced
  <2>2. CASE Take(w)  BY <1>2, <2>2, TakePlaced
  <2>3. CASE Serve(w)  BY <1>2, <2>3, ServePlaced
  <2>4. CASE Deliver(w)
    <3>1. ready_items[w] # 0
      <4>1. HandsOverNothing(w) => worker'[w] = "deliver"
        BY <1>8 DEF Recorded
      <4>2. worker[w] = "deliver" /\ worker'[w] = "signal"
        BY <2>4 DEF Deliver, Base, PoolTypes
      <4> QED  BY <4>1, <4>2 DEF HandsOverNothing
    <3> QED  BY <1>2, <2>4, <3>1, DeliverPlaced
  <2>5. CASE SignalAndWait(w)  BY <1>2, <2>5, SignalPlaced
  <2>6. CASE Lock(w) \/ NoMore(w)  BY <1>2, <2>6, StillPlaced
  <2> QED  BY <1>8, <2>1, <2>2, <2>3, <2>4, <2>5, <2>6 DEF Work
<1>9. ASSUME WakeUnasked  PROVE \E new : Placed(new)'
  BY <1>2, <1>9, StillPlaced
<1>10. ASSUME UNCHANGED vars  PROVE \E new : Placed(new)'
  <2>1. Placed(seg)'
    BY <1>2, <1>10, PlacedKeeps DEF vars, lists, pollerVars, workerVars
  <2> QED  BY <2>1
<1>11. \E new : Placed(new)'
  BY <1>4, <1>6, <1>7, <1>8, <1>9, <1>10 DEF Next
<1> QED  BY <1>5, <1>11

LEMMA StepMarks ==
  ASSUME Marks, [Next]_vars
  PROVE  Marks'
<1>1. MaxSpurious \in Nat
  BY PepPoolAssumption
<1>2. CASE WakeUnasked  BY <1>1, <1>2 DEF WakeUnasked, Marks
<1>3. CASE Derail  BY <1>3 DEF Derail, Marks
<1>4. CASE Recorded  BY <1>4 DEF Recorded, Marks
<1>5. CASE UNCHANGED vars  BY <1>5 DEF vars, Marks
<1> QED  BY <1>2, <1>3, <1>4, <1>5 DEF Next

LEMMA StepPool ==
  ASSUME PoolInv, [Next]_vars
  PROVE  PoolInv'
<1>1. Base' /\ Marks'
  BY StepBase, StepMarks DEF PoolInv
<1>2. clean' => up' /\ \E seg : Placed(seg)'
  BY StepPlaced DEF PoolInv
<1> QED  BY <1>1, <1>2 DEF PoolInv

LEMMA StartPool ==
  ASSUME NEW W \in SUBSET Workers, Started(W)
  PROVE  PoolInv
<1>1. /\ L \in Memory
      /\ \A x \in Nodes \ Conns : L.next[x] = x /\ L.prev[x] = x
  <2> DEFINE p == [x \in Nodes |-> IF x \in Conns THEN NULL ELSE x]
  <2>1. p \in [Nodes -> Nodes \cup {NULL}]
    OBVIOUS
  <2>2. L = [next |-> p, prev |-> p]
    BY DEF Started, Unlinked
  <2>3. \A x \in Nodes \ Conns : p[x] = x
    OBVIOUS
  <2> HIDE DEF p
  <2> QED  BY <2>1, <2>2, <2>3 DEF Memory
<1>2. /\ activeItems = 0 /\ readyItems = 0 /\ activeLock = None /\ readyLock = None
      /\ enqueued = [c \in Conns |-> FALSE] /\ poller = "poll" /\ num_works = 0
      /\ worker = [w \in Workers |-> IF w \in W THEN "wait" ELSE "start"]
      /\ item = [w \in Workers |-> None] /\ ready_items = [w \in Workers |-> 0]
      /\ up = TRUE /\ spurious = 0 /\ clean = TRUE
  BY DEF Started
<1>3. PoolTypes
  BY <1>1, <1>2, Distinct DEF PoolTypes, PollerAt, WorkerAt
<1>4. Owners
  BY <1>2, Distinct DEF Owners
<1>5. Counts
  <2>1. Tokens(worker, ready_items) = {}
    <3>1. \A w \in Workers, i \in 0..Cardinality(Conns) :
            <<w, i>> \notin Tokens(worker, ready_items)
      <4> SUFFICES ASSUME NEW w \in Workers, NEW i \in 0..Cardinality(Conns)
                   PROVE  <<w, i>> \notin Tokens(worker, ready_items)
        OBVIOUS
      <4>1. worker[w] # "serve" /\ ready_items[w] = 0  BY <1>2
      <4>2. i # 0 => ~(i <= 0)  BY Distinct
      <4> QED  BY <4>1, <4>2, TokensAre
    <3>2. ASSUME NEW t \in Tokens(worker, ready_items)  PROVE FALSE
      BY <3>1, TokensAre
    <3> QED  BY <3>2
  <2>2. Cardinality(Tokens(worker, ready_items)) = 0
    BY <2>1, FS_EmptySet
  <2> QED  BY <1>2, <2>2 DEF Counts, Out
<1>6. Marks
  BY <1>2, PepPoolAssumption DEF Marks
<1>7. Placed([h \in Heads |-> <<>>])
  <2> DEFINE seg == [h \in Heads |-> <<>>]
  <2>1. /\ seg \in Chains /\ \A h \in Heads : seg[h] = <<>> /\ Len(seg[h]) = 0
    <3>1. <<>> \in Seq(Conns) /\ Len(<<>>) = 0  OBVIOUS
    <3> QED  BY <3>1 DEF Chains
  <2> HIDE DEF seg
  <2>2. Apart(seg) /\ \A c : ~Listed(seg, c)
    BY <2>1 DEF Apart, Listed
  <2>3. \A h \in Heads : Ring(L, h, seg[h])
    <3> SUFFICES ASSUME NEW h \in Heads  PROVE Ring(L, h, seg[h])
      OBVIOUS
    <3>1. L.next[h] = h /\ L.prev[h] = h  BY <1>1, Distinct
    <3>2. Ring(L, h, <<>>)  BY <3>1 DEF Ring, NodeAt
    <3> QED  BY <2>1, <3>2
  <2>4. Holds(L, Live, seg)
    BY <1>1, <2>1, <2>2, <2>3, AlwaysLive DEF Holds
  <2>5. \A c \in Conns : ~Served(c) /\ ~enqueued[c]
    BY <1>2, HeadsAre DEF Served
  <2>6. Placed(seg)
    BY <1>2, <2>1, <2>2, <2>4, <2>5, HeadsAre DEF Placed
  <2> QED  BY <2>6 DEF seg
<1> QED  BY <1>2, <1>3, <1>4, <1>5, <1>6, <1>7 DEF PoolInv, Base

(***************************************************************************)
(* The invariant holds whether the poller finds its workers asleep or not. *)
(***************************************************************************)
THEOREM PoolInvariance ==
  (ColdSpec => []PoolInv) /\ (WarmSpec => []PoolInv)
<1>1. Init => PoolInv
  BY StartPool DEF Init
<1>2. WarmInit => PoolInv
  <2> SUFFICES ASSUME WarmInit  PROVE PoolInv
    OBVIOUS
  <2>1. PICK W \in (SUBSET Workers) \ {{}} : Started(W)
    BY DEF WarmInit
  <2> QED  BY <2>1, StartPool
<1>3. PoolInv /\ [Next]_vars => PoolInv'
  BY StepPool
<1> QED  BY <1>1, <1>2, <1>3, PTL DEF ColdSpec, WarmSpec

(***************************************************************************)
(* Until a worker hands over an empty list, active_queue and ready_queue   *)
(* are lists of connections, linked both ways, as long as num_items says;  *)
(* no worker ever has more than all connections in its local_list.         *)
(***************************************************************************)
THEOREM PoolQueuesSound ==
  (ColdSpec => []QueuesSound) /\ (WarmSpec => []QueuesSound)
<1>1. PoolInv => QueuesSound
  <2> SUFFICES ASSUME PoolInv  PROVE QueuesSound
    OBVIOUS
  <2>1. ASSUME clean
        PROVE  /\ IsListOf(L, ActiveHead, Conns) /\ activeItems = Length(L, ActiveHead)
               /\ IsListOf(L, ReadyHead, Conns) /\ readyItems = Length(L, ReadyHead)
    <3>1. PICK seg : Placed(seg)
      BY <2>1 DEF PoolInv
    <3>2. /\ Holds(L, Live, seg) /\ ActiveHead \in Live /\ ReadyHead \in Live
          /\ Len(seg[ActiveHead]) = activeItems /\ Len(seg[ReadyHead]) = readyItems
      BY <3>1, AlwaysLive DEF Placed
    <3> QED  BY <3>2, HoldsWalk
  <2> QED  BY <2>1 DEF PoolInv, Base, PoolTypes, Marks, QueuesSound
<1> QED  BY <1>1, PoolInvariance, PTL

\* Who has a connection, by the lists.
LEMMA HoldersAre ==
  ASSUME NEW seg, Placed(seg), NEW c \in Conns
  PROVE  \A h : h \in Holders(c) <=> h \in Heads /\ \E i \in 1..Len(seg[h]) : seg[h][i] = c
<1>1. /\ Holds(L, Live, seg) /\ seg \in Chains
      /\ poller \notin {"give", "post"} => Len(seg[PollerHead]) = 0
  BY DEF Placed, Holds
<1>2. ASSUME NEW h \in Live
      PROVE  c \in ToSet(Walk(L, h)) <=> \E i \in 1..Len(seg[h]) : seg[h][i] = c
  <2>1. Walk(L, h) = seg[h]  BY <1>1, HoldsWalk
  <2>2. seg[h] \in Seq(Conns)  BY <1>1, AlwaysLive DEF Chains
  <2> QED  BY <2>1, <2>2 DEF ToSet
<1>3. \A h \in Workers \cup {ActiveHead, ReadyHead} :
        h \in Live /\ h \in Heads /\ h # PollerHead
  BY AlwaysLive, HeadsAre
<1>4. \A h \in Heads : h # PollerHead => h \in Workers \cup {ActiveHead, ReadyHead}
  BY DEF Heads
<1>5. PollerHead \in Heads /\ (poller \in {"give", "post"} => PollerHead \in Live)
  BY HeadsAre DEF Live
<1>6. ASSUME NEW h
      PROVE  h \in Holders(c) <=>
               \/ h \in Workers \cup {ActiveHead, ReadyHead} /\ c \in ToSet(Walk(L, h))
               \/ h = PollerHead /\ poller \in {"give", "post"}
                    /\ c \in ToSet(Walk(L, PollerHead))
  BY DEF Holders
<1>7. ASSUME NEW h
      PROVE  h \in Holders(c) <=> h \in Heads /\ \E i \in 1..Len(seg[h]) : seg[h][i] = c
  <2>1. CASE h \in Workers \cup {ActiveHead, ReadyHead}
    <3>1. c \in ToSet(Walk(L, h)) <=> \E i \in 1..Len(seg[h]) : seg[h][i] = c
      BY <1>2, <1>3, <2>1
    <3> QED  BY <1>3, <1>6, <2>1, <3>1
  <2>2. CASE h = PollerHead
    <3>1. CASE poller \in {"give", "post"}
      <4>1. c \in ToSet(Walk(L, h)) <=> \E i \in 1..Len(seg[h]) : seg[h][i] = c
        BY <1>2, <1>5, <2>2, <3>1
      <4> QED  BY <1>3, <1>5, <1>6, <2>2, <3>1, <4>1
    <3>2. CASE poller \notin {"give", "post"}
      <4>1. ~(\E i \in 1..Len(seg[h]) : seg[h][i] = c)  BY <1>1, <2>2, <3>2
      <4> QED  BY <1>3, <1>6, <2>2, <3>2, <4>1
    <3> QED  BY <3>1, <3>2
  <2>3. CASE h \notin Heads
    BY <1>3, <1>5, <1>6, <2>3
  <2> QED  BY <1>4, <2>1, <2>2, <2>3
<1> QED  BY <1>7

\* Nothing is left anywhere when the poller goes on.
LEMMA AllAreBack ==
  ASSUME Base, NEW seg, Placed(seg), poller = "post"
  PROVE  /\ \A h \in Heads : h # PollerHead => Len(seg[h]) = 0
         /\ \A c : ~Served(c) \/ c = None
<1>1. activeItems = 0 /\ readyItems = 0 /\ Cardinality(Tokens(worker, ready_items)) = 0
  BY CountsAre DEF Out
<1>2. Tokens(worker, ready_items) = {}
  <2>1. IsFiniteSet(Tokens(worker, ready_items))
    BY TokensAre
  <2> QED  BY <1>1, <2>1, FS_EmptySet
<1>3. ASSUME NEW w \in Workers
      PROVE  Len(seg[w]) = 0 /\ item[w] = None
  <2>1. ready_items[w] \in 0..Cardinality(Conns) /\ Cardinality(Conns) \in Nat
    BY Distinct DEF Base, PoolTypes
  <2>2. <<w, 0>> \notin Tokens(worker, ready_items) /\ <<w, 1>> \notin Tokens(worker, ready_items)
    BY <1>2
  <2>3. worker[w] # "serve"
    <3>1. 0 \in 0..Cardinality(Conns)  BY <2>1
    <3> QED  BY <2>2, <3>1, TokensAre
  <2>4. worker[w] # "signal" => ready_items[w] = 0
    <3>1. CASE Cardinality(Conns) = 0  BY <2>1, <3>1
    <3>2. CASE Cardinality(Conns) # 0
      <4>1. 1 \in 0..Cardinality(Conns) /\ 1 # 0  BY <2>1, <3>2
      <4>2. ~(1 <= ready_items[w] /\ worker[w] # "signal")
        BY <2>2, <4>1, TokensAre
      <4> QED  BY <2>1, <4>2
    <3> QED  BY <3>1, <3>2
  <2> QED  BY <2>3, <2>4 DEF Placed, Base, Owners
<1>4. Len(seg[ActiveHead]) = 0 /\ Len(seg[ReadyHead]) = 0
  BY <1>1 DEF Placed
<1>5. \A h \in Heads : h # PollerHead => Len(seg[h]) = 0
  BY <1>3, <1>4 DEF Heads
<1> QED  BY <1>3, <1>5 DEF Served

(***************************************************************************)
(* Until a worker hands over an empty list, a connection that was handed   *)
(* over is in one list or with one worker, never in two places and never   *)
(* in none, and one that was not is nowhere; when the poller goes on, all  *)
(* it had handed over are in its own list.                                 *)
(***************************************************************************)
THEOREM PoolOneHolder ==
  (ColdSpec => []OneHolder) /\ (WarmSpec => []OneHolder)
<1>1. PoolInv => OneHolder
  <2> SUFFICES ASSUME PoolInv, clean, NEW c \in Conns
               PROVE  /\ Cardinality(Holders(c)) + Cardinality(Serving(c))
                           = IF enqueued[c] THEN 1 ELSE 0
                      /\ poller = "post" /\ enqueued[c] => Holders(c) = {PollerHead}
    BY DEF OneHolder
  <2>1. Base
    BY DEF PoolInv
  <2>2. PICK seg : Placed(seg)
    BY DEF PoolInv
  <2>3. \A h : h \in Holders(c) <=> h \in Heads /\ \E i \in 1..Len(seg[h]) : seg[h][i] = c
    BY <2>2, HoldersAre
  <2>4. /\ enqueued[c] <=> Listed(seg, c) \/ Served(c)
        /\ ~(Listed(seg, c) /\ Served(c))
        /\ Apart(seg)
    BY <2>2 DEF Placed, Holds
  <2>5. CASE Listed(seg, c)
    <3>1. PICK h \in Heads : \E i \in 1..Len(seg[h]) : seg[h][i] = c
      BY <2>5 DEF Listed
    <3>2. Holders(c) = {h}
      BY <2>3, <2>4, <3>1 DEF Apart
    <3>3. Serving(c) = {}
      BY <2>4, <2>5 DEF Serving, Served
    <3>4. Cardinality(Holders(c)) = 1 /\ Cardinality(Serving(c)) = 0
      BY <3>2, <3>3, FS_Singleton, FS_EmptySet
    <3>5. poller = "post" => h = PollerHead
      <4>1. ASSUME poller = "post", h # PollerHead  PROVE FALSE
        <5>1. Len(seg[h]) = 0
          BY <2>1, <2>2, <4>1, AllAreBack
        <5> QED  BY <3>1, <5>1
      <4> QED  BY <4>1
    <3>6. enqueued[c]
      BY <2>4, <2>5
    <3> QED  BY <3>2, <3>4, <3>5, <3>6
  <2>6. CASE ~Listed(seg, c)
    <3>1. Holders(c) = {} /\ Cardinality(Holders(c)) = 0
      BY <2>3, <2>6, FS_EmptySet DEF Listed
    <3>2. CASE Served(c)
      <4>1. PICK w \in Workers : item[w] = c
        BY <3>2 DEF Served
      <4>2. Serving(c) = {w}
        BY <2>2, <4>1, HeadsAre DEF Placed, Serving
      <4>3. Cardinality(Serving(c)) = 1 /\ enqueued[c]
        BY <2>4, <3>2, <4>2, FS_Singleton
      <4>4. poller # "post"
        BY <2>1, <2>2, <3>2, AllAreBack, HeadsAre
      <4> QED  BY <3>1, <4>3, <4>4
    <3>3. CASE ~Served(c)
      <4>1. Serving(c) = {}
        BY <3>3 DEF Serving, Served
      <4>2. Cardinality(Serving(c)) = 0 /\ ~enqueued[c]
        BY <2>4, <2>6, <3>3, <4>1, FS_EmptySet
      <4> QED  BY <3>1, <4>2
    <3> QED  BY <3>2, <3>3
  <2> QED  BY <2>5, <2>6
<1> QED  BY <1>1, PoolInvariance, PTL

AtActive == {w \in Workers : worker[w] \in {"test", "deliver", "signal"}}

Exclusive ==
  /\ \A w, v \in AtActive : w = v
  /\ poller = "wake" => AtActive = {}

Counted ==
  activeItems + Cardinality(Tokens(worker, ready_items)) + readyItems
    = IF Out THEN num_works ELSE 0

(***************************************************************************)
(* Whatever empty lists are handed over, two workers are never at          *)
(* active_queue at once, nor the poller with one of them, and the counters *)
(* agree: what is queued, being served, served but not handed over, and    *)
(* handed over makes the number the poller waits for.                      *)
(***************************************************************************)
THEOREM PoolExclusion ==
  (ColdSpec => [](Exclusive /\ Counted)) /\ (WarmSpec => [](Exclusive /\ Counted))
<1>1. PoolInv => Exclusive /\ Counted
  <2> SUFFICES ASSUME PoolInv  PROVE Exclusive /\ Counted
    OBVIOUS
  <2>1. Base
    BY DEF PoolInv
  <2>2. Exclusive
    BY <2>1, HeadsAre DEF Base, Owners, Exclusive, AtActive
  <2>3. Counted
    BY <2>1 DEF Base, Counts, Counted
  <2> QED  BY <2>2, <2>3
<1> QED  BY <1>1, PoolInvariance, PTL
====
