---- MODULE HoleTrackerProofs ----
(***************************************************************************)
(* The invariants of HoleTracker for every stream, every arrival order and *)
(* every value of the timeouts.  The inductive invariant adds to the       *)
(* checked ones that nothing above dataNextRangeStart has been seen until  *)
(* a range straddles it.                                                   *)
(***************************************************************************)
EXTENDS HoleTracker, TLAPS

SeenBelowNext == straddled \/ \A i \in seen : i < dataNextRangeStart

IInv ==
  /\ TypeOK
  /\ NoByteForgotten
  /\ TriedOnce
  /\ NoFalseHole
  /\ SeenBelowNext

(***************************************************************************)
(* A range is a set of naturals, and its members are those in its bounds.  *)
(***************************************************************************)
LEMMA SpanMembers ==
  ASSUME NEW a \in Nat, NEW b \in Nat
  PROVE  /\ Span(a, b) \in SUBSET Nat
         /\ \A i \in Nat : i \in Span(a, b) <=> a <= i /\ i < b
BY DEF Span

(***************************************************************************)
(* A new hole of age 0 has exactly the bytes it was made of.               *)
(***************************************************************************)
LEMMA ProjectPairs ==
  ASSUME NEW S
  PROVE  {m[1] : m \in S \X {0}} = S
<1>1. ASSUME NEW i \in S
      PROVE  i \in {m[1] : m \in S \X {0}}
  <2>1. <<i, 0>> \in S \X {0} /\ <<i, 0>>[1] = i
    OBVIOUS
  <2>2. QED
    BY <2>1
<1>2. ASSUME NEW i \in {m[1] : m \in S \X {0}}
      PROVE  i \in S
  BY <1>2
<1>3. QED
  BY <1>1, <1>2

(***************************************************************************)
(* The bytes of a set of missing pairs are naturals.                       *)
(***************************************************************************)
LEMMA MissingAreNat ==
  ASSUME TypeOK
  PROVE  /\ MissingBytes \in SUBSET Nat
         /\ \A m \in missing : m[1] \in Nat /\ m[2] \in Nat /\ m = <<m[1], m[2]>>
BY DEF TypeOK, MissingBytes

(***************************************************************************)
(* Initially nothing is missing, asked for or seen.                        *)
(***************************************************************************)
LEMMA InitIInv == Init => IInv
<1> SUFFICES ASSUME Init PROVE IInv
  OBVIOUS
<1> USE DEF Init
<1>1. MissingBytes = {}
  BY DEF MissingBytes
<1>2. Span(0, 0) = {}
  BY SpanMembers
<1>3. TypeOK
  BY DEF TypeOK
<1>4. NoByteForgotten
  BY <1>2 DEF NoByteForgotten
<1>5. TriedOnce
  BY <1>1 DEF TriedOnce
<1>6. NoFalseHole /\ SeenBelowNext
  BY <1>1 DEF NoFalseHole, SeenBelowNext
<1>7. QED
  BY <1>3, <1>4, <1>5, <1>6 DEF IInv

(***************************************************************************)
(* detectDataHole and the history of what arrived keep the invariant.      *)
(***************************************************************************)
LEMMA ArriveIInv ==
  ASSUME IInv, NEW a \in Bytes, NEW b \in Bytes, Arrive(a, b)
  PROVE  IInv'
<1> USE DEF IInv
<1>1. a \in Nat /\ b \in Nat /\ a < b
  BY HoleTrackerAssumption DEF Arrive
<1>2. /\ TypeOK
      /\ Span(a, b) \in SUBSET Nat
      /\ \A i \in Nat : i \in Span(a, b) <=> a <= i /\ i < b
  BY <1>1, SpanMembers
<1>3. /\ \A i \in Nat : i \in Span(0, dataNextRangeStart) <=> i < dataNextRangeStart
      /\ Span(0, dataNextRangeStart) \in SUBSET Nat
  BY <1>2, SpanMembers DEF TypeOK
<1>4. /\ Span(dataNextRangeStart, a) \in SUBSET Nat
      /\ \A i \in Nat : i \in Span(dataNextRangeStart, a)
                          <=> dataNextRangeStart <= i /\ i < a
  BY <1>1, <1>2, SpanMembers DEF TypeOK
<1>5. /\ seen' = seen \cup Span(a, b)
      /\ up' = up /\ asked' = asked /\ forwarded' = forwarded
  BY DEF Arrive
<1>6. dataNextRangeStart' \in Nat
  BY <1>1, <1>2 DEF Arrive, DetectDataHole, Expected, Retransmitted, Jumped, LeftHole,
                    TypeOK
<1>7. /\ \A i \in Nat : i \in Span(0, dataNextRangeStart') <=> i < dataNextRangeStart'
      /\ Span(0, dataNextRangeStart') \in SUBSET Nat
  BY <1>6, SpanMembers
<1>8. /\ dataNextRangeStart \in Nat
       /\ MissingBytes \in SUBSET Nat
       /\ asked \in SUBSET Nat /\ seen \in SUBSET Nat
  BY <1>2, MissingAreNat DEF TypeOK
<1>9. /\ \A i \in MissingBytes \cup asked : i < dataNextRangeStart
       /\ MissingBytes \cap asked = {}
       /\ \A m, n \in missing : m[1] = n[1] => m = n
  BY DEF TriedOnce
<1>10. CASE Expected(a, b)
  <2>1. /\ dataNextRangeStart = a /\ dataNextRangeStart' = b
        /\ missing' = missing /\ skipped' = skipped /\ straddled' = straddled
    BY <1>10 DEF Expected
  <2>2. MissingBytes' = MissingBytes
    BY <2>1 DEF MissingBytes
  <2>3. TypeOK'
    BY <1>2, <1>5, <1>6, <2>1 DEF TypeOK
  <2>4. NoByteForgotten'
    BY <1>1, <1>2, <1>3, <1>5, <1>7, <2>1, <2>2 DEF NoByteForgotten
  <2>5. TriedOnce'
    <3>1. \A i \in MissingBytes \cup asked : i < b
      BY <1>1, <1>8, <1>9, <2>1
    <3>2. QED
      BY <1>5, <1>9, <2>1, <2>2, <3>1 DEF TriedOnce
  <2>6. NoFalseHole' /\ SeenBelowNext'
    BY <1>1, <1>2, <1>5, <2>1, <2>2, MissingAreNat
       DEF NoFalseHole, SeenBelowNext, TriedOnce, TypeOK
  <2>7. QED
    BY <2>3, <2>4, <2>5, <2>6
<1>11. CASE Retransmitted(a, b)
  <2>1. /\ a < dataNextRangeStart /\ dataNextRangeStart' = dataNextRangeStart
        /\ missing' = Without(missing, Span(a, b)) /\ skipped' = skipped
        /\ straddled' = (straddled \/ b > dataNextRangeStart)
    BY <1>11 DEF Retransmitted
  <2>2. MissingBytes' = MissingBytes \ Span(a, b)
    BY <2>1 DEF MissingBytes, Without
  <2>3. missing' \subseteq missing
    BY <2>1 DEF Without
  <2>4. TypeOK'
    BY <1>1, <1>2, <1>5, <1>6, <2>1, <2>3 DEF TypeOK
  <2>5. NoByteForgotten'
    BY <1>2, <1>5, <2>1, <2>2 DEF NoByteForgotten
  <2>6. TriedOnce'
    BY <1>5, <2>1, <2>2, <2>3 DEF TriedOnce
  <2>7. NoFalseHole'
    BY <1>5, <2>1, <2>2 DEF NoFalseHole
  <2>8. SeenBelowNext'
    <3>1. CASE straddled \/ b > dataNextRangeStart
      BY <2>1, <3>1 DEF SeenBelowNext
    <3>2. CASE ~straddled /\ ~(b > dataNextRangeStart)
      <4>1. \A i \in seen : i < dataNextRangeStart
        BY <3>2 DEF SeenBelowNext
      <4>2. \A i \in Span(a, b) : i < dataNextRangeStart
        BY <1>1, <1>2, <1>8, <3>2
      <4>3. QED
        BY <1>5, <2>1, <4>1, <4>2 DEF SeenBelowNext
    <3>3. QED
      BY <3>1, <3>2
  <2>9. QED
    BY <2>4, <2>5, <2>6, <2>7, <2>8
<1>12. CASE Jumped(a, b)
  <2>1. /\ a > dataNextRangeStart /\ dataNextRangeStart' = b
        /\ missing' = missing /\ straddled' = straddled
        /\ skipped' = skipped \cup Span(dataNextRangeStart, a)
    BY <1>12 DEF Jumped
  <2>2. MissingBytes' = MissingBytes
    BY <2>1 DEF MissingBytes
  <2>3. TypeOK'
    BY <1>2, <1>4, <1>5, <1>6, <2>1 DEF TypeOK
  <2>4. NoByteForgotten'
    <3> SUFFICES ASSUME NEW i \in Nat, i < dataNextRangeStart'
                 PROVE  i \in seen' \cup MissingBytes' \cup asked' \cup forwarded'
                             \cup skipped'
      BY <1>7 DEF NoByteForgotten
    <3>1. CASE i < dataNextRangeStart
      BY <1>3, <1>5, <2>1, <2>2, <3>1 DEF NoByteForgotten
    <3>2. CASE dataNextRangeStart <= i /\ i < a
      BY <1>4, <2>1, <2>2, <3>2
    <3>3. CASE a <= i /\ i < b
      BY <1>2, <1>5, <3>3
    <3>4. QED
      BY <1>1, <1>8, <2>1, <3>1, <3>2, <3>3
  <2>5. TriedOnce'
    <3>1. \A i \in MissingBytes \cup asked : i < b
      BY <1>1, <1>8, <1>9, <2>1
    <3>2. QED
      BY <1>5, <1>9, <2>1, <2>2, <3>1 DEF TriedOnce
  <2>6. NoFalseHole' /\ SeenBelowNext'
    BY <1>1, <1>2, <1>5, <2>1, <2>2, MissingAreNat
       DEF NoFalseHole, SeenBelowNext, TriedOnce, TypeOK
  <2>7. QED
    BY <2>3, <2>4, <2>5, <2>6
<1>13. CASE LeftHole(a, b)
  <2>1. /\ a > dataNextRangeStart /\ dataNextRangeStart' = b
        /\ missing' = missing \cup (Span(dataNextRangeStart, a) \X {0})
        /\ skipped' = skipped /\ straddled' = straddled
    BY <1>13 DEF LeftHole
  <2>2. MissingBytes' = MissingBytes \cup Span(dataNextRangeStart, a)
    <3>1. {m[1] : m \in Span(dataNextRangeStart, a) \X {0}}
            = Span(dataNextRangeStart, a)
      BY ProjectPairs
    <3>2. MissingBytes' = MissingBytes
            \cup {m[1] : m \in Span(dataNextRangeStart, a) \X {0}}
      BY <2>1, Zenon DEF MissingBytes
    <3>3. QED
      BY <3>1, <3>2
  <2>3. TypeOK'
    <3>1. Span(dataNextRangeStart, a) \X {0} \subseteq Nat \X Nat
      BY <1>4
    <3>2. missing' \in SUBSET (Nat \X Nat)
      BY <1>2, <2>1, <3>1 DEF TypeOK
    <3>3. QED
      BY <1>2, <1>5, <1>6, <2>1, <3>2 DEF TypeOK
  <2>4. NoByteForgotten'
    <3> SUFFICES ASSUME NEW i \in Nat, i < dataNextRangeStart'
                 PROVE  i \in seen' \cup MissingBytes' \cup asked' \cup forwarded'
                             \cup skipped'
      BY <1>7 DEF NoByteForgotten
    <3>1. CASE i < dataNextRangeStart
      BY <1>3, <1>5, <2>1, <2>2, <3>1 DEF NoByteForgotten
    <3>2. CASE dataNextRangeStart <= i /\ i < a
      BY <1>4, <2>1, <2>2, <3>2
    <3>3. CASE a <= i /\ i < b
      BY <1>2, <1>5, <3>3
    <3>4. QED
      BY <1>1, <1>8, <2>1, <3>1, <3>2, <3>3
  <2>5. TriedOnce'
    <3>1. \A i \in MissingBytes' \cup asked' : i < dataNextRangeStart'
      <4>1. \A i \in MissingBytes \cup asked : i < b
        BY <1>1, <1>8, <1>9, <2>1
      <4>2. \A i \in Span(dataNextRangeStart, a) : i < b
        BY <1>1, <1>4
      <4>3. QED
        BY <1>5, <2>1, <2>2, <4>1, <4>2
    <3>2. ASSUME NEW m \in missing', NEW n \in missing', m[1] = n[1]
          PROVE  m = n
      <4>1. CASE m \in missing /\ n \in missing
        BY <3>2, <4>1 DEF TriedOnce
      <4>2. CASE m \notin missing /\ n \notin missing
        BY <2>1, <3>2, <4>2
      <4>3. CASE (m \in missing) # (n \in missing)
        <5>1. \A k \in missing : k[1] \in Nat /\ k[1] < dataNextRangeStart
          BY <1>2, MissingAreNat DEF TriedOnce, MissingBytes
        <5>2. \A k \in missing' \ missing : k[1] \in Nat /\ k[1] >= dataNextRangeStart
          BY <1>4, <2>1
        <5>3. QED
          BY <1>2, <3>2, <4>3, <5>1, <5>2 DEF TypeOK
      <4>4. QED
        BY <4>1, <4>2, <4>3
    <3>3. MissingBytes' \cap asked' = {}
      BY <1>2, <1>4, <1>5, <2>1, <2>2 DEF TriedOnce, TypeOK
    <3>4. QED
      BY <3>1, <3>2, <3>3 DEF TriedOnce
  <2>6. NoFalseHole' /\ SeenBelowNext'
    <3>1. CASE straddled
      BY <2>1, <3>1 DEF NoFalseHole, SeenBelowNext
    <3>2. CASE ~straddled
      <4>1. \A i \in seen' : i < dataNextRangeStart'
        BY <1>1, <1>2, <1>5, <2>1, <3>2 DEF SeenBelowNext, TypeOK
      <4>2. MissingBytes' \cap seen' = {}
        BY <1>1, <1>2, <1>4, <1>5, <2>1, <2>2, <3>2, MissingAreNat
           DEF NoFalseHole, SeenBelowNext, TriedOnce, TypeOK
      <4>3. QED
        BY <4>1, <4>2 DEF NoFalseHole, SeenBelowNext
    <3>3. QED
      BY <3>1, <3>2
  <2>7. QED
    BY <2>3, <2>4, <2>5, <2>6
<1>14. QED
  BY <1>10, <1>11, <1>12, <1>13 DEF Arrive, DetectDataHole

(***************************************************************************)
(* Ageing the holes changes no byte of them.                               *)
(***************************************************************************)
LEMMA TickIInv ==
  ASSUME IInv, Tick
  PROVE  IInv'
<1> USE DEF IInv
<1>1. /\ missing' = {<<m[1], m[2] + 1>> : m \in missing}
      /\ UNCHANGED <<dataNextRangeStart, up, seen, asked, forwarded, skipped, straddled>>
  BY DEF Tick
<1>2. MissingBytes' = MissingBytes
  <2>1. ASSUME NEW m \in missing
        PROVE  <<m[1], m[2] + 1>> \in missing' /\ <<m[1], m[2] + 1>>[1] = m[1]
    BY <1>1
  <2>2. ASSUME NEW n \in missing'
        PROVE  n[1] \in MissingBytes
    <3>1. PICK m \in missing : n = <<m[1], m[2] + 1>>
      BY <1>1
    <3>2. n[1] = m[1]
      BY <3>1
    <3>3. QED
      BY <3>2 DEF MissingBytes
  <2>3. QED
    BY <2>1, <2>2 DEF MissingBytes
<1>3. TypeOK'
  BY <1>1, MissingAreNat DEF TypeOK
<1>4. NoByteForgotten'
  BY <1>1, <1>2 DEF NoByteForgotten
<1>5. TriedOnce'
  <2>1. ASSUME NEW m \in missing', NEW n \in missing', m[1] = n[1]
        PROVE  m = n
    <3>1. PICK k \in missing, l \in missing :
            m = <<k[1], k[2] + 1>> /\ n = <<l[1], l[2] + 1>>
      BY <1>1
    <3>2. k = l
      BY <2>1, <3>1 DEF TriedOnce
    <3>3. QED
      BY <3>1, <3>2
  <2>2. QED
    BY <1>1, <1>2, <2>1 DEF TriedOnce
<1>6. NoFalseHole' /\ SeenBelowNext'
  BY <1>1, <1>2 DEF NoFalseHole, SeenBelowNext
<1>7. QED
  BY <1>3, <1>4, <1>5, <1>6

(***************************************************************************)
(* A flush moves bytes from the holes to the bytes asked for.              *)
(***************************************************************************)
LEMMA FlushIInv ==
  ASSUME IInv, NEW F \in SUBSET Nat, Flush(F)
  PROVE  IInv'
<1> USE DEF IInv
<1> DEFINE open == Without(missing, F)
           new == {m[1] : m \in Ripe(open)}
<1>1. /\ missing' = open \ Ripe(open)
      /\ asked' = asked \cup new
      /\ forwarded' = forwarded \cup F
      /\ up' \in BOOLEAN
      /\ UNCHANGED <<dataNextRangeStart, seen, skipped, straddled>>
  BY DEF Flush
<1>2. open \subseteq missing /\ Ripe(open) \subseteq open
  BY DEF Without, Ripe
<1>3. /\ missing' \subseteq missing
      /\ MissingBytes' \subseteq MissingBytes
      /\ new \subseteq MissingBytes
  BY <1>1, <1>2 DEF MissingBytes
<1>4. \A i \in MissingBytes : i \in MissingBytes' \/ i \in new \/ i \in F
  BY <1>1 DEF MissingBytes, Without
<1>5. TypeOK'
  BY <1>1, <1>3, MissingAreNat DEF TypeOK
<1>6. NoByteForgotten'
  BY <1>1, <1>4 DEF NoByteForgotten
<1>7. MissingBytes' \cap new = {}
  <2> SUFFICES ASSUME NEW m \in missing', NEW n \in Ripe(open), m[1] = n[1]
               PROVE  FALSE
    BY DEF MissingBytes
  <2>1. m = n
    BY <1>1, <1>2 DEF TriedOnce
  <2>2. QED
    BY <1>1, <2>1
<1>8. TriedOnce'
  BY <1>1, <1>3, <1>7 DEF TriedOnce
<1>9. NoFalseHole' /\ SeenBelowNext'
  BY <1>1, <1>3 DEF NoFalseHole, SeenBelowNext
<1>10. QED
  BY <1>5, <1>6, <1>8, <1>9

(***************************************************************************)
(* Every step keeps the invariant.                                         *)
(***************************************************************************)
LEMMA NextIInv == IInv /\ [Next]_vars => IInv'
<1> SUFFICES ASSUME IInv, [Next]_vars
             PROVE  IInv'
  OBVIOUS
<1>1. ASSUME NEW a \in Bytes, NEW b \in Bytes, Arrive(a, b)
      PROVE  IInv'
  BY <1>1, ArriveIInv
<1>2. ASSUME NEW F \in SUBSET Bytes, Flush(F)
      PROVE  IInv'
  <2>1. F \in SUBSET Nat
    BY HoleTrackerAssumption
  <2>2. QED
    BY <1>2, <2>1, FlushIInv
<1>3. CASE Tick
  BY <1>3, TickIInv
<1>4. CASE UNCHANGED vars
  BY <1>4 DEF vars, IInv, TypeOK, NoByteForgotten, TriedOnce, NoFalseHole,
              SeenBelowNext, MissingBytes
<1>5. QED
  BY <1>1, <1>2, <1>3, <1>4 DEF Next

(***************************************************************************)
(* The inductive invariant holds in every reachable state.                 *)
(***************************************************************************)
THEOREM Invariance == Spec => []IInv
BY InitIInv, NextIInv, PTL DEF Spec

(***************************************************************************)
(* The variables keep their types, whatever arrives.                       *)
(***************************************************************************)
THEOREM TypeCorrect == Spec => []TypeOK
<1>1. IInv => TypeOK
  BY DEF IInv
<1>2. QED
  BY <1>1, Invariance, PTL

(***************************************************************************)
(* detectDataHole and flushDataHoles lose track of no byte.                *)
(***************************************************************************)
THEOREM NothingForgotten == Spec => []NoByteForgotten
<1>1. IInv => NoByteForgotten
  BY DEF IInv
<1>2. QED
  BY <1>1, Invariance, PTL

(***************************************************************************)
(* A byte's hole is asked for at most once.                                *)
(***************************************************************************)
THEOREM HolesTriedOnce == Spec => []TriedOnce
<1>1. IInv => TriedOnce
  BY DEF IInv
<1>2. QED
  BY <1>1, Invariance, PTL

(***************************************************************************)
(* Without a straddling range, no hole covers a byte already covered.      *)
(***************************************************************************)
THEOREM HolesAreReal == Spec => []NoFalseHole
<1>1. IInv => NoFalseHole
  BY DEF IInv
<1>2. QED
  BY <1>1, Invariance, PTL

(***************************************************************************)
(* dataNextRangeStart never moves back, and a byte enters the holes only   *)
(* from above it.                                                          *)
(***************************************************************************)
THEOREM FrontierOnlyGrows == Spec => FrontierGrows
<1> DEFINE Grows == /\ dataNextRangeStart' >= dataNextRangeStart
                    /\ \A i \in {m[1] : m \in missing'} \ MissingBytes :
                         i >= dataNextRangeStart
<1>1. IInv /\ [Next]_vars => [Grows]_vars
  <2> SUFFICES ASSUME IInv, Next
               PROVE  Grows
    OBVIOUS
  <2>0. TypeOK
    BY DEF IInv
  <2>1. ASSUME NEW a \in Bytes, NEW b \in Bytes, Arrive(a, b)
        PROVE  Grows
    <3>1. a \in Nat /\ b \in Nat /\ a < b
      BY <2>1, HoleTrackerAssumption DEF Arrive
    <3>2. dataNextRangeStart' >= dataNextRangeStart
      BY <2>0, <2>1, <3>1
         DEF Arrive, DetectDataHole, Expected, Retransmitted, Jumped, LeftHole, TypeOK
    <3>3. \A i \in {m[1] : m \in missing'} \ MissingBytes : i >= dataNextRangeStart
      <4>1. CASE LeftHole(a, b)
        <5>1. \A i \in Span(dataNextRangeStart, a) : i >= dataNextRangeStart
          BY <2>0, <3>1 DEF Span, TypeOK
        <5>2. QED
          BY <4>1, <5>1 DEF LeftHole, MissingBytes
      <4>2. CASE Expected(a, b) \/ Retransmitted(a, b) \/ Jumped(a, b)
        <5>1. missing' \subseteq missing
          BY <4>2 DEF Expected, Retransmitted, Jumped, Without
        <5>2. QED
          BY <5>1 DEF MissingBytes
      <4>3. QED
        BY <2>1, <4>1, <4>2 DEF Arrive, DetectDataHole
    <3>4. QED
      BY <3>2, <3>3
  <2>2. ASSUME NEW F, Flush(F)
        PROVE  Grows
    <3>1. missing' \subseteq missing /\ dataNextRangeStart' = dataNextRangeStart
      BY <2>2 DEF Flush, Without
    <3>2. QED
      BY <2>0, <3>1 DEF MissingBytes, TypeOK
  <2>3. CASE Tick
    BY <2>0, <2>3 DEF Tick, MissingBytes, TypeOK
  <2>4. QED
    BY <2>1, <2>2, <2>3 DEF Next
<1>2. QED
  BY <1>1, Invariance, PTL DEF Spec, FrontierGrows
====
