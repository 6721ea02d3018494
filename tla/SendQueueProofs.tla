---- MODULE SendQueueProofs ----
(***************************************************************************)
(* The byte account of sndQueue, the datagrams and the token bucket are    *)
(* sound for every segment size, rate and delay of the update thread.      *)
(***************************************************************************)
EXTENDS SendQueue, TLAPS

\* No segment lies beyond what was queued: sndQueueBytes stays a Nat.
WithinQueued ==
  \A i \in 1..Len(sndQueue) : sndQueue[i].at + Cost(sndQueue[i]) <= queued

QueueInv == TypeOK /\ BytesAccount /\ WithinQueued

IInv == QueueInv /\ DatagramsWhole /\ BucketBound

LEMMA SmallerBound ==
  ASSUME NEW x \in Nat, NEW y \in Nat
  PROVE  Smaller(x, y) \in Nat /\ Smaller(x, y) <= x /\ Smaller(x, y) <= y
BY DEF Smaller

LEMMA InitHolds == Init => IInv
<1> SUFFICES ASSUME Init  PROVE IInv
  OBVIOUS
<1>1. MSS \in Nat /\ MSS < MTU /\ MTU \in Nat
  BY SendQueueAssumption DEF MTU
<1>2. sndQueue = <<>> /\ sndQueue \in Seq(Segments) /\ Len(sndQueue) = 0
  BY DEF Init
<1>3. TypeOK
  <2>1. pc \in Phases /\ flushed \in BOOLEAN /\ rmtSendRate \in Rates
    BY DEF Init, Phases
  <2>2. /\ rest \in Nat /\ sndQueueBytes \in Nat /\ queued \in Nat /\ left \in Nat
        /\ onWire \in Nat /\ dataOutputLimit \in Nat /\ newOutput \in Nat
        /\ filled \in Nat /\ due \in Int /\ sinceTmp \in Nat /\ sinceFlush \in Nat
    BY <1>1 DEF Init
  <2> QED  BY <1>2, <2>1, <2>2 DEF TypeOK
<1>4. BytesAccount /\ WithinQueued
  BY <1>2 DEF Init, BytesAccount, WithinQueued
<1>5. DatagramsWhole /\ BucketBound
  BY <1>1 DEF Init, DatagramsWhole, BucketBound
<1> QED  BY <1>3, <1>4, <1>5 DEF IInv, QueueInv

\* A segment at the end keeps the account, whoever queues it.
LEMMA EnqueueKeeps ==
  ASSUME QueueInv, NEW len \in 0..MSS, Enqueue(len),
         UNCHANGED <<rmtSendRate, bucket, times>>, pc' \in Phases, rest' \in Nat
  PROVE  QueueInv'
<1> DEFINE seg == [len |-> len, at |-> queued]
<1>1. /\ seg \in Segments /\ sndQueue \in Seq(Segments)
      /\ sndQueue' = Append(sndQueue, seg)
      /\ Len(sndQueue) \in Nat /\ queued \in Nat /\ left \in Nat
      /\ sndQueueBytes \in Nat /\ len \in Nat
      /\ queued' = queued + Overhead + len /\ left' = left
      /\ sndQueueBytes' = sndQueueBytes + Overhead + len
      /\ Overhead \in Nat
  BY SendQueueAssumption
  DEF QueueInv, TypeOK, Enqueue, PushBack, Segments, bucket
<1>2. TypeOK'
  BY <1>1, SendQueueAssumption DEF QueueInv, TypeOK, bucket, times
<1>3. /\ Len(sndQueue') = Len(sndQueue) + 1
      /\ \A i \in 1..Len(sndQueue) : sndQueue'[i] = sndQueue[i]
      /\ sndQueue'[Len(sndQueue) + 1] = seg
      /\ sndQueue' # <<>>
  BY <1>1
<1>4. \A i \in 1..Len(sndQueue) :
         sndQueue[i] \in Segments /\ sndQueue[i].at \in Nat /\ Cost(sndQueue[i]) \in Nat
  <2> SUFFICES ASSUME NEW i \in 1..Len(sndQueue)
               PROVE  /\ sndQueue[i] \in Segments /\ sndQueue[i].at \in Nat
                      /\ Cost(sndQueue[i]) \in Nat
    OBVIOUS
  <2>1. sndQueue[i] \in Segments
    BY <1>1
  <2>2. sndQueue[i].at \in Nat /\ sndQueue[i].len \in Nat
    BY <2>1, SendQueueAssumption DEF Segments
  <2> QED  BY <1>1, <2>1, <2>2 DEF Cost
<1>5. seg.at = queued /\ Cost(seg) = Overhead + len
  BY DEF Cost
<1>6. WithinQueued'
  BY <1>1, <1>3, <1>4, <1>5 DEF QueueInv, WithinQueued, Cost
<1>7. \A i \in 1..Len(sndQueue') :
         (sndQueue[i].at + Cost(sndQueue[i]) = Follows(i))'
  <2> SUFFICES ASSUME NEW i \in 1..Len(sndQueue')
               PROVE  sndQueue'[i].at + Cost(sndQueue'[i]) = Follows(i)'
    BY DEF Cost
  <2>1. CASE i = Len(sndQueue) + 1
    BY <2>1, <1>1, <1>3, <1>5 DEF Follows
  <2>2. CASE i = Len(sndQueue)
    BY <2>2, <1>1, <1>3, <1>4, <1>5 DEF Follows, QueueInv, BytesAccount
  <2>3. CASE i < Len(sndQueue)
    <3>1. i \in 1..Len(sndQueue) /\ i + 1 \in 1..Len(sndQueue)
      BY <2>3, <1>1
    <3> QED  BY <3>1, <2>3, <1>1, <1>3 DEF Follows, QueueInv, BytesAccount
  <2> QED  BY <2>1, <2>2, <2>3, <1>1, <1>3
<1>8. left' = sndQueue'[1].at
  <2>1. CASE sndQueue = <<>>
    BY <2>1, <1>1, <1>3, <1>5 DEF QueueInv, BytesAccount
  <2>2. CASE sndQueue # <<>>
    BY <2>2, <1>1, <1>3 DEF QueueInv, BytesAccount
  <2> QED  BY <2>1, <2>2
<1>9. sndQueueBytes' = queued' - left'
  BY <1>1 DEF QueueInv, BytesAccount
<1>10. BytesAccount'
  BY <1>3, <1>7, <1>8, <1>9 DEF BytesAccount
<1> QED  BY <1>2, <1>6, <1>10 DEF QueueInv

\* The head of a queue: its cost is a datagram's at most, and what follows it.
LEMMA HeadSegment ==
  ASSUME QueueInv, sndQueue # <<>>
  PROVE  /\ Head(sndQueue) = sndQueue[1] /\ sndQueue[1] \in Segments
         /\ Cost(Head(sndQueue)) \in Nat /\ Cost(Head(sndQueue)) <= MTU
         /\ left + Cost(Head(sndQueue)) = Follows(1)
         /\ left + Cost(Head(sndQueue)) <= queued
         /\ Len(sndQueue) \in Nat /\ 1 \in 1..Len(sndQueue)
<1>1. /\ sndQueue \in Seq(Segments) /\ Len(sndQueue) \in Nat
      /\ 1 \in 1..Len(sndQueue) /\ Head(sndQueue) = sndQueue[1]
  BY DEF QueueInv, TypeOK
<1>2. sndQueue[1] \in Segments
  BY <1>1
<1>3. Cost(sndQueue[1]) \in Nat /\ Cost(sndQueue[1]) <= MTU
  BY <1>2, SendQueueAssumption DEF Segments, Cost, MTU
<1>4. /\ left = sndQueue[1].at
      /\ sndQueue[1].at + Cost(sndQueue[1]) = Follows(1)
      /\ sndQueue[1].at + Cost(sndQueue[1]) <= queued
  BY <1>1 DEF QueueInv, BytesAccount, WithinQueued
<1> QED  BY <1>1, <1>2, <1>3, <1>4

LEMMA SendSegmentKeeps ==
  ASSUME IInv, SendSegment
  PROVE  IInv'
<1> DEFINE cost == Cost(Head(sndQueue))
<1>1. /\ sndQueue # <<>> /\ dataOutputLimit >= cost
      /\ sndQueue' = Tail(sndQueue) /\ queued' = queued /\ left' = left + cost
      /\ sndQueueBytes' = sndQueueBytes - cost
      /\ dataOutputLimit' = dataOutputLimit - cost
      /\ pc = "data" /\ pc' = "data"
  BY DEF SendSegment, Affordable
<1>2. QueueInv
  BY DEF IInv
<1>3. /\ Head(sndQueue) = sndQueue[1] /\ cost \in Nat /\ cost <= MTU
      /\ left + cost = Follows(1) /\ left + cost <= queued
      /\ Len(sndQueue) \in Nat /\ 1 \in 1..Len(sndQueue)
  BY <1>1, <1>2, HeadSegment
<1>4. /\ sndQueue \in Seq(Segments) /\ dataOutputLimit \in Nat /\ filled \in Nat
      /\ left \in Nat /\ onWire \in Nat /\ queued \in Nat /\ sndQueueBytes = queued - left
      /\ MTU \in Nat
  BY <1>2, SendQueueAssumption DEF QueueInv, TypeOK, BytesAccount, MTU
<1>5. /\ Len(Tail(sndQueue)) = Len(sndQueue) - 1
      /\ Tail(sndQueue) \in Seq(Segments)
      /\ \A i \in 1..(Len(sndQueue) - 1) : Tail(sndQueue)[i] = sndQueue[i + 1]
  BY <1>1, <1>3, <1>4
<1>6. /\ filled' \in Nat /\ onWire' \in Nat /\ filled' <= MTU
      /\ left' = onWire' + filled'
  <2>1. /\ left = onWire + filled /\ left' = left + cost
        /\ cost \in Nat /\ cost <= MTU /\ filled \in Nat /\ onWire \in Nat
    BY <1>1, <1>3, <1>4 DEF IInv, DatagramsWhole
  <2> HIDE DEF cost
  <2>2. CASE FitsDatagram(Head(sndQueue))
    <3>1. filled' = filled + cost /\ onWire' = onWire /\ filled + cost <= MTU
      BY <2>2 DEF SendSegment, FitsDatagram, cost
    <3> QED  BY <3>1, <2>1
  <2>3. CASE ~FitsDatagram(Head(sndQueue))
    <3>1. filled' = cost /\ onWire' = onWire + filled
      BY <2>3 DEF SendSegment, cost
    <3> QED  BY <3>1, <2>1
  <2> QED  BY <2>2, <2>3
<1>7. TypeOK'
  <2>1. /\ sndQueue' \in Seq(Segments) /\ left' \in Nat
        /\ dataOutputLimit' \in Nat /\ sndQueueBytes' \in Nat
    BY <1>1, <1>3, <1>4, <1>5
  <2> QED  BY <1>2, <1>6, <2>1 DEF SendSegment, QueueInv, TypeOK, times
<1>8. WithinQueued'
  <2> SUFFICES ASSUME NEW i \in 1..Len(sndQueue')
               PROVE  sndQueue'[i].at + Cost(sndQueue'[i]) <= queued'
    BY DEF WithinQueued, Cost
  <2> QED  BY <1>1, <1>2, <1>3, <1>5 DEF QueueInv, WithinQueued
<1>9. BytesAccount'
  <2>1. sndQueueBytes' = queued' - left'
    BY <1>1, <1>3, <1>4
  <2>2. ASSUME NEW i \in 1..Len(sndQueue')
        PROVE  sndQueue'[i].at + Cost(sndQueue'[i]) = Follows(i)'
    <3>1. /\ i \in Nat /\ i + 1 \in 1..Len(sndQueue)
          /\ sndQueue'[i] = sndQueue[i + 1]
          /\ i < Len(sndQueue') <=> i + 1 < Len(sndQueue)
      BY <1>1, <1>3, <1>5
    <3>2. sndQueue[i + 1].at + Cost(sndQueue[i + 1]) = Follows(i + 1)
      BY <3>1, <1>2 DEF QueueInv, BytesAccount
    <3>3. Follows(i)' = Follows(i + 1)
      <4>1. CASE i + 1 < Len(sndQueue)
        <5>1. i + 1 \in 1..(Len(sndQueue) - 1)
          BY <4>1, <3>1, <1>3
        <5> QED  BY <5>1, <4>1, <3>1, <1>1, <1>5 DEF Follows
      <4>2. CASE ~(i + 1 < Len(sndQueue))
        BY <4>2, <3>1, <1>1 DEF Follows
      <4> QED  BY <4>1, <4>2
    <3> QED  BY <3>1, <3>2, <3>3
  <2>3. left' = IF sndQueue' = <<>> THEN queued' ELSE sndQueue'[1].at
    <3>1. CASE Len(sndQueue) = 1
      BY <3>1, <1>1, <1>3, <1>5 DEF Follows
    <3>2. CASE Len(sndQueue) # 1
      <4>1. 1 \in 1..(Len(sndQueue) - 1) /\ sndQueue' # <<>>
        <5>1. Len(sndQueue') # 0 /\ 1 \in 1..(Len(sndQueue) - 1)
          BY <3>2, <1>1, <1>3, <1>5
        <5> QED  BY <5>1
      <4> QED  BY <4>1, <3>2, <1>1, <1>3, <1>5 DEF Follows
    <3> QED  BY <3>1, <3>2
  <2> QED  BY <2>1, <2>2, <2>3 DEF BytesAccount, Cost
<1>10. DatagramsWhole' /\ BucketBound'
  BY <1>1, <1>6 DEF DatagramsWhole, BucketBound, MTU
<1> QED  BY <1>7, <1>8, <1>9, <1>10 DEF IInv, QueueInv

LEMMA EndFlushKeeps ==
  ASSUME IInv, EndFlush
  PROVE  IInv'
<1>1. /\ QueueInv /\ dataOutputLimit \in Nat /\ newOutput \in Nat /\ MTU \in Nat
      /\ filled \in Nat /\ onWire \in Nat /\ left = onWire + filled
  BY SendQueueAssumption DEF IInv, QueueInv, TypeOK, DatagramsWhole, MTU
<1>2. /\ LeftOver \in Nat
      /\ LeftOver <= newOutput \/ LeftOver < MTU
  <2>1. CASE ReachLimit
    <3>1. sndQueue # <<>> /\ dataOutputLimit < Cost(Head(sndQueue))
      BY <2>1, <1>1, HeadSegment DEF ReachLimit, Affordable
    <3>2. Cost(Head(sndQueue)) \in Nat /\ Cost(Head(sndQueue)) <= MTU
      BY <3>1, <1>1, HeadSegment
    <3> QED  BY <3>1, <3>2, <2>1, <1>1 DEF LeftOver
  <2>2. CASE ~ReachLimit
    BY <2>2, <1>1, SmallerBound DEF LeftOver
  <2> QED  BY <2>1, <2>2
<1>3. TypeOK'
  BY <1>1, <1>2 DEF EndFlush, queue, QueueInv, TypeOK, Phases
<1>4. BytesAccount' /\ WithinQueued'
  BY <1>1 DEF EndFlush, queue, QueueInv, BytesAccount, WithinQueued, Cost, Follows
<1>5. DatagramsWhole'
  BY <1>1 DEF EndFlush, DatagramsWhole, MTU
<1>6. BucketBound'
  BY <1>2 DEF EndFlush, BucketBound, MTU
<1> QED  BY <1>3, <1>4, <1>5, <1>6 DEF IInv, QueueInv

\* The steps that leave sndQueue alone.
LEMMA OthersKeep ==
  ASSUME IInv,
         \/ \E rate \in Rates, len \in 0..MaxQueued : Interest(rate, len)
         \/ \E len \in 1..MaxQueued : AskForHole(len)
         \/ StartFlush \/ Refill \/ Tick \/ UNCHANGED vars
  PROVE  IInv'
<1>1. UNCHANGED <<sndQueue, sndQueueBytes, queued, left, onWire, filled>>
  BY DEF Interest, AskForHole, StartFlush, Refill, Tick, vars, queue, bucket
<1>2. BytesAccount' /\ WithinQueued'
  BY <1>1 DEF IInv, QueueInv, BytesAccount, WithinQueued, Cost, Follows
<1>3. Refill => newOutput' \in Nat /\ dataOutputLimit' \in Nat
  <2> SUFFICES ASSUME Refill  PROVE newOutput' \in Nat /\ dataOutputLimit' \in Nat
    OBVIOUS
  <2>1. /\ rmtSendRate \in Nat /\ sinceFlush \in Nat /\ Interval \in Nat
        /\ dataOutputLimit \in Nat
    BY SendQueueAssumption DEF IInv, QueueInv, TypeOK
  <2>2. rmtSendRate * sinceFlush \in Nat /\ rmtSendRate * Interval \in Nat
    BY <2>1
  <2> QED  BY <2>1, <2>2 DEF Refill
<1>4. TypeOK'
  <2>1. /\ pc \in Phases /\ rest \in Nat /\ rmtSendRate \in Rates
        /\ dataOutputLimit \in Nat /\ newOutput \in Nat
        /\ due \in Int /\ sinceTmp \in Nat /\ sinceFlush \in Nat
        /\ flushed \in BOOLEAN /\ Interval \in Nat
    BY SendQueueAssumption DEF IInv, QueueInv, TypeOK
  <2>2. /\ sndQueue' \in Seq(Segments) /\ sndQueueBytes' \in Nat /\ queued' \in Nat
        /\ left' \in Nat /\ onWire' \in Nat /\ filled' \in Nat
    BY <1>1 DEF IInv, QueueInv, TypeOK
  <2> DEFINE Others ==
        /\ pc \in Phases /\ rest \in Nat /\ rmtSendRate \in Rates
        /\ dataOutputLimit \in Nat /\ newOutput \in Nat
        /\ due \in Int /\ sinceTmp \in Nat /\ sinceFlush \in Nat
        /\ flushed \in BOOLEAN
  <2>3. ASSUME NEW rate \in Rates, NEW len \in 0..MaxQueued, Interest(rate, len)
        PROVE  Others'
    BY <2>1, <2>3 DEF Interest, bucket, times, Phases
  <2>4. ASSUME NEW len \in 1..MaxQueued, AskForHole(len)  PROVE Others'
    BY <2>1, <2>4 DEF AskForHole, bucket, times
  <2>5. ASSUME StartFlush  PROVE Others'
    BY <2>1, <2>5 DEF StartFlush, queue, bucket, Phases
  <2>6. ASSUME Refill  PROVE Others'
    BY <1>3, <2>1, <2>6 DEF Refill, queue, times, Phases
  <2>7. ASSUME Tick  PROVE Others'
    BY <2>1, <2>7 DEF Tick, queue, bucket
  <2>8. ASSUME UNCHANGED vars  PROVE Others'
    BY <2>1, <2>8 DEF vars, queue, bucket, times
  <2>9. Others'
    BY <2>3, <2>4, <2>5, <2>6, <2>7, <2>8
  <2> QED  BY <2>2, <2>9 DEF TypeOK
<1>5. DatagramsWhole' /\ BucketBound'
  BY <1>1 DEF IInv, DatagramsWhole, BucketBound, Interest, AskForHole, StartFlush,
              Refill, Tick, vars, queue, bucket, times, MTU
<1> QED  BY <1>2, <1>4, <1>5 DEF IInv, QueueInv

LEMMA NextKeeps == IInv /\ [Next]_vars => IInv'
<1> SUFFICES ASSUME IInv, [Next]_vars  PROVE IInv'
  OBVIOUS
<1>1. ASSUME NEW len \in 0..MSS, Forward(len)  PROVE IInv'
  <2>1. /\ Enqueue(len) /\ pc' = pc /\ pc = "free" /\ rest' = rest
        /\ UNCHANGED <<rmtSendRate, bucket, times>>
    BY <1>1 DEF Forward
  <2>2. QueueInv /\ pc' \in Phases /\ rest' \in Nat
    BY <2>1 DEF IInv, QueueInv, TypeOK
  <2>3. QueueInv'
    BY <2>1, <2>2, EnqueueKeeps
  <2> QED  BY <2>1, <2>3 DEF IInv, DatagramsWhole, BucketBound, bucket, MTU
<1>2. ASSUME AnswerPiece  PROVE IInv'
  <2>1. /\ Enqueue(Smaller(rest, MSS)) /\ pc \in {"input", "holes"}
        /\ UNCHANGED <<rmtSendRate, bucket, times>>
        /\ rest' = rest - Smaller(rest, MSS) /\ pc' \in {"free", "input", "holes"}
    BY <1>2 DEF AnswerPiece
  <2>2. /\ QueueInv /\ Smaller(rest, MSS) \in 0..MSS
        /\ pc' \in Phases /\ rest' \in Nat
    <3>1. QueueInv /\ rest \in Nat /\ MSS \in Nat
      BY SendQueueAssumption DEF IInv, QueueInv, TypeOK
    <3>2. /\ Smaller(rest, MSS) \in Nat /\ Smaller(rest, MSS) <= rest
          /\ Smaller(rest, MSS) <= MSS
      BY <3>1, SmallerBound
    <3> QED  BY <2>1, <3>1, <3>2 DEF Phases
  <2>3. QueueInv'
    BY <2>1, <2>2, EnqueueKeeps
  <2> QED  BY <2>1, <2>3 DEF IInv, DatagramsWhole, BucketBound, bucket, MTU
<1> QED  BY <1>1, <1>2, SendSegmentKeeps, EndFlushKeeps, OthersKeep DEF Next

(***************************************************************************)
(* The account of sndQueue, the datagrams and the bucket, for every        *)
(* segment size, rate and delay of the update thread.                      *)
(***************************************************************************)
THEOREM SendQueueInvariance == Spec => []IInv
BY InitHolds, NextKeeps, PTL DEF Spec

(***************************************************************************)
(* The counters stay natural numbers: the unsigned comparison of flushData *)
(* never sees a bucket below zero.                                         *)
(***************************************************************************)
THEOREM SendQueueTypeCorrect == Spec => []TypeOK
<1>1. IInv => TypeOK
  BY DEF IInv, QueueInv
<1> QED  BY <1>1, SendQueueInvariance, PTL

(***************************************************************************)
(* sndQueueBytes is the length of what waits in sndQueue.                  *)
(***************************************************************************)
THEOREM BytesAgree == Spec => []BytesAccount
<1>1. IInv => BytesAccount
  BY DEF IInv, QueueInv
<1> QED  BY <1>1, SendQueueInvariance, PTL

(***************************************************************************)
(* No datagram exceeds INTCP_MTU and no byte is lost in tmpBuffer.         *)
(***************************************************************************)
THEOREM DatagramsFit == Spec => []DatagramsWhole
<1>1. IInv => DatagramsWhole
  BY DEF IInv
<1> QED  BY <1>1, SendQueueInvariance, PTL

(***************************************************************************)
(* No session saves up more than one flush's rate or one datagram.         *)
(***************************************************************************)
THEOREM BucketBounded == Spec => []BucketBound
<1>1. IInv => BucketBound
  BY DEF IInv
<1> QED  BY <1>1, SendQueueInvariance, PTL
====
