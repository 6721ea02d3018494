---- MODULE SendQueue ----
(***************************************************************************)
(* The sending half of a session (IntcpTransCB): segments for the next     *)
(* node wait in sndQueue; every flush of the update thread adds to a token *)
(* bucket what the neighbour's interests allow and packs the head of the   *)
(* queue into datagrams.  The receive thread and the update thread take    *)
(* the session's lock; what one does while it holds it is a sequence of    *)
(* steps here, with the clock running.                                     *)
(*                                                                         *)
(* Times are relative to now and only as late as MaxGap.  The clock of the *)
(* machine does not jump back.                                             *)
(***************************************************************************)
EXTENDS Integers, Sequences

CONSTANTS
  MSS,        \* INTCP_MSS
  Overhead,   \* INTCP_OVERHEAD: a segment's header
  Interval,   \* INTCP_UPDATE_INTERVAL, in clock steps
  Rates,      \* the values of rmtSendRate, in bytes per clock step
  MaxGap,     \* bound: how late the update thread runs, in clock steps
  MaxQueued   \* bound: the bytes ever queued

ASSUME SendQueueAssumption ==
  /\ MSS \in Nat \ {0}
  /\ Overhead \in Nat \ {0}
  /\ Interval \in Nat \ {0}
  /\ Rates \subseteq Nat \ {0}
  /\ MaxGap \in Nat
  /\ MaxQueued \in Nat

MTU == MSS + Overhead

VARIABLES
  pc,               \* who holds the lock, and where: see Phases
  rest,             \* parseInt: what is left of the cached part of an interest
  sndQueue,         \* the segments: payload, and (history) their place in all bytes queued
  sndQueueBytes,
  rmtSendRate,
  dataOutputLimit,  \* the token bucket
  newOutput,        \* flushData: what this flush added to it
  filled,           \* flushData: the bytes in tmpBuffer, sentEnd - tmpBuffer
  due,              \* now - nextFlushTs
  sinceTmp,         \* flush: now - tmp, the time it read at its start
  sinceFlush,       \* now - lastFlushTs
  flushed,          \* lastFlushTs # 0
  queued,           \* history: bytes ever queued
  left,             \* history: bytes that left sndQueue
  onWire            \* history: bytes given to udpSend

queue == <<rest, sndQueue, sndQueueBytes, queued>>
bucket == <<dataOutputLimit, newOutput, filled, left, onWire>>
times == <<due, sinceTmp, sinceFlush, flushed>>
vars == <<pc, queue, rmtSendRate, bucket, times>>

\* "free": nobody holds the lock; "input": the receive thread answers an
\* interest; "holes", "data": the update thread before and in flushData.
Phases == {"free", "input", "holes", "data"}

Cost(seg) == Overhead + seg.len

Smaller(x, y) == IF x < y THEN x ELSE y

Init ==
  /\ pc = "free" /\ rest = 0
  /\ sndQueue = <<>> /\ sndQueueBytes = 0
  /\ rmtSendRate \in Rates
  /\ dataOutputLimit = MSS /\ newOutput = 0 /\ filled = 0
  /\ due = 0 /\ sinceTmp = 0 /\ sinceFlush = 0 /\ flushed = FALSE
  /\ queued = 0 /\ left = 0 /\ onWire = 0

-----------------------------------------------------------------------------
PushBack(len) == sndQueue' = Append(sndQueue, [len |-> len, at |-> queued])

\* Room, within the bound, for a range cut into segments.
Room(len) == queued + len + Overhead * ((len + MSS - 1) \div MSS) <= MaxQueued

\* Faulty: a header, which has no payload, is not counted.
EnqueueUncounted(len) ==
  /\ PushBack(len)
  /\ sndQueueBytes' = sndQueueBytes + (IF len = 0 THEN 0 ELSE Overhead + len)
  /\ queued' = queued + Overhead + len

\* The end of sendData's loop, of sendDataHeader and of parseData's forwarding.
Enqueue(len) ==
  /\ PushBack(len)
  /\ sndQueueBytes' = sndQueueBytes + Overhead + len
  /\ queued' = queued + Overhead + len

\* parseData passes on what arrived; len = 0 is a header, received or made by
\* sendDataHeader (detectDataHole).  A flush between the two would be in order.
Forward(len) ==
  /\ pc = "free"
  /\ queued + Overhead + len <= MaxQueued
  /\ Enqueue(len)
  /\ UNCHANGED <<pc, rest, rmtSendRate, bucket, times>>

\* An interest brings a rate; parseInt finds the first len bytes in the cache.
Interest(rate, len) ==
  /\ pc = "free" /\ Room(len)
  /\ rmtSendRate' = rate
  /\ rest' = len
  /\ pc' = IF len > 0 THEN "input" ELSE "free"
  /\ UNCHANGED <<sndQueue, sndQueueBytes, queued, bucket, times>>

\* One turn of parseInt's loop: at most MSS bytes are fetched and sent.
AnswerPiece ==
  /\ pc \in {"input", "holes"} /\ rest > 0
  /\ Enqueue(Smaller(rest, MSS))
  /\ rest' = rest - Smaller(rest, MSS)
  /\ pc' = IF pc = "input" /\ rest <= MSS THEN "free" ELSE pc
  /\ UNCHANGED <<rmtSendRate, bucket, times>>

(***************************************************************************)
(* TransUpdateLoop, check and update: flush when nextFlushTs is reached,   *)
(* and set the next one.  The time that update and flush read at their     *)
(* start is one.                                                           *)
(***************************************************************************)
StartFlush ==
  /\ pc = "free" /\ due >= 0
  /\ due' = IF due >= Interval THEN -Interval ELSE due - Interval
  /\ sinceTmp' = 0
  /\ pc' = "holes"
  /\ UNCHANGED <<queue, rmtSendRate, bucket, sinceFlush, flushed>>

\* flushDataHoles of a midnode hands a ripe hole to parseInt.
AskForHole(len) ==
  /\ pc = "holes" /\ rest = 0 /\ Room(len)
  /\ rest' = len
  /\ UNCHANGED <<pc, sndQueue, sndQueueBytes, queued, rmtSendRate, bucket, times>>

Refill ==
  /\ pc = "holes" /\ rest = 0
  /\ newOutput' = rmtSendRate * (IF flushed THEN sinceFlush ELSE Interval)
  /\ dataOutputLimit' = dataOutputLimit + newOutput'
  /\ pc' = "data"
  /\ UNCHANGED <<queue, rmtSendRate, filled, left, onWire, times>>

Affordable(seg) == dataOutputLimit >= Cost(seg)

\* Faulty: the header of the segment is forgotten.
FitsDatagramBare(seg) == filled + seg.len <= MTU

FitsDatagram(seg) == filled + Cost(seg) <= MTU

\* One turn of flushData's loop.
SendSegment ==
  LET seg == Head(sndQueue)
      fits == FitsDatagram(seg)
  IN /\ pc = "data" /\ sndQueue # <<>> /\ Affordable(seg)
     /\ dataOutputLimit' = dataOutputLimit - Cost(seg)
     /\ onWire' = IF fits THEN onWire ELSE onWire + filled
     /\ filled' = IF fits THEN filled + Cost(seg) ELSE Cost(seg)
     /\ sndQueue' = Tail(sndQueue)
     /\ sndQueueBytes' = sndQueueBytes - Cost(seg)
     /\ left' = left + Cost(seg)
     /\ UNCHANGED <<pc, rest, queued, rmtSendRate, newOutput, times>>

ReachLimit == sndQueue # <<>> /\ ~Affordable(Head(sndQueue))

\* Faulty: what an idle session does not use is saved up.
LeftOverAll == dataOutputLimit

\* Faulty: the bucket starts afresh, whether or not a segment waits for it.
LeftOverNever == Smaller(dataOutputLimit, newOutput)

\* The bucket is saved up only for a segment that waits for it.
LeftOver ==
  IF ReachLimit THEN dataOutputLimit ELSE Smaller(dataOutputLimit, newOutput)

EndFlush ==
  /\ pc = "data"
  /\ sndQueue = <<>> \/ ReachLimit
  /\ dataOutputLimit' = LeftOver
  /\ onWire' = onWire + filled
  /\ filled' = 0
  /\ sinceFlush' = sinceTmp
  /\ flushed' = TRUE
  /\ pc' = "free"
  /\ UNCHANGED <<queue, rmtSendRate, newOutput, left, due, sinceTmp>>

Tick ==
  /\ due < MaxGap
  /\ due' = due + 1
  /\ sinceTmp' = sinceTmp + 1
  /\ sinceFlush' = sinceFlush + 1
  /\ UNCHANGED <<pc, queue, rmtSendRate, bucket, flushed>>

Next ==
  \/ \E len \in 0..MSS : Forward(len)
  \/ \E rate \in Rates, len \in 0..MaxQueued : Interest(rate, len)
  \/ \E len \in 1..MaxQueued : AskForHole(len)
  \/ AnswerPiece \/ StartFlush \/ Refill \/ SendSegment \/ EndFlush
  \/ Tick

(***************************************************************************)
(* The update thread never stops, and what either thread does with the     *)
(* lock comes to its end.  Nothing makes segments or interests arrive.     *)
(***************************************************************************)
Fairness ==
  /\ WF_vars(AnswerPiece) /\ WF_vars(StartFlush) /\ WF_vars(Refill)
  /\ WF_vars(SendSegment) /\ WF_vars(EndFlush) /\ WF_vars(Tick)

Spec == Init /\ [][Next]_vars

FairSpec == Spec /\ Fairness

-----------------------------------------------------------------------------
Segments == [len : 0..MSS, at : Nat]

\* The bucket never goes below zero: flushData compares it as unsigned.
TypeOK ==
  /\ pc \in Phases /\ rest \in Nat
  /\ sndQueue \in Seq(Segments) /\ sndQueueBytes \in Nat
  /\ rmtSendRate \in Rates
  /\ dataOutputLimit \in Nat /\ newOutput \in Nat /\ filled \in Nat
  /\ due \in Int /\ sinceTmp \in Nat /\ sinceFlush \in Nat /\ flushed \in BOOLEAN
  /\ queued \in Nat /\ left \in Nat /\ onWire \in Nat

(***************************************************************************)
(* sndQueueBytes, which paces the node before (getIntDev, getDataSendRate),*)
(* is the sum over the segments of sndQueue, whoever queued them: the      *)
(* places of the segments tile [left, queued), and it is that long.        *)
(***************************************************************************)
Follows(i) == IF i < Len(sndQueue) THEN sndQueue[i + 1].at ELSE queued

BytesAccount ==
  /\ sndQueueBytes = queued - left
  /\ \A i \in 1..Len(sndQueue) : sndQueue[i].at + Cost(sndQueue[i]) = Follows(i)
  /\ left = IF sndQueue = <<>> THEN queued ELSE sndQueue[1].at

(***************************************************************************)
(* tmpBuffer holds at most one datagram of INTCP_MTU bytes, and every byte *)
(* put into it is sent before it is used again.                            *)
(***************************************************************************)
DatagramsWhole ==
  /\ filled <= MTU
  /\ left = onWire + filled
  /\ pc # "data" => filled = 0

(***************************************************************************)
(* An idle or blocked session does not save up its rate: after a flush the *)
(* bucket holds at most what one flush adds, or less than the segment that *)
(* waits for it.                                                           *)
(***************************************************************************)
BucketBound ==
  pc # "data" => dataOutputLimit <= newOutput \/ dataOutputLimit < MTU

(***************************************************************************)
(* When nothing more arrives, all that is queued leaves, also when a flush *)
(* adds less than the next segment needs.                                  *)
(***************************************************************************)
Drains == (queued > onWire) ~> (queued = onWire)
====
