---- MODULE HoleTracker ----
(***************************************************************************)
(* What one INTCP session promises about the bytes it misses.              *)
(*                                                                         *)
(* A session (IntcpTransCB, intcp/ikcp.cpp) receives segments that each    *)
(* carry a byte range.  It expects the next range to start at              *)
(* dataNextRangeStart; a range that starts later leaves a hole, one that   *)
(* starts earlier fills holes.  A hole older than INTCP_HOLE_WAIT is asked *)
(* for once and forgotten.                                                 *)
(*                                                                         *)
(* Here the holes are the set of missing bytes, each with the age of its   *)
(* hole.  DataHoles has the code's algorithms on the list of intervals,    *)
(* HopChain runs them at every node of a path and implements this module   *)
(* at each of them.                                                        *)
(***************************************************************************)
EXTENDS Integers

CONSTANTS
  Bytes,          \* the stream positions where a range may start or end
  HoleWait,       \* INTCP_HOLE_WAIT, in clock steps
  SnHoleTimeout,  \* INTCP_SNHOLE_TIMEOUT, in clock steps
  AbnormalGap,    \* 100 * INTCP_MSS, in bytes
  MaxAge          \* the age a hole reaches, at most, between two flushes

ASSUME HoleTrackerAssumption ==
  /\ Bytes \subseteq Nat
  /\ HoleWait \in Nat
  /\ SnHoleTimeout \in Nat
  /\ HoleWait < SnHoleTimeout
  /\ AbnormalGap \in Nat
  /\ MaxAge \in Nat

VARIABLES
  dataNextRangeStart,
  missing,    \* dataHoles: the pairs <<byte, age of its hole>>
  up,         \* FALSE once the process died of using a freed list node
  seen,       \* history: bytes that received data or headers covered
  asked,      \* history: bytes of the holes that were asked for
  forwarded,  \* history: bytes of the interests passed on for a consumer
  skipped,    \* history: bytes below the first range, or in abnormal gaps
  straddled   \* history: some range began below dataNextRangeStart and ended above

vars == <<dataNextRangeStart, missing, up, seen, asked, forwarded, skipped,
          straddled>>

\* The bytes of the range [a, b).
Span(a, b) == a..(b - 1)

MissingBytes == {m[1] : m \in missing}

Without(M, F) == {m \in M : m[1] \notin F}

Ripe(M) == {m \in M : m[2] >= HoleWait}

Expired(M) == {m \in M : m[2] >= SnHoleTimeout}

TypeOK ==
  /\ dataNextRangeStart \in Nat
  /\ missing \in SUBSET (Nat \X Nat)
  /\ up \in BOOLEAN
  /\ seen \in SUBSET Nat
  /\ asked \in SUBSET Nat
  /\ forwarded \in SUBSET Nat
  /\ skipped \in SUBSET Nat
  /\ straddled \in BOOLEAN

-----------------------------------------------------------------------------
Init ==
  /\ dataNextRangeStart = 0
  /\ missing = {}
  /\ up = TRUE
  /\ seen = {}
  /\ asked = {}
  /\ forwarded = {}
  /\ skipped = {}
  /\ straddled = FALSE

Expected(a, b) ==
  /\ a = dataNextRangeStart
  /\ dataNextRangeStart' = b
  /\ UNCHANGED <<missing, skipped, straddled>>

\* Faulty: the holes a retransmission fills stay open.
RetransmittedKeepsHole(a, b) ==
  /\ a < dataNextRangeStart
  /\ straddled' = (straddled \/ b > dataNextRangeStart)
  /\ UNCHANGED <<dataNextRangeStart, missing, skipped>>

\* A retransmission, a duplicate or a late range.  dataNextRangeStart stays
\* where it is even when the range ends above it.
Retransmitted(a, b) ==
  /\ a < dataNextRangeStart
  /\ missing' = Without(missing, Span(a, b))
  /\ straddled' = (straddled \/ b > dataNextRangeStart)
  /\ UNCHANGED <<dataNextRangeStart, skipped>>

IsAbnormal(a) == dataNextRangeStart = 0 \/ a - dataNextRangeStart > AbnormalGap

\* The first range of the stream, or a gap too large to repair.
Jumped(a, b) ==
  /\ a > dataNextRangeStart
  /\ IsAbnormal(a)
  /\ skipped' = skipped \cup Span(dataNextRangeStart, a)
  /\ dataNextRangeStart' = b
  /\ UNCHANGED <<missing, straddled>>

\* Faulty: the hole is noticed (hasLossEvent) but not recorded.
LeftHoleForgets(a, b) ==
  /\ a > dataNextRangeStart
  /\ ~IsAbnormal(a)
  /\ dataNextRangeStart' = b
  /\ UNCHANGED <<missing, skipped, straddled>>

LeftHole(a, b) ==
  /\ a > dataNextRangeStart
  /\ ~IsAbnormal(a)
  /\ missing' = missing \cup (Span(dataNextRangeStart, a) \X {0})
  /\ dataNextRangeStart' = b
  /\ UNCHANGED <<skipped, straddled>>

DetectDataHole(a, b) ==
  \/ Expected(a, b)
  \/ Retransmitted(a, b)
  \/ Jumped(a, b)
  \/ LeftHole(a, b)

\* A segment with data, or a data header, that covers [a, b).
Arrive(a, b) ==
  /\ up
  /\ a < b
  /\ DetectDataHole(a, b)
  /\ seen' = seen \cup Span(a, b)
  /\ UNCHANGED <<up, asked, forwarded>>

\* Faulty: the age is taken as ts - current.
TickBackwards ==
  /\ up
  /\ missing # {}
  /\ \A m \in missing : m[2] < MaxAge
  /\ missing' = {<<m[1], m[2] - 1>> : m \in missing}
  /\ UNCHANGED <<dataNextRangeStart, up, seen, asked, forwarded, skipped,
                 straddled>>

\* The clock moves on while the update thread is not in flush.
Tick ==
  /\ up
  /\ missing # {}
  /\ \A m \in missing : m[2] < MaxAge
  /\ missing' = {<<m[1], m[2] + 1>> : m \in missing}
  /\ UNCHANGED <<dataNextRangeStart, up, seen, asked, forwarded, skipped,
                 straddled>>

\* Faulty: a hole that was asked for is not erased.
FlushKeepsRipe(F) ==
  LET open == Without(missing, F)
  IN /\ up
     /\ missing' = open
     /\ asked' = asked \cup {m[1] : m \in Ripe(open)}
     /\ forwarded' = forwarded \cup F
     /\ up' \in (IF Expired(open) = {} THEN {TRUE} ELSE BOOLEAN)
     /\ UNCHANGED <<dataNextRangeStart, seen, skipped, straddled>>

(***************************************************************************)
(* flushIntBuf sends the interests F queued for a consumer and forgets     *)
(* what it misses of them; flushDataHoles then asks for every ripe hole    *)
(* and forgets it.  A hole past INTCP_SNHOLE_TIMEOUT is erased, read and   *)
(* erased again: either the process dies of it, or the freed node still    *)
(* holds its range, which is asked for like any other.                     *)
(***************************************************************************)
Flush(F) ==
  LET open == Without(missing, F)
  IN /\ up
     /\ missing' = open \ Ripe(open)
     /\ asked' = asked \cup {m[1] : m \in Ripe(open)}
     /\ forwarded' = forwarded \cup F
     /\ up' \in (IF Expired(open) = {} THEN {TRUE} ELSE BOOLEAN)
     /\ UNCHANGED <<dataNextRangeStart, seen, skipped, straddled>>

\* A consumer may ask for any bytes, also for some this node has not met yet.
Next ==
  \/ \E a, b \in Bytes : Arrive(a, b)
  \/ \E F \in SUBSET Bytes : Flush(F)
  \/ Tick

Spec == Init /\ [][Next]_vars

-----------------------------------------------------------------------------
(***************************************************************************)
(* No byte is forgotten: each byte below dataNextRangeStart was received   *)
(* or announced, is in a hole, was asked for, or was given up explicitly.  *)
(* detectDataHole moves dataNextRangeStart past bytes it never saw; this   *)
(* is what keeps those bytes repairable.                                   *)
(***************************************************************************)
NoByteForgotten ==
  \A i \in Span(0, dataNextRangeStart) :
    i \in seen \cup MissingBytes \cup asked \cup forwarded \cup skipped

(***************************************************************************)
(* A missing byte lies below dataNextRangeStart, belongs to one hole, and  *)
(* has not been asked for: flushDataHoles tries each byte only once.       *)
(***************************************************************************)
TriedOnce ==
  /\ \A i \in MissingBytes \cup asked : i < dataNextRangeStart
  /\ \A m, n \in missing : m[1] = n[1] => m = n
  /\ MissingBytes \cap asked = {}

(***************************************************************************)
(* As long as no range straddled dataNextRangeStart, a hole never covers   *)
(* a byte that a received range covered, so no repair is asked for what    *)
(* the session holds or what its producer announced to repair.             *)
(***************************************************************************)
NoFalseHole == straddled \/ MissingBytes \cap seen = {}

\* dataNextRangeStart only grows, so a byte enters the holes at most once.
FrontierGrows ==
  [][/\ dataNextRangeStart' >= dataNextRangeStart
     /\ \A i \in {m[1] : m \in missing'} \ MissingBytes :
          i >= dataNextRangeStart]_vars

(***************************************************************************)
(* "after 1000ms, don't care anymore" (ikcp.h, INTCP_SNHOLE_TIMEOUT): an   *)
(* expired hole is dropped without being asked for.                        *)
(***************************************************************************)
ExpiredNotAsked ==
  [][\A m \in Expired(missing) : m \notin missing' => m[1] \notin asked']_vars
====
