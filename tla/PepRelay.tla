---- MODULE PepRelay ----
(***************************************************************************)
(* One connection of the PEPsal proxy (pepsal_min/pep.c), from the moment  *)
(* its outgoing socket connects: two endpoints, each with a linear buffer  *)
(* for what was read from it and not yet written to the other one.         *)
(*                                                                         *)
(* The poller waits for events the endpoints asked for, hands the          *)
(* connection to a worker, which relays both directions until nothing      *)
(* moves, and looks at the result before it polls again.  Peers send,      *)
(* read, half-close and reset between any two system calls.                *)
(*                                                                         *)
(* Bytes are numbered from 1 in each direction, so that a byte's number    *)
(* says whether the right one is in the right place.                       *)
(***************************************************************************)
EXTENDS Integers

CONSTANTS
  Total,    \* total_size of a buffer: PEPBUF_PAGES * PAGE_SIZE
  Room,     \* what a socket's send queue takes
  MaxSent   \* bound: the bytes each peer sends

ASSUME PepRelayAssumption ==
  /\ Total \in Nat \ {0}
  /\ Room \in Nat \ {0}
  /\ MaxSent \in Nat

Ends == {"src", "dst"}

Other(e) == IF e = "src" THEN "dst" ELSE "src"

VARIABLES
  status,      \* PST_CONNECT, PST_OPEN or PST_CLOSED
  at,          \* where the poller or the worker is
  from,        \* the endpoint whose data the worker relays
  rb, wb,      \* whether the last pep_receive and pep_send moved bytes
  r_pos, w_pos, rbytes, space_left,   \* per endpoint: its pep_buffer
  mem,         \* per endpoint: the buffer's memory
  iostat,      \* per endpoint: the PEP_IO flags
  events,      \* per endpoint: poll_events without the error events
  sent,        \* per endpoint: how many bytes its peer has sent
  taken,       \* per endpoint: how many of them were read
  given,       \* per endpoint: how many of them were written to the other
  acked,       \* per endpoint: how many of them left the other's send queue
  fin,         \* per endpoint: the peer closed its direction
  reset,       \* per endpoint: the peer aborted the connection
  connected    \* the connect to the destination has completed

bufVars == <<r_pos, w_pos, rbytes, space_left, mem>>
peerVars == <<sent, acked, fin, reset, connected>>
vars == <<status, at, from, rb, wb, bufVars, iostat, events, taken, given, peerVars>>

Init ==
  /\ status = "CONNECT" /\ at = "poll" /\ from = "src"
  /\ rb = FALSE /\ wb = FALSE
  /\ r_pos = [e \in Ends |-> 0] /\ w_pos = [e \in Ends |-> 0]
  /\ rbytes = [e \in Ends |-> 0]
  /\ space_left = [e \in Ends |-> Total]
  /\ mem = [e \in Ends |-> [p \in 0..(Total - 1) |-> 0]]
  /\ iostat = [e \in Ends |-> {}]
  /\ events = [e \in Ends |-> {"IN"}]
  /\ sent = [e \in Ends |-> 0] /\ taken = [e \in Ends |-> 0]
  /\ given = [e \in Ends |-> 0] /\ acked = [e \in Ends |-> 0]
  /\ fin = [e \in Ends |-> FALSE] /\ reset = [e \in Ends |-> FALSE]
  /\ connected = FALSE

Empty(e) == rbytes[e] = 0

Full(e) == space_left[e] = 0

-----------------------------------------------------------------------------
\* The peers, and the network between them and the proxy.
CanTalk(e) == ~reset[e] /\ status # "CLOSED" /\ (e = "dst" => connected)

PeerSend(e) ==
  /\ CanTalk(e) /\ ~fin[e] /\ sent[e] < MaxSent
  /\ sent' = [sent EXCEPT ![e] = @ + 1]
  /\ UNCHANGED <<status, at, from, rb, wb, bufVars, iostat, events, taken, given,
                 acked, fin, reset, connected>>

PeerFin(e) ==
  /\ CanTalk(e) /\ ~fin[e]
  /\ fin' = [fin EXCEPT ![e] = TRUE]
  /\ UNCHANGED <<status, at, from, rb, wb, bufVars, iostat, events, taken, given,
                 sent, acked, reset, connected>>

PeerReset(e) ==
  /\ ~reset[e] /\ status # "CLOSED"
  /\ reset' = [reset EXCEPT ![e] = TRUE]
  /\ UNCHANGED <<status, at, from, rb, wb, bufVars, iostat, events, taken, given,
                 sent, acked, fin, connected>>

\* The peer opposite to e reads one byte that came from e.
PeerRead(e) ==
  /\ CanTalk(Other(e)) /\ acked[e] < given[e]
  /\ acked' = [acked EXCEPT ![e] = @ + 1]
  /\ UNCHANGED <<status, at, from, rb, wb, bufVars, iostat, events, taken, given,
                 sent, fin, reset, connected>>

Connected ==
  /\ ~connected /\ ~reset["dst"] /\ status # "CLOSED"
  /\ connected' = TRUE
  /\ UNCHANGED <<status, at, from, rb, wb, bufVars, iostat, events, taken, given,
                 sent, acked, fin, reset>>

SendRoom(e) ==
  IF e = "src" /\ ~connected THEN 0 ELSE Room - (given[e] - acked[e])

-----------------------------------------------------------------------------
(***************************************************************************)
(* One round of poller_loop for this connection.  Error events are always  *)
(* reported; a failed connect is seen in SO_ERROR.  The buffers are set up *)
(* on the first event, whether or not the connect has completed by then.   *)
(***************************************************************************)
Readable(e) == "IN" \in events[e] /\ (taken[e] < sent[e] \/ fin[e])

Writable(e) == "OUT" \in events[e] /\ SendRoom(Other(e)) > 0

Poll ==
  /\ at = "poll" /\ status # "CLOSED"
  /\ \E e \in Ends : reset[e] \/ Readable(e) \/ Writable(e)
  /\ IF \E e \in Ends : reset[e]
     THEN /\ status' = "CLOSED"
          /\ UNCHANGED <<at, from, rb, wb>>
     ELSE /\ status' = "OPEN"
          /\ at' = "recv" /\ from' = "src"
          /\ rb' = TRUE /\ wb' = TRUE
  /\ UNCHANGED <<bufVars, iostat, events, taken, given, peerVars>>

Raise(e, flag) == iostat' = [iostat EXCEPT ![e] = @ \cup {flag}]

\* A faulty form: the bytes land at the write pointer.
TakeOverwrites(e, n) ==
  /\ mem' = [mem EXCEPT ![e] = [p \in 0..(Total - 1) |->
               IF p \in w_pos[e]..(w_pos[e] + n - 1)
               THEN taken[e] + 1 + (p - w_pos[e]) ELSE mem[e][p]]]
  /\ r_pos' = [r_pos EXCEPT ![e] = @ + n]
  /\ rbytes' = [rbytes EXCEPT ![e] = @ + n]
  /\ space_left' = [space_left EXCEPT ![e] = @ - n]
  /\ taken' = [taken EXCEPT ![e] = @ + n]
  /\ UNCHANGED w_pos

\* read returns n bytes into the buffer (pepbuf_update_rpos).
Take(e, n) ==
  /\ mem' = [mem EXCEPT ![e] = [p \in 0..(Total - 1) |->
               IF p \in r_pos[e]..(r_pos[e] + n - 1)
               THEN taken[e] + 1 + (p - r_pos[e]) ELSE mem[e][p]]]
  /\ r_pos' = [r_pos EXCEPT ![e] = @ + n]
  /\ rbytes' = [rbytes EXCEPT ![e] = @ + n]
  /\ space_left' = [space_left EXCEPT ![e] = @ - n]
  /\ taken' = [taken EXCEPT ![e] = @ + n]
  /\ UNCHANGED w_pos

NothingRead ==
  /\ rb' = FALSE
  /\ UNCHANGED <<bufVars, taken>>

MayRead(e) == iostat[e] \cap {"RDONE", "ERR", "EOF"} = {} /\ ~Full(e)

(***************************************************************************)
(* pep_receive, with what its read may find.  The loop of pep_proxy_data   *)
(* goes on while either call moved something.                              *)
(***************************************************************************)
SkipRead ==
  /\ ~MayRead(from)
  /\ NothingRead /\ UNCHANGED iostat

ReadFails ==
  /\ MayRead(from) /\ reset[from]
  /\ NothingRead /\ Raise(from, "ERR")

ReadBlocks ==
  /\ MayRead(from) /\ ~reset[from] /\ taken[from] = sent[from] /\ ~fin[from]
  /\ NothingRead /\ Raise(from, "RDONE")

ReadsEof ==
  /\ MayRead(from) /\ ~reset[from] /\ taken[from] = sent[from] /\ fin[from]
  /\ NothingRead /\ Raise(from, "EOF")

ReadsData ==
  /\ MayRead(from) /\ ~reset[from]
  /\ \E n \in 1..MaxSent :
       /\ n <= space_left[from] /\ n <= sent[from] - taken[from]
       /\ Take(from, n)
  /\ rb' = TRUE
  /\ UNCHANGED iostat

Receive ==
  /\ at = "recv" /\ (rb \/ wb)
  /\ SkipRead \/ ReadFails \/ ReadBlocks \/ ReadsEof \/ ReadsData
  /\ at' = "send"
  /\ UNCHANGED <<status, from, wb, events, given, peerVars>>

-----------------------------------------------------------------------------
\* write accepts n bytes (pepbuf_update_wpos): an emptied buffer starts over.
Drained(e, n) == w_pos[e] + n = r_pos[e]

\* A faulty form: an emptied buffer forgets to move its pointers back.
GiveNoRewind(e, n) ==
  /\ w_pos' = [w_pos EXCEPT ![e] = @ + n]
  /\ rbytes' = [rbytes EXCEPT ![e] = @ - n]
  /\ space_left' = [space_left EXCEPT ![e] = IF Drained(e, n) THEN Total ELSE @]
  /\ given' = [given EXCEPT ![e] = @ + n]
  /\ UNCHANGED <<mem, r_pos>>

Give(e, n) ==
  /\ w_pos' = [w_pos EXCEPT ![e] = IF Drained(e, n) THEN 0 ELSE @ + n]
  /\ r_pos' = [r_pos EXCEPT ![e] = IF Drained(e, n) THEN 0 ELSE @]
  /\ rbytes' = [rbytes EXCEPT ![e] = @ - n]
  /\ space_left' = [space_left EXCEPT ![e] = IF Drained(e, n) THEN Total ELSE @]
  /\ given' = [given EXCEPT ![e] = @ + n]
  /\ UNCHANGED mem

NothingWritten ==
  /\ wb' = FALSE
  /\ UNCHANGED <<bufVars, given>>

MaySend(e) ==
  /\ iostat[e] \cap {"ERR", "WDONE"} = {}
  /\ ~Empty(e) \/ "EOF" \in iostat[e]

SkipWrite ==
  /\ ~MaySend(from)
  /\ NothingWritten /\ UNCHANGED iostat

WriteFails ==
  /\ MaySend(from) /\ reset[Other(from)]
  /\ NothingWritten /\ Raise(from, "ERR")

WriteBlocks ==
  /\ MaySend(from) /\ ~reset[Other(from)] /\ ~Empty(from) /\ SendRoom(from) = 0
  /\ NothingWritten /\ Raise(from, "WDONE")

\* At the end of the stream pep_send writes an empty buffer too.
WritesNothing ==
  /\ MaySend(from) /\ ~reset[Other(from)] /\ Empty(from)
  /\ NothingWritten /\ UNCHANGED iostat

WritesData ==
  /\ MaySend(from) /\ ~reset[Other(from)]
  /\ \E n \in 1..MaxSent :
       /\ n <= rbytes[from] /\ n <= SendRoom(from)
       /\ Give(from, n)
  /\ wb' = TRUE
  /\ UNCHANGED iostat

Send ==
  /\ at = "send"
  /\ SkipWrite \/ WriteFails \/ WriteBlocks \/ WritesNothing \/ WritesData
  /\ at' = "recv"
  /\ UNCHANGED <<status, from, rb, events, taken, peerVars>>

-----------------------------------------------------------------------------
(***************************************************************************)
(* The end of pep_proxy_data: which events to wait for, unless the         *)
(* direction failed.  The worker relays src to dst, then dst to src.       *)
(***************************************************************************)
\* A faulty form: input is no longer asked for again.
InterestedSticky(e) ==
  IF Full(e) \/ "EOF" \in iostat[e] THEN events[e] \ {"IN"} ELSE events[e]

Interested(e) ==
  IF Full(e) \/ "EOF" \in iostat[e] THEN events[e] \ {"IN"}
  ELSE IF "RDONE" \in iostat[e] THEN events[e] \cup {"IN"}
  ELSE events[e]

\* A faulty form: a held byte does not ask for room.
WantsRoomNever(e) == events[Other(e)] \ {"OUT"}

WantsRoom(e) ==
  IF Empty(e) THEN events[Other(e)] \ {"OUT"} ELSE events[Other(e)] \cup {"OUT"}

EndDirection ==
  /\ at = "recv" /\ ~rb /\ ~wb
  /\ IF "ERR" \in iostat[from] THEN UNCHANGED events
     ELSE events' = [events EXCEPT ![from] = Interested(from),
                                   ![Other(from)] = WantsRoom(from)]
  /\ IF from = "src" THEN from' = "dst" /\ rb' = TRUE /\ wb' = TRUE /\ at' = "recv"
     ELSE at' = "post" /\ UNCHANGED <<from, rb, wb>>
  /\ UNCHANGED <<status, bufVars, iostat, taken, given, peerVars>>

\* Faulty forms: the end of file closes at once, or never.
FinishedAtEof(e) == "ERR" \in iostat[e] \/ "EOF" \in iostat[e]

FinishedOnError(e) == "ERR" \in iostat[e]

\* What poller_loop does with a connection the workers handed back.
Finished(e) == "ERR" \in iostat[e] \/ ("EOF" \in iostat[e] /\ Empty(e))

Post ==
  /\ at = "post"
  /\ status' = IF \E e \in Ends : Finished(e) THEN "CLOSED" ELSE status
  /\ iostat' = [e \in Ends |-> IF Finished(e) \/ Finished("src") THEN iostat[e]
                               ELSE iostat[e] \ {"WDONE", "RDONE", "EOF"}]
  /\ at' = "poll"
  /\ UNCHANGED <<from, rb, wb, bufVars, events, taken, given, peerVars>>

Proxy == Poll \/ Receive \/ Send \/ EndDirection \/ Post

Next ==
  \/ Proxy \/ Connected
  \/ \E e \in Ends : PeerSend(e) \/ PeerFin(e) \/ PeerReset(e) \/ PeerRead(e)

Spec == Init /\ [][Next]_vars

(***************************************************************************)
(* The poller and the worker keep running; the network completes a connect *)
(* it does not refuse; a receiving peer reads what arrives.  Nothing makes *)
(* a peer send, half-close or reset.                                       *)
(***************************************************************************)
FairSpec ==
  Spec /\ WF_vars(Proxy) /\ WF_vars(Connected) /\ \A e \in Ends : WF_vars(PeerRead(e))

-----------------------------------------------------------------------------
TypeOK ==
  /\ status \in {"CONNECT", "OPEN", "CLOSED"}
  /\ at \in {"poll", "recv", "send", "post"}
  /\ from \in Ends /\ rb \in BOOLEAN /\ wb \in BOOLEAN
  /\ r_pos \in [Ends -> 0..Total] /\ w_pos \in [Ends -> 0..Total]
  /\ rbytes \in [Ends -> 0..Total] /\ space_left \in [Ends -> 0..Total]
  /\ mem \in [Ends -> [0..(Total - 1) -> Nat]]
  /\ iostat \in [Ends -> SUBSET {"RDONE", "WDONE", "EOF", "ERR"}]
  /\ events \in [Ends -> SUBSET {"IN", "OUT"}]
  /\ sent \in [Ends -> Nat] /\ taken \in [Ends -> Nat]
  /\ given \in [Ends -> Nat] /\ acked \in [Ends -> Nat]
  /\ fin \in [Ends -> BOOLEAN] /\ reset \in [Ends -> BOOLEAN]
  /\ connected \in BOOLEAN

(***************************************************************************)
(* The pointers and the two counters of a pep_buffer agree with each other *)
(* and stay inside the mapping, whatever sizes read and write return: the  *)
(* assertions of pepbuf_update_rpos and pepbuf_update_wpos cannot fail.    *)
(***************************************************************************)
BufferAccounts ==
  \A e \in Ends :
    /\ w_pos[e] <= r_pos[e]
    /\ rbytes[e] = r_pos[e] - w_pos[e]
    /\ space_left[e] = Total - r_pos[e]

(***************************************************************************)
(* The bytes between the two pointers are the ones that come next in the   *)
(* stream, in order: since write takes them from w_pos, each peer gets     *)
(* exactly what the other sent, with nothing lost, repeated or reordered.  *)
(***************************************************************************)
RelaysNext ==
  \A e \in Ends :
    /\ rbytes[e] = taken[e] - given[e]
    /\ \A p \in w_pos[e]..(r_pos[e] - 1) : mem[e][p] = given[e] + 1 + (p - w_pos[e])

(***************************************************************************)
(* When the poller polls an open connection, every direction that can      *)
(* still move is waited for: the peer's data unless the buffer is full or  *)
(* the stream ended, and room in the other socket when bytes are held.     *)
(* Nothing else would wake the connection (pep.c 478-497).                 *)
(***************************************************************************)
NeverDeaf ==
  at = "poll" /\ status = "OPEN" =>
    \A e \in Ends :
      /\ "OUT" \in events[Other(e)] <=> ~Empty(e)
      /\ "IN" \notin events[e] => ~Empty(e) /\ (Full(e) \/ fin[e])

(***************************************************************************)
(* A connection no peer aborted is closed only after one peer half-closed  *)
(* and all it ever sent was handed to the other socket: the end of file    *)
(* never overtakes bytes still in the buffer.                              *)
(***************************************************************************)
ClosedComplete ==
  status = "CLOSED" /\ (\A e \in Ends : ~reset[e]) =>
    \E e \in Ends : fin[e] /\ given[e] = sent[e]

(***************************************************************************)
(* Every byte a peer sends is handed to the other socket, unless a peer    *)
(* aborts or the other direction ends first (which closes both).           *)
(***************************************************************************)
Relayed ==
  \A e \in Ends : \A i \in 1..MaxSent :
    sent[e] >= i ~> given[e] >= i \/ fin[Other(e)] \/ \E x \in Ends : reset[x]

\* Once a peer half-closes, the proxy gives the connection up.
ClosesAfterFin == \A e \in Ends : fin[e] ~> status = "CLOSED"
====
