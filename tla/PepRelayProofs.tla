---- MODULE PepRelayProofs ----
(***************************************************************************)
(* The relay is sound for every mapping size, socket size and stream       *)
(* length.  Its buffers: counters and pointers agree, the assertions of    *)
(* pepbuf.c hold, and what a buffer holds is what comes next in the        *)
(* stream.  Its events: a connection waits for all that can still move,    *)
(* and is closed only when its streams have been relayed.                  *)
(***************************************************************************)
EXTENDS PepRelay, TLAPS

BufferInv == TypeOK /\ BufferAccounts /\ RelaysNext

\* The variables the invariant speaks about.
stateVars == <<status, at, from, rb, wb, bufVars, iostat, events, taken, given>>

LEMMA InitBuffer == Init => BufferInv
<1> SUFFICES ASSUME Init  PROVE BufferInv
  OBVIOUS
<1>1. "src" \in Ends /\ Total \in Nat /\ Total > 0
  BY PepRelayAssumption DEF Ends
<1>2. TypeOK
  <2>1. \A e \in Ends : 0 \in 0..Total /\ Total \in 0..Total /\ {} \in SUBSET {"RDONE"}
    BY <1>1
  <2>2. /\ r_pos \in [Ends -> 0..Total] /\ w_pos \in [Ends -> 0..Total]
        /\ rbytes \in [Ends -> 0..Total] /\ space_left \in [Ends -> 0..Total]
    BY <2>1 DEF Init
  <2>3. mem \in [Ends -> [0..(Total - 1) -> Nat]]
    BY DEF Init
  <2>4. /\ status = "CONNECT" /\ at = "poll" /\ from = "src"
        /\ rb = FALSE /\ wb = FALSE /\ connected = FALSE
    BY DEF Init
  <2>5. /\ iostat \in [Ends -> SUBSET {"RDONE", "WDONE", "EOF", "ERR"}]
        /\ events \in [Ends -> SUBSET {"IN", "OUT"}]
    BY DEF Init
  <2>6. /\ sent \in [Ends -> Nat] /\ taken \in [Ends -> Nat]
        /\ given \in [Ends -> Nat] /\ acked \in [Ends -> Nat]
        /\ fin \in [Ends -> BOOLEAN] /\ reset \in [Ends -> BOOLEAN]
    BY DEF Init
  <2> QED  BY <1>1, <2>2, <2>3, <2>4, <2>5, <2>6 DEF TypeOK
<1>3. BufferAccounts
  BY <1>1 DEF Init, BufferAccounts
<1>4. RelaysNext
  BY <1>1 DEF Init, RelaysNext
<1> QED  BY <1>2, <1>3, <1>4 DEF BufferInv

\* What the invariant says of one endpoint's buffer.
LEMMA OneBuffer ==
  ASSUME BufferInv, NEW e \in Ends
  PROVE  /\ r_pos[e] \in 0..Total /\ w_pos[e] \in 0..Total
         /\ taken[e] \in Nat /\ given[e] \in Nat
         /\ rbytes[e] = r_pos[e] - w_pos[e] /\ w_pos[e] <= r_pos[e]
         /\ rbytes[e] = taken[e] - given[e]
         /\ space_left[e] = Total - r_pos[e]
         /\ Total \in Nat
<1>1. /\ r_pos[e] \in 0..Total /\ w_pos[e] \in 0..Total
      /\ taken[e] \in Nat /\ given[e] \in Nat
  BY DEF BufferInv, TypeOK
<1>2. /\ rbytes[e] = r_pos[e] - w_pos[e] /\ w_pos[e] <= r_pos[e]
      /\ space_left[e] = Total - r_pos[e]
  BY DEF BufferInv, BufferAccounts
<1>3. rbytes[e] = taken[e] - given[e]
  BY DEF BufferInv, RelaysNext
<1> QED  BY <1>1, <1>2, <1>3, PepRelayAssumption

\* One endpoint's buffer is sound.
Sound(e) ==
  /\ r_pos[e] \in 0..Total /\ w_pos[e] \in 0..Total
  /\ rbytes[e] \in 0..Total /\ space_left[e] \in 0..Total
  /\ taken[e] \in Nat /\ given[e] \in Nat
  /\ mem[e] \in [0..(Total - 1) -> Nat]
  /\ w_pos[e] <= r_pos[e]
  /\ rbytes[e] = r_pos[e] - w_pos[e]
  /\ space_left[e] = Total - r_pos[e]
  /\ rbytes[e] = taken[e] - given[e]
  /\ \A p \in w_pos[e]..(r_pos[e] - 1) : mem[e][p] = given[e] + 1 + (p - w_pos[e])

\* What a step on e's buffer leaves as functions of the endpoints.
Shapes ==
  /\ r_pos = [x \in Ends |-> r_pos[x]] /\ w_pos = [x \in Ends |-> w_pos[x]]
  /\ rbytes = [x \in Ends |-> rbytes[x]] /\ mem = [x \in Ends |-> mem[x]]
  /\ space_left = [x \in Ends |-> space_left[x]]
  /\ taken = [x \in Ends |-> taken[x]] /\ given = [x \in Ends |-> given[x]]

BufferTypes ==
  /\ r_pos \in [Ends -> 0..Total] /\ w_pos \in [Ends -> 0..Total]
  /\ rbytes \in [Ends -> 0..Total] /\ space_left \in [Ends -> 0..Total]
  /\ mem \in [Ends -> [0..(Total - 1) -> Nat]]
  /\ taken \in [Ends -> Nat] /\ given \in [Ends -> Nat]

LEMMA InvIsSound == ASSUME BufferInv  PROVE \A e \in Ends : Sound(e)
  BY DEF BufferInv, TypeOK, BufferAccounts, RelaysNext, Sound

LEMMA SoundIsInvNext ==
  ASSUME Shapes', \A e \in Ends : Sound(e)'
  PROVE  (BufferTypes /\ BufferAccounts /\ RelaysNext)'
<1>1. BufferAccounts'  BY DEF Sound, BufferAccounts
<1>2. RelaysNext'  BY DEF Sound, RelaysNext
<1>3. r_pos' \in [Ends -> 0..Total] /\ w_pos' \in [Ends -> 0..Total]
  BY DEF Sound, Shapes
<1>4. rbytes' \in [Ends -> 0..Total] /\ space_left' \in [Ends -> 0..Total]
  BY DEF Sound, Shapes
<1>5. taken' \in [Ends -> Nat] /\ given' \in [Ends -> Nat]
  BY DEF Sound, Shapes
<1>6. mem' \in [Ends -> [0..(Total - 1) -> Nat]]
  BY DEF Sound, Shapes
<1> QED  BY <1>1, <1>2, <1>3, <1>4, <1>5, <1>6 DEF BufferTypes

(***************************************************************************)
(* A read of n bytes that fit keeps the buffer sound: the new bytes        *)
(* follow the ones it held.                                                *)
(***************************************************************************)
LEMMA TakeKeeps ==
  ASSUME BufferInv, NEW e \in Ends, NEW n \in Nat \ {0},
         n <= space_left[e], Take(e, n), UNCHANGED given
  PROVE  (BufferTypes /\ BufferAccounts /\ RelaysNext)'
<1>1. Shapes'
  BY DEF Take, Shapes, BufferInv, TypeOK
<1>2. ASSUME NEW x \in Ends, x # e  PROVE Sound(x)'
  <2>1. Sound(x)  BY InvIsSound
  <2>2. /\ r_pos'[x] = r_pos[x] /\ w_pos'[x] = w_pos[x] /\ rbytes'[x] = rbytes[x]
        /\ space_left'[x] = space_left[x] /\ mem'[x] = mem[x]
        /\ taken'[x] = taken[x] /\ given'[x] = given[x]
    BY <1>2 DEF Take, BufferInv, TypeOK
  <2> QED  BY <2>1, <2>2 DEF Sound
<1>3. Sound(e)'
  <2>1. Sound(e)  BY InvIsSound
  <2>2. /\ r_pos'[e] = r_pos[e] + n /\ w_pos'[e] = w_pos[e]
        /\ rbytes'[e] = rbytes[e] + n /\ space_left'[e] = space_left[e] - n
        /\ taken'[e] = taken[e] + n /\ given'[e] = given[e]
    BY DEF Take, BufferInv, TypeOK
  <2>3. mem'[e] = [p \in 0..(Total - 1) |->
                     IF p \in r_pos[e]..(r_pos[e] + n - 1)
                     THEN taken[e] + 1 + (p - r_pos[e]) ELSE mem[e][p]]
    BY DEF Take, BufferInv, TypeOK
  <2>4. /\ r_pos[e] \in Nat /\ w_pos[e] \in Nat /\ taken[e] \in Nat /\ given[e] \in Nat
        /\ r_pos[e] + n <= Total /\ w_pos[e] <= r_pos[e] /\ Total \in Nat
        /\ rbytes[e] = r_pos[e] - w_pos[e] /\ space_left[e] = Total - r_pos[e]
        /\ rbytes[e] = taken[e] - given[e]
    BY OneBuffer
  <2>5. mem'[e] \in [0..(Total - 1) -> Nat]
    <3>1. ASSUME NEW p \in 0..(Total - 1)
          PROVE  (IF p \in r_pos[e]..(r_pos[e] + n - 1)
                  THEN taken[e] + 1 + (p - r_pos[e]) ELSE mem[e][p]) \in Nat
      <4>1. mem[e][p] \in Nat  BY <2>1 DEF Sound
      <4>2. p \in r_pos[e]..(r_pos[e] + n - 1) => taken[e] + 1 + (p - r_pos[e]) \in Nat
        BY <2>4
      <4> QED  BY <4>1, <4>2
    <3> QED  BY <3>1, <2>3
  <2>6. ASSUME NEW p \in w_pos[e]..(r_pos[e] + n - 1)
        PROVE  mem'[e][p] = given[e] + 1 + (p - w_pos[e])
    <3>1. p \in 0..(Total - 1)
      BY <2>4
    <3>2. mem'[e][p] = IF p \in r_pos[e]..(r_pos[e] + n - 1)
                       THEN taken[e] + 1 + (p - r_pos[e]) ELSE mem[e][p]
      BY <3>1, <2>3
    <3>3. CASE p \in r_pos[e]..(r_pos[e] + n - 1)
      BY <3>2, <3>3, <2>4
    <3>4. CASE p \notin r_pos[e]..(r_pos[e] + n - 1)
      <4>1. p \in w_pos[e]..(r_pos[e] - 1)
        BY <3>4, <2>4
      <4> QED  BY <4>1, <3>2, <3>4, <2>1 DEF Sound
    <3> QED  BY <3>3, <3>4
  <2>8. ASSUME NEW p \in w_pos'[e]..(r_pos'[e] - 1)
        PROVE  mem'[e][p] = given'[e] + 1 + (p - w_pos'[e])
    <3>1. w_pos'[e]..(r_pos'[e] - 1) = w_pos[e]..(r_pos[e] + n - 1)
      BY <2>2, <2>4
    <3>2. p \in w_pos[e]..(r_pos[e] + n - 1)  BY <3>1
    <3>3. mem'[e][p] = given[e] + 1 + (p - w_pos[e])  BY <3>2, <2>6
    <3> QED  BY <3>3, <2>2
  <2>7. /\ r_pos'[e] \in 0..Total /\ w_pos'[e] \in 0..Total
        /\ rbytes'[e] \in 0..Total /\ space_left'[e] \in 0..Total
        /\ taken'[e] \in Nat /\ given'[e] \in Nat /\ w_pos'[e] <= r_pos'[e]
        /\ rbytes'[e] = r_pos'[e] - w_pos'[e] /\ space_left'[e] = Total - r_pos'[e]
        /\ rbytes'[e] = taken'[e] - given'[e]
    BY <2>2, <2>4
  <2> QED  BY <2>5, <2>7, <2>8 DEF Sound
<1> QED  BY <1>1, <1>2, <1>3, SoundIsInvNext

(***************************************************************************)
(* A write of n held bytes keeps the buffer sound, whether or not it       *)
(* empties the buffer and moves its pointers back.                         *)
(***************************************************************************)
LEMMA GiveKeeps ==
  ASSUME BufferInv, NEW e \in Ends, NEW n \in Nat \ {0},
         n <= rbytes[e], Give(e, n), UNCHANGED taken
  PROVE  (BufferTypes /\ BufferAccounts /\ RelaysNext)'
<1>1. Shapes'
  BY DEF Give, Shapes, BufferInv, TypeOK
<1>2. ASSUME NEW x \in Ends, x # e  PROVE Sound(x)'
  <2>1. Sound(x)  BY InvIsSound
  <2>2. /\ r_pos'[x] = r_pos[x] /\ w_pos'[x] = w_pos[x] /\ rbytes'[x] = rbytes[x]
        /\ space_left'[x] = space_left[x] /\ mem'[x] = mem[x]
        /\ taken'[x] = taken[x] /\ given'[x] = given[x]
    BY <1>2 DEF Give, BufferInv, TypeOK
  <2> QED  BY <2>1, <2>2 DEF Sound
<1>3. Sound(e)'
  <2>1. Sound(e)  BY InvIsSound
  <2>2. /\ r_pos[e] \in 0..Total /\ w_pos[e] \in 0..Total
        /\ taken[e] \in Nat /\ given[e] \in Nat
        /\ w_pos[e] + n <= r_pos[e] /\ Total \in Nat
        /\ rbytes[e] = r_pos[e] - w_pos[e] /\ space_left[e] = Total - r_pos[e]
        /\ rbytes[e] = taken[e] - given[e]
    BY OneBuffer
  <2>3. /\ rbytes'[e] = rbytes[e] - n /\ given'[e] = given[e] + n
        /\ taken'[e] = taken[e] /\ mem'[e] = mem[e]
    BY DEF Give, BufferInv, TypeOK
  <2>4. mem'[e] \in [0..(Total - 1) -> Nat]
    BY <2>1, <2>3 DEF Sound
  <2>5. CASE w_pos[e] + n = r_pos[e]
    <3>1. r_pos'[e] = 0 /\ w_pos'[e] = 0 /\ space_left'[e] = Total
      BY <2>5 DEF Give, Drained, BufferInv, TypeOK
    <3>2. /\ r_pos'[e] \in 0..Total /\ w_pos'[e] \in 0..Total
          /\ rbytes'[e] \in 0..Total /\ space_left'[e] \in 0..Total
          /\ taken'[e] \in Nat /\ given'[e] \in Nat /\ w_pos'[e] <= r_pos'[e]
          /\ rbytes'[e] = r_pos'[e] - w_pos'[e] /\ space_left'[e] = Total - r_pos'[e]
          /\ rbytes'[e] = taken'[e] - given'[e]
          /\ w_pos'[e]..(r_pos'[e] - 1) = {}
      BY <2>2, <2>3, <2>5, <3>1
    <3> QED  BY <2>4, <3>2 DEF Sound
  <2>6. CASE w_pos[e] + n # r_pos[e]
    <3>1. /\ r_pos'[e] = r_pos[e] /\ w_pos'[e] = w_pos[e] + n
          /\ space_left'[e] = space_left[e]
      BY <2>6 DEF Give, Drained, BufferInv, TypeOK
    <3>2. /\ r_pos'[e] \in 0..Total /\ w_pos'[e] \in 0..Total
          /\ rbytes'[e] \in 0..Total /\ space_left'[e] \in 0..Total
          /\ taken'[e] \in Nat /\ given'[e] \in Nat /\ w_pos'[e] <= r_pos'[e]
          /\ rbytes'[e] = r_pos'[e] - w_pos'[e] /\ space_left'[e] = Total - r_pos'[e]
          /\ rbytes'[e] = taken'[e] - given'[e]
      BY <2>2, <2>3, <3>1
    <3>3. ASSUME NEW p \in (w_pos[e] + n)..(r_pos[e] - 1)
          PROVE  mem[e][p] = given[e] + n + 1 + (p - (w_pos[e] + n))
      <4>1. p \in w_pos[e]..(r_pos[e] - 1)
        BY <2>2
      <4>2. mem[e][p] = given[e] + 1 + (p - w_pos[e])
        BY <4>1, <2>1 DEF Sound
      <4> QED  BY <4>2, <2>2
    <3> QED  BY <2>3, <2>4, <3>1, <3>2, <3>3 DEF Sound
  <2> QED  BY <2>5, <2>6
<1> QED  BY <1>1, <1>2, <1>3, SoundIsInvNext

\* Steps that leave the buffers alone keep everything said about them.
LEMMA BufferUnchanged ==
  ASSUME BufferAccounts, RelaysNext, UNCHANGED <<bufVars, taken, given>>
  PROVE  BufferAccounts' /\ RelaysNext'
  BY DEF BufferAccounts, RelaysNext, bufVars

LEMMA StepBuffer == BufferInv /\ [Next]_vars => BufferInv'
<1> SUFFICES ASSUME BufferInv, [Next]_vars  PROVE BufferInv'
  OBVIOUS
<1> USE PepRelayAssumption
<1>type. TypeOK /\ BufferAccounts /\ RelaysNext
  BY DEF BufferInv
<1>poll. CASE Poll
  <2>1. TypeOK'  BY <1>poll, <1>type DEF Poll, TypeOK, Ends, bufVars, peerVars
  <2> QED  BY <2>1, <1>poll, <1>type, BufferUnchanged DEF Poll, BufferInv
<1>recv. CASE Receive
  <2> USE <1>recv DEF Receive
  <2>e. from \in Ends /\ at' = "send" /\ from' = from /\ wb' = wb
        /\ status' = status /\ events' = events /\ given' = given
        /\ UNCHANGED peerVars
    BY <1>type DEF TypeOK
  <2>1. ASSUME NothingRead, iostat' = iostat \/ \E f \in {"ERR", "RDONE", "EOF"} : Raise(from, f)
        PROVE  BufferInv'
    <3>1. TypeOK'
      <4>1. iostat' \in [Ends -> SUBSET {"RDONE", "WDONE", "EOF", "ERR"}]
        <5>1. iostat \in [Ends -> SUBSET {"RDONE", "WDONE", "EOF", "ERR"}]
          BY <1>type DEF TypeOK
        <5>2. ASSUME NEW f \in {"RDONE", "WDONE", "EOF", "ERR"}, Raise(from, f)
              PROVE  iostat' \in [Ends -> SUBSET {"RDONE", "WDONE", "EOF", "ERR"}]
          BY <5>1, <5>2, <2>e DEF Raise
        <5> QED  BY <5>1, <5>2, <2>1
      <4> QED  BY <2>1, <2>e, <1>type, <4>1 DEF NothingRead, TypeOK, bufVars, peerVars
    <3> QED  BY <3>1, <2>1, <2>e, <1>type, BufferUnchanged DEF NothingRead, BufferInv
  <2>2. CASE SkipRead \/ ReadFails \/ ReadBlocks \/ ReadsEof
    BY <2>2, <2>1 DEF SkipRead, ReadFails, ReadBlocks, ReadsEof
  <2>3. CASE ReadsData
    <3>1. PICK n \in 1..MaxSent :
            n <= space_left[from] /\ n <= sent[from] - taken[from] /\ Take(from, n)
      BY <2>3 DEF ReadsData
    <3>2. n \in Nat \ {0}
      BY PepRelayAssumption, SMT
    <3>3. (BufferTypes /\ BufferAccounts /\ RelaysNext)'
      BY <3>1, <3>2, <2>e, TakeKeeps
    <3>4. TypeOK'
      BY <2>3, <2>e, <3>3, <1>type DEF ReadsData, BufferTypes, TypeOK, peerVars
    <3> QED  BY <3>3, <3>4 DEF BufferInv
  <2> QED  BY <2>2, <2>3
<1>send. CASE Send
  <2> USE <1>send DEF Send
  <2>e. from \in Ends /\ at' = "recv" /\ from' = from /\ rb' = rb
        /\ status' = status /\ events' = events /\ taken' = taken
        /\ UNCHANGED peerVars
    BY <1>type DEF TypeOK
  <2>1. ASSUME NothingWritten, iostat' = iostat \/ \E f \in {"ERR", "WDONE"} : Raise(from, f)
        PROVE  BufferInv'
    <3>1. TypeOK'
      <4>1. iostat' \in [Ends -> SUBSET {"RDONE", "WDONE", "EOF", "ERR"}]
        <5>1. iostat \in [Ends -> SUBSET {"RDONE", "WDONE", "EOF", "ERR"}]
          BY <1>type DEF TypeOK
        <5>2. ASSUME NEW f \in {"RDONE", "WDONE", "EOF", "ERR"}, Raise(from, f)
              PROVE  iostat' \in [Ends -> SUBSET {"RDONE", "WDONE", "EOF", "ERR"}]
          BY <5>1, <5>2, <2>e DEF Raise
        <5> QED  BY <5>1, <5>2, <2>1
      <4> QED  BY <2>1, <2>e, <1>type, <4>1 DEF NothingWritten, TypeOK, bufVars, peerVars
    <3> QED  BY <3>1, <2>1, <2>e, <1>type, BufferUnchanged DEF NothingWritten, BufferInv
  <2>2. CASE SkipWrite \/ WriteFails \/ WriteBlocks \/ WritesNothing
    BY <2>2, <2>1 DEF SkipWrite, WriteFails, WriteBlocks, WritesNothing
  <2>3. CASE WritesData
    <3>1. PICK n \in 1..MaxSent :
            n <= rbytes[from] /\ n <= SendRoom(from) /\ Give(from, n)
      BY <2>3 DEF WritesData
    <3>2. n \in Nat \ {0}
      BY PepRelayAssumption, SMT
    <3>3. (BufferTypes /\ BufferAccounts /\ RelaysNext)'
      BY <3>1, <3>2, <2>e, GiveKeeps
    <3>4. TypeOK'
      BY <2>3, <2>e, <3>3, <1>type DEF WritesData, BufferTypes, TypeOK, peerVars
    <3> QED  BY <3>3, <3>4 DEF BufferInv
  <2> QED  BY <2>2, <2>3
<1>end. CASE EndDirection
  <2>1. events' \in [Ends -> SUBSET {"IN", "OUT"}]
    <3>1. from \in Ends /\ events \in [Ends -> SUBSET {"IN", "OUT"}]
      BY <1>type DEF TypeOK
    <3>2. Other(from) \in Ends
      BY DEF Other, Ends
    <3>3. Interested(from) \in SUBSET {"IN", "OUT"}
      BY <3>1 DEF Interested
    <3>4. WantsRoom(from) \in SUBSET {"IN", "OUT"}
      BY <3>1, <3>2 DEF WantsRoom
    <3> QED  BY <3>1, <3>2, <3>3, <3>4, <1>end DEF EndDirection
  <2>2. from' \in Ends /\ at' \in {"poll", "recv", "send", "post"}
        /\ rb' \in BOOLEAN /\ wb' \in BOOLEAN
    BY <1>end, <1>type DEF EndDirection, TypeOK, Ends
  <2>3. TypeOK'
    BY <1>end, <1>type, <2>1, <2>2 DEF EndDirection, TypeOK, bufVars, peerVars
  <2> QED  BY <2>3, <1>end, <1>type, BufferUnchanged DEF EndDirection, BufferInv
<1>post. CASE Post
  <2>1. iostat' \in [Ends -> SUBSET {"RDONE", "WDONE", "EOF", "ERR"}]
    BY <1>post, <1>type DEF Post, TypeOK
  <2>2. TypeOK'
    BY <1>post, <1>type, <2>1 DEF Post, TypeOK, bufVars, peerVars
  <2> QED  BY <2>2, <1>post, <1>type, BufferUnchanged DEF Post, BufferInv
<1>peer. CASE Connected \/ \E e \in Ends :
                PeerSend(e) \/ PeerFin(e) \/ PeerReset(e) \/ PeerRead(e)
  <2>1. UNCHANGED stateVars
    BY <1>peer DEF Connected, PeerSend, PeerFin, PeerReset, PeerRead, stateVars
  <2>2. /\ sent' \in [Ends -> Nat] /\ acked' \in [Ends -> Nat]
        /\ fin' \in [Ends -> BOOLEAN] /\ reset' \in [Ends -> BOOLEAN]
        /\ connected' \in BOOLEAN
    <3>1. /\ sent \in [Ends -> Nat] /\ acked \in [Ends -> Nat]
          /\ fin \in [Ends -> BOOLEAN] /\ reset \in [Ends -> BOOLEAN]
          /\ connected \in BOOLEAN
      BY <1>type DEF TypeOK
    <3>2. CASE Connected  BY <3>1, <3>2 DEF Connected
    <3>3. ASSUME NEW e \in Ends, PeerSend(e) \/ PeerRead(e)
          PROVE  /\ sent' \in [Ends -> Nat] /\ acked' \in [Ends -> Nat]
                 /\ UNCHANGED <<fin, reset, connected>>
      <4>1. sent[e] + 1 \in Nat /\ acked[e] + 1 \in Nat  BY <3>1
      <4>2. CASE PeerSend(e)  BY <3>1, <4>1, <4>2 DEF PeerSend
      <4>3. CASE PeerRead(e)  BY <3>1, <4>1, <4>3 DEF PeerRead
      <4> QED  BY <3>3, <4>2, <4>3
    <3>4. ASSUME NEW e \in Ends, PeerFin(e) \/ PeerReset(e)
          PROVE  /\ fin' \in [Ends -> BOOLEAN] /\ reset' \in [Ends -> BOOLEAN]
                 /\ UNCHANGED <<sent, acked, connected>>
      BY <3>1, <3>4 DEF PeerFin, PeerReset
    <3> QED  BY <1>peer, <3>1, <3>2, <3>3, <3>4
  <2>3. TypeOK'
    BY <1>type, <2>1, <2>2 DEF TypeOK, stateVars, bufVars
  <2> QED  BY <2>1, <2>3, <1>type, BufferUnchanged DEF stateVars, BufferInv
<1>stutter. CASE UNCHANGED vars
  <2>1. TypeOK'  BY <1>stutter, <1>type DEF vars, bufVars, peerVars, TypeOK
  <2> QED  BY <2>1, <1>stutter, <1>type, BufferUnchanged DEF vars, BufferInv
<1> QED  BY <1>poll, <1>recv, <1>send, <1>end, <1>post, <1>peer, <1>stutter DEF Next, Proxy

\* The strengthened invariant holds of every run of the proxy.
THEOREM BufferInvariance == Spec => []BufferInv
  BY InitBuffer, StepBuffer, PTL DEF Spec

\* Every variable keeps its type; no position leaves the mapping.
THEOREM RelayTypeCorrect == Spec => []TypeOK
<1>1. BufferInv => TypeOK  BY DEF BufferInv
<1> QED  BY <1>1, BufferInvariance, PTL

(***************************************************************************)
(* The counters and pointers of a pep_buffer always agree and stay inside  *)
(* the mapping (pepbuf.c 45-63).                                           *)
(***************************************************************************)
THEOREM BuffersAccount == Spec => []BufferAccounts
<1>1. BufferInv => BufferAccounts  BY DEF BufferInv
<1> QED  BY <1>1, BufferInvariance, PTL

(***************************************************************************)
(* What a buffer holds is what comes next in its stream: the proxy relays  *)
(* without loss, repetition or reordering (pep.c 408-461).                 *)
(***************************************************************************)
THEOREM RelaysInOrder == Spec => []RelaysNext
<1>1. BufferInv => RelaysNext  BY DEF BufferInv
<1> QED  BY <1>1, BufferInvariance, PTL
-----------------------------------------------------------------------------
(***************************************************************************)
(* Beyond the buffers: what the flags of an endpoint say is so, and the    *)
(* events of a direction fit its buffer from the moment it was relayed.    *)
(* The next seven conjuncts are what NeverDeaf and ClosedComplete need.    *)
(***************************************************************************)
\* A byte is sent, then read, then written, then read by the other peer, and
\* no more are on their way to it than its socket takes.
StreamsInOrder ==
  \A e \in Ends :
    /\ taken[e] <= sent[e] /\ acked[e] <= given[e]
    /\ given[e] - acked[e] <= Room

\* An emptied buffer starts over: so an empty one is never full.
EmptyRewound == \A e \in Ends : Empty(e) => r_pos[e] = 0

\* End of file was seen after the last byte; an error, because of a reset.
FlagsTrue ==
  \A e \in Ends :
    /\ "EOF" \in iostat[e] => fin[e] /\ taken[e] = sent[e]
    /\ "ERR" \in iostat[e] => \E x \in Ends : reset[x]

NoMoreToRead(e) == Full(e) \/ iostat[e] \cap {"RDONE", "ERR", "EOF"} # {}

\* The loop over one direction ends only when nothing is left to read.
ReadToTheEnd ==
  ~rb /\ (at = "send" \/ (at = "recv" /\ ~wb)) => NoMoreToRead(from)

\* The events wait for what the buffer of this direction still needs.
Settled(e) ==
  \/ "ERR" \in iostat[e]
  \/ /\ "OUT" \in events[Other(e)] <=> ~Empty(e)
     /\ "IN" \notin events[e] => Full(e) \/ "EOF" \in iostat[e]

DirectionsSettled ==
  /\ at # "poll" /\ from = "dst" => Settled("src")
  /\ at = "post" => from = "dst" /\ Settled("dst")

ClosedRests == status = "CLOSED" => at = "poll"

RelayInv ==
  /\ BufferInv
  /\ StreamsInOrder /\ EmptyRewound /\ FlagsTrue /\ ReadToTheEnd
  /\ DirectionsSettled /\ ClosedRests /\ NeverDeaf /\ ClosedComplete

LEMMA EndsFacts ==
  /\ \A e \in Ends : Other(e) \in Ends /\ Other(e) # e /\ Other(Other(e)) = e
  /\ \A e \in Ends : e = "src" \/ e = "dst"
  /\ "src" \in Ends /\ "dst" \in Ends /\ Other("src") = "dst" /\ Other("dst") = "src"
  BY DEF Ends, Other

LEMMA InitRelay == Init => RelayInv
<1> SUFFICES ASSUME Init  PROVE RelayInv
  OBVIOUS
<1> USE PepRelayAssumption
<1>1. BufferInv  BY InitBuffer
<1>2. StreamsInOrder /\ EmptyRewound /\ FlagsTrue
  BY DEF Init, StreamsInOrder, EmptyRewound, FlagsTrue
<1>3. ReadToTheEnd /\ DirectionsSettled /\ ClosedRests
  BY DEF Init, ReadToTheEnd, DirectionsSettled, ClosedRests
<1>4. NeverDeaf /\ ClosedComplete
  BY DEF Init, NeverDeaf, ClosedComplete
<1> QED  BY <1>1, <1>2, <1>3, <1>4 DEF RelayInv

(***************************************************************************)
(* What one step does to the counters of a stream: it leaves the stream    *)
(* alone, reads bytes that were sent into it, or writes bytes it holds to  *)
(* a socket with room for them.                                            *)
(***************************************************************************)
SameStream(e) ==
  /\ taken'[e] = taken[e] /\ given'[e] = given[e]
  /\ r_pos'[e] = r_pos[e] /\ rbytes'[e] = rbytes[e] /\ space_left'[e] = space_left[e]

ReadInto(e) ==
  /\ at = "recv" /\ at' = "send" /\ from = e /\ rb' = TRUE
  /\ \E n \in Nat \ {0} :
       /\ n <= sent[e] - taken[e]
       /\ taken'[e] = taken[e] + n /\ rbytes'[e] = rbytes[e] + n
  /\ given'[e] = given[e] /\ iostat' = iostat

WrittenFrom(e) ==
  /\ at = "send" /\ at' = "recv" /\ from = e /\ wb' = TRUE
  /\ \E n \in Nat \ {0} :
       /\ n <= Room - (given[e] - acked[e])
       /\ given'[e] = given[e] + n
       /\ rbytes'[e] = rbytes[e] - n
       /\ rbytes'[e] = 0 => r_pos'[e] = 0
  /\ taken'[e] = taken[e] /\ iostat' = iostat

LEMMA StreamStep ==
  ASSUME BufferInv, Next, NEW e \in Ends
  PROVE  SameStream(e) \/ ReadInto(e) \/ WrittenFrom(e)
<1> USE PepRelayAssumption
<1>1. CASE UNCHANGED <<bufVars, taken, given>>
  BY <1>1 DEF bufVars, SameStream
<1>2. CASE Receive /\ ReadsData
  <2>1. PICK n \in 1..MaxSent :
          n <= space_left[from] /\ n <= sent[from] - taken[from] /\ Take(from, n)
    BY <1>2 DEF ReadsData
  <2>2. n \in Nat \ {0}  BY <2>1
  <2>3. at = "recv" /\ at' = "send" /\ rb' = TRUE /\ iostat' = iostat /\ given' = given
        /\ from \in Ends
    BY <1>2 DEF Receive, ReadsData, BufferInv, TypeOK
  <2>4. CASE e = from
    <3>1. taken'[e] = taken[e] + n /\ rbytes'[e] = rbytes[e] + n
      BY <2>1, <2>4 DEF Take, BufferInv, TypeOK
    <3> QED  BY <2>1, <2>2, <2>3, <2>4, <3>1 DEF ReadInto
  <2>5. CASE e # from
    <3>1. SameStream(e)
      BY <2>1, <2>3, <2>5 DEF Take, SameStream, BufferInv, TypeOK
    <3> QED  BY <3>1
  <2> QED  BY <2>4, <2>5
<1>3. CASE Send /\ WritesData
  <2>1. PICK n \in 1..MaxSent :
          n <= rbytes[from] /\ n <= SendRoom(from) /\ Give(from, n)
    BY <1>3 DEF WritesData
  <2>2. n \in Nat \ {0}  BY <2>1
  <2>3. at = "send" /\ at' = "recv" /\ wb' = TRUE /\ iostat' = iostat /\ taken' = taken
        /\ from \in Ends
    BY <1>3 DEF Send, WritesData, BufferInv, TypeOK
  <2>4. CASE e = from
    <3>1. given'[e] = given[e] + n /\ rbytes'[e] = rbytes[e] - n
      BY <2>1, <2>4 DEF Give, BufferInv, TypeOK
    <3>2. rbytes'[e] = 0 => r_pos'[e] = 0
      <4>1. r_pos'[e] = IF w_pos[e] + n = r_pos[e] THEN 0 ELSE r_pos[e]
        BY <2>1, <2>4 DEF Give, Drained, BufferInv, TypeOK
      <4>2. rbytes[e] = r_pos[e] - w_pos[e] /\ r_pos[e] \in Nat /\ w_pos[e] \in Nat
        BY OneBuffer
      <4> QED  BY <2>2, <3>1, <4>1, <4>2
    <3>3. n <= Room - (given[e] - acked[e])
      <4>1. SendRoom(e) = 0 \/ SendRoom(e) = Room - (given[e] - acked[e])
        BY DEF SendRoom
      <4> QED  BY <2>1, <2>2, <2>4, <4>1
    <3> QED  BY <2>2, <2>3, <2>4, <3>1, <3>2, <3>3 DEF WrittenFrom
  <2>5. CASE e # from
    <3>1. SameStream(e)
      BY <2>1, <2>3, <2>5 DEF Give, SameStream, BufferInv, TypeOK
    <3> QED  BY <3>1
  <2> QED  BY <2>4, <2>5
<1>4. CASE Poll \/ EndDirection \/ Post \/ Connected
           \/ \E x \in Ends : PeerSend(x) \/ PeerFin(x) \/ PeerReset(x) \/ PeerRead(x)
  BY <1>1, <1>4 DEF Poll, EndDirection, Post, Connected, PeerSend, PeerFin, PeerReset,
                    PeerRead
<1>5. CASE Receive /\ ~ReadsData
  <2>1. NothingRead /\ given' = given
    BY <1>5 DEF Receive, SkipRead, ReadFails, ReadBlocks, ReadsEof
  <2> QED  BY <2>1, <1>1 DEF NothingRead
<1>6. CASE Send /\ ~WritesData
  <2>1. NothingWritten /\ taken' = taken
    BY <1>6 DEF Send, SkipWrite, WriteFails, WriteBlocks, WritesNothing
  <2> QED  BY <2>1, <1>1 DEF NothingWritten
<1> QED  BY <1>2, <1>3, <1>4, <1>5, <1>6 DEF Next, Proxy

\* A step is the proxy's, and leaves the peers alone, or the other way round.
LEMMA WhoseStep ==
  ASSUME BufferInv, Next
  PROVE  \/ Proxy /\ UNCHANGED peerVars
         \/ /\ UNCHANGED stateVars
            /\ \A e \in Ends :
                 /\ sent'[e] \in {sent[e], sent[e] + 1}
                 /\ fin[e] => fin'[e] /\ sent'[e] = sent[e]
                 /\ reset[e] => reset'[e]
                 /\ acked'[e] = acked[e] \/ (acked'[e] = acked[e] + 1 /\ acked[e] < given[e])
<1>1. CASE Proxy
  BY <1>1 DEF Proxy, Poll, Receive, Send, EndDirection, Post
<1>2. CASE Connected
  BY <1>2 DEF Connected, stateVars
<1>3. ASSUME NEW x \in Ends, PeerSend(x) \/ PeerFin(x) \/ PeerReset(x) \/ PeerRead(x)
      PROVE  UNCHANGED stateVars
  BY <1>3 DEF PeerSend, PeerFin, PeerReset, PeerRead, stateVars
<1>4. ASSUME NEW x \in Ends, NEW e \in Ends,
             PeerSend(x) \/ PeerFin(x) \/ PeerReset(x) \/ PeerRead(x)
      PROVE  /\ sent'[e] \in {sent[e], sent[e] + 1}
             /\ fin[e] => fin'[e] /\ sent'[e] = sent[e]
             /\ reset[e] => reset'[e]
             /\ acked'[e] = acked[e] \/ (acked'[e] = acked[e] + 1 /\ acked[e] < given[e])
  <2>1. /\ sent \in [Ends -> Nat] /\ acked \in [Ends -> Nat]
        /\ fin \in [Ends -> BOOLEAN] /\ reset \in [Ends -> BOOLEAN]
    BY DEF BufferInv, TypeOK
  <2>2. CASE PeerSend(x)  BY <2>1, <2>2 DEF PeerSend
  <2>3. CASE PeerFin(x)  BY <2>1, <2>3 DEF PeerFin
  <2>4. CASE PeerReset(x)  BY <2>1, <2>4 DEF PeerReset
  <2>5. CASE PeerRead(x)  BY <2>1, <2>5 DEF PeerRead
  <2> QED  BY <1>4, <2>2, <2>3, <2>4, <2>5
<1> QED  BY <1>1, <1>2, <1>3, <1>4 DEF Next

LEMMA StreamsKeep ==
  ASSUME BufferInv, StreamsInOrder, EmptyRewound, Next
  PROVE  StreamsInOrder' /\ EmptyRewound'
<1> SUFFICES ASSUME NEW e \in Ends
             PROVE  /\ taken'[e] <= sent'[e] /\ acked'[e] <= given'[e]
                    /\ given'[e] - acked'[e] <= Room
                    /\ rbytes'[e] = 0 => r_pos'[e] = 0
  BY DEF StreamsInOrder, EmptyRewound, Empty
<1>1. /\ taken[e] <= sent[e] /\ acked[e] <= given[e] /\ given[e] - acked[e] <= Room
      /\ rbytes[e] = 0 => r_pos[e] = 0
  BY DEF StreamsInOrder, EmptyRewound, Empty
<1>2. /\ taken[e] \in Nat /\ given[e] \in Nat /\ sent[e] \in Nat /\ acked[e] \in Nat
      /\ rbytes[e] \in Nat /\ Room \in Nat
  BY PepRelayAssumption DEF BufferInv, TypeOK
<1>3. CASE Proxy /\ UNCHANGED peerVars
  <2>1. sent'[e] = sent[e] /\ acked'[e] = acked[e]
    BY <1>3 DEF peerVars
  <2>2. CASE SameStream(e)  BY <1>1, <2>1, <2>2 DEF SameStream
  <2>3. CASE ReadInto(e)  BY <1>1, <1>2, <2>1, <2>3 DEF ReadInto
  <2>4. CASE WrittenFrom(e)  BY <1>1, <1>2, <2>1, <2>4 DEF WrittenFrom
  <2> QED  BY <2>2, <2>3, <2>4, StreamStep
<1>4. CASE UNCHANGED stateVars
  <2>1. /\ sent'[e] \in {sent[e], sent[e] + 1}
        /\ acked'[e] = acked[e] \/ (acked'[e] = acked[e] + 1 /\ acked[e] < given[e])
    <3>1. ASSUME Proxy /\ UNCHANGED peerVars
          PROVE sent'[e] = sent[e] /\ acked'[e] = acked[e]
      BY <3>1 DEF peerVars
    <3> QED  BY <3>1, WhoseStep
  <2>2. /\ taken'[e] = taken[e] /\ given'[e] = given[e]
        /\ rbytes'[e] = rbytes[e] /\ r_pos'[e] = r_pos[e]
    BY <1>4 DEF stateVars, bufVars
  <2> QED  BY <1>1, <1>2, <2>1, <2>2
<1> QED  BY <1>3, <1>4, WhoseStep

\* The flag a call raises, if any, and why.
LEMMA FlagStep ==
  ASSUME BufferInv, Proxy, NEW e \in Ends
  PROVE  \/ iostat'[e] \subseteq iostat[e]
         \/ iostat'[e] = iostat[e] \cup {"RDONE"} /\ e = from
         \/ iostat'[e] = iostat[e] \cup {"WDONE"} /\ e = from
         \/ iostat'[e] = iostat[e] \cup {"ERR"} /\ e = from /\ \E x \in Ends : reset[x]
         \/ /\ iostat'[e] = iostat[e] \cup {"EOF"} /\ e = from
            /\ fin[e] /\ taken[e] = sent[e] /\ taken'[e] = taken[e]
<1>type. /\ iostat \in [Ends -> SUBSET {"RDONE", "WDONE", "EOF", "ERR"}] /\ from \in Ends
  BY DEF BufferInv, TypeOK
<1>1. ASSUME NEW f \in {"RDONE", "WDONE", "EOF", "ERR"}, Raise(from, f)
      PROVE  iostat'[e] = IF e = from THEN iostat[e] \cup {f} ELSE iostat[e]
  BY <1>1, <1>type DEF Raise
<1>2. CASE UNCHANGED iostat  BY <1>2
<1>3. CASE Receive
  <2>1. CASE ReadFails  BY <1>1, <2>1, <1>type DEF ReadFails
  <2>2. CASE ReadBlocks  BY <1>1, <2>2, <1>type DEF ReadBlocks
  <2>3. CASE ReadsEof  BY <1>1, <2>3, <1>type DEF ReadsEof, NothingRead
  <2> QED  BY <1>2, <1>3, <2>1, <2>2, <2>3 DEF Receive, SkipRead, ReadsData
<1>4. CASE Send
  <2>1. CASE WriteFails
    BY <1>1, <2>1, <1>type, EndsFacts DEF WriteFails
  <2>2. CASE WriteBlocks  BY <1>1, <2>2, <1>type DEF WriteBlocks
  <2> QED  BY <1>2, <1>4, <2>1, <2>2 DEF Send, SkipWrite, WritesNothing, WritesData
<1>5. CASE Post
  BY <1>5 DEF Post
<1> QED  BY <1>2, <1>3, <1>4, <1>5 DEF Proxy, Poll, EndDirection

LEMMA FlagsKeep ==
  ASSUME BufferInv, FlagsTrue, ReadToTheEnd, Next
  PROVE  FlagsTrue'
<1> SUFFICES ASSUME NEW e \in Ends
             PROVE  /\ "EOF" \in iostat'[e] => fin'[e] /\ taken'[e] = sent'[e]
                    /\ "ERR" \in iostat'[e] => \E x \in Ends : reset'[x]
  BY DEF FlagsTrue
<1>1. /\ "EOF" \in iostat[e] => fin[e] /\ taken[e] = sent[e]
      /\ "ERR" \in iostat[e] => \E x \in Ends : reset[x]
  BY DEF FlagsTrue
<1>2. CASE Proxy /\ UNCHANGED peerVars
  <2>1. fin' = fin /\ sent' = sent /\ reset' = reset
    BY <1>2 DEF peerVars
  <2>2. "ERR" \in iostat'[e] => \E x \in Ends : reset'[x]
    BY <1>1, <1>2, <2>1, FlagStep
  <2>3. ASSUME "EOF" \in iostat'[e], "EOF" \in iostat[e]
        PROVE  taken'[e] = taken[e]
    <3>1. CASE Receive /\ ReadsData
      <4>1. PICK n \in 1..MaxSent : Take(from, n)
        BY <3>1 DEF ReadsData
      <4>2. from # e
        BY <2>3, <3>1 DEF ReadsData, MayRead
      <4> QED  BY <4>1, <4>2 DEF Take, BufferInv, TypeOK
    <3>2. CASE Receive /\ ~ReadsData
      BY <3>2 DEF Receive, SkipRead, ReadFails, ReadBlocks, ReadsEof, NothingRead
    <3>3. CASE Poll \/ Send \/ EndDirection \/ Post
      BY <3>3 DEF Poll, Send, EndDirection, Post
    <3> QED  BY <1>2, <3>1, <3>2, <3>3 DEF Proxy
  <2>4. "EOF" \in iostat'[e] => fin'[e] /\ taken'[e] = sent'[e]
    BY <1>1, <1>2, <2>1, <2>3, FlagStep
  <2> QED  BY <2>2, <2>4
<1>3. CASE UNCHANGED stateVars /\ ~(Proxy /\ UNCHANGED peerVars)
  <2>1. /\ iostat' = iostat /\ taken' = taken
        /\ \A x \in Ends : /\ fin[x] => fin'[x] /\ sent'[x] = sent[x]
                           /\ reset[x] => reset'[x]
    BY <1>3, WhoseStep DEF stateVars
  <2> QED  BY <1>1, <2>1
<1> QED  BY <1>2, <1>3, WhoseStep

\* Nothing happens to a closed connection.
LEMMA ClosedIsOver ==
  ASSUME status = "CLOSED", ClosedRests, Next
  PROVE  FALSE
<1>1. at = "poll"  BY DEF ClosedRests
<1> QED  BY <1>1 DEF Next, Proxy, Poll, Receive, Send, EndDirection, Post, Connected,
                     PeerSend, PeerFin, PeerReset, PeerRead, CanTalk

LEMMA ReadToTheEndKeeps ==
  ASSUME BufferInv, ReadToTheEnd, Next
  PROVE  ReadToTheEnd'
<1>type. iostat \in [Ends -> SUBSET {"RDONE", "WDONE", "EOF", "ERR"}] /\ from \in Ends
  BY DEF BufferInv, TypeOK
<1>0. ASSUME NEW f, Raise(from, f)  PROVE iostat'[from] = iostat[from] \cup {f}
  BY <1>0, <1>type DEF Raise
<1>1. CASE Receive
  <2>1. CASE ReadsData
    BY <2>1 DEF ReadsData, ReadToTheEnd
  <2>2. CASE SkipRead
    <3>1. NoMoreToRead(from)
      BY <2>2 DEF SkipRead, MayRead, NoMoreToRead
    <3> QED  BY <3>1, <1>1, <2>2 DEF Receive, SkipRead, NothingRead, bufVars, NoMoreToRead,
                                     Full, ReadToTheEnd
  <2>3. CASE ReadFails \/ ReadBlocks \/ ReadsEof
    <3>1. \E f \in {"RDONE", "ERR", "EOF"} : iostat'[from] = iostat[from] \cup {f}
      BY <2>3, <1>0 DEF ReadFails, ReadBlocks, ReadsEof
    <3>2. iostat'[from] \cap {"RDONE", "ERR", "EOF"} # {}
      BY <3>1
    <3>3. from' = from
      BY <1>1 DEF Receive
    <3> QED  BY <3>2, <3>3 DEF NoMoreToRead, ReadToTheEnd
  <2> QED  BY <1>1, <2>1, <2>2, <2>3 DEF Receive
<1>2. CASE Send
  <2>1. CASE WritesData
    BY <1>2, <2>1 DEF Send, WritesData, ReadToTheEnd
  <2>2. CASE ~WritesData
    <3>1. NothingWritten /\ at = "send" /\ rb' = rb /\ from' = from
      BY <1>2, <2>2 DEF Send, SkipWrite, WriteFails, WriteBlocks, WritesNothing
    <3>2. iostat[from] \subseteq iostat'[from]
      BY <1>2, <2>2, <1>0 DEF Send, SkipWrite, WriteFails, WriteBlocks, WritesNothing
    <3>3. ~rb => NoMoreToRead(from)
      BY <3>1 DEF ReadToTheEnd
    <3> QED  BY <3>1, <3>2, <3>3 DEF NothingWritten, bufVars, NoMoreToRead, Full,
                                     ReadToTheEnd
  <2> QED  BY <2>1, <2>2
<1>3. CASE Poll
  BY <1>3 DEF Poll, ReadToTheEnd
<1>4. CASE EndDirection
  BY <1>4 DEF EndDirection, ReadToTheEnd
<1>5. CASE Post
  BY <1>5 DEF Post, ReadToTheEnd
<1>6. CASE UNCHANGED stateVars
  BY <1>6 DEF stateVars, bufVars, ReadToTheEnd, NoMoreToRead, Full
<1> QED  BY <1>1, <1>2, <1>3, <1>4, <1>5, <1>6, WhoseStep DEF Proxy

(***************************************************************************)
(* The end of a direction settles it, and does not unsettle the other one: *)
(* the two touch different flags of the same endpoint.                     *)
(***************************************************************************)
LEMMA EndSettles ==
  ASSUME BufferInv, ReadToTheEnd, DirectionsSettled, EndDirection,
         NEW f \in Ends, f = from
  PROVE  /\ Settled(f)'
         /\ f = "dst" => Settled("src")'
<1>type. /\ iostat \in [Ends -> SUBSET {"RDONE", "WDONE", "EOF", "ERR"}]
         /\ events \in [Ends -> SUBSET {"IN", "OUT"}]
  BY DEF BufferInv, TypeOK
<1>1. at = "recv" /\ ~rb /\ ~wb /\ UNCHANGED <<bufVars, iostat>>
  BY DEF EndDirection
<1>2. \A e \in Ends : Empty(e)' = Empty(e) /\ Full(e)' = Full(e) /\ iostat'[e] = iostat[e]
  BY <1>1 DEF bufVars, Empty, Full
<1>3. NoMoreToRead(f)
  BY <1>1 DEF ReadToTheEnd
<1>4. CASE "ERR" \in iostat[f]
  <2>1. events' = events
    BY <1>4 DEF EndDirection
  <2>2. f = "dst" => Settled("src")
    BY <1>1 DEF DirectionsSettled
  <2> QED  BY <1>2, <1>4, <2>1, <2>2, EndsFacts DEF Settled
<1>5. CASE "ERR" \notin iostat[f]
  <2>1. events'[f] = Interested(f) /\ events'[Other(f)] = WantsRoom(f)
    BY <1>5, <1>type, EndsFacts DEF EndDirection
  <2>2. "OUT" \in events'[Other(f)] <=> ~Empty(f)
    BY <2>1 DEF WantsRoom
  <2>3. "IN" \notin events'[f] => Full(f) \/ "EOF" \in iostat[f]
    BY <1>3, <1>5, <2>1 DEF Interested, NoMoreToRead
  <2>4. Settled(f)'
    BY <1>2, <2>2, <2>3 DEF Settled
  <2>5. ASSUME f = "dst"  PROVE Settled("src")'
    <3>1. Settled("src") /\ Other(f) = "src" /\ Other("src") = f /\ f # "src"
      BY <1>1, <2>5, EndsFacts DEF DirectionsSettled
    <3>2. "OUT" \in events'[f] <=> "OUT" \in events[f]
      BY <2>1 DEF Interested
    <3>3. "IN" \in events'["src"] <=> "IN" \in events["src"]
      BY <2>1, <3>1 DEF WantsRoom
    <3> QED  BY <1>2, <3>1, <3>2, <3>3, EndsFacts DEF Settled
  <2> QED  BY <2>4, <2>5
<1> QED  BY <1>4, <1>5

LEMMA DirectionsKeep ==
  ASSUME BufferInv, ReadToTheEnd, DirectionsSettled, Next
  PROVE  DirectionsSettled'
<1>type. /\ iostat \in [Ends -> SUBSET {"RDONE", "WDONE", "EOF", "ERR"}] /\ from \in Ends
  BY DEF BufferInv, TypeOK
<1>1. CASE Receive \/ Send
  <2>1. /\ at # "poll" /\ at' \in {"recv", "send"}
        /\ from' = from /\ events' = events
    BY <1>1 DEF Receive, Send
  <2>2. ASSUME from = "dst"  PROVE Settled("src")'
    <3>1. Settled("src")
      BY <2>1, <2>2 DEF DirectionsSettled
    <3>2. SameStream("src")
      BY <2>2, StreamStep, EndsFacts DEF ReadInto, WrittenFrom
    <3>3. iostat'["src"] = iostat["src"]
      <4>1. ASSUME NEW g, Raise(from, g)  PROVE iostat'["src"] = iostat["src"]
        BY <4>1, <1>type, <2>2, EndsFacts DEF Raise
      <4> QED  BY <4>1, <1>1 DEF Receive, Send, SkipRead, ReadFails, ReadBlocks, ReadsEof,
                                 ReadsData, SkipWrite, WriteFails, WriteBlocks,
                                 WritesNothing, WritesData
    <3> QED  BY <2>1, <3>1, <3>2, <3>3 DEF Settled, SameStream, Empty, Full
  <2> QED  BY <2>1, <2>2 DEF DirectionsSettled
<1>2. CASE EndDirection
  <2>1. CASE from = "src"
    <3>1. Settled("src")' /\ from' = "dst" /\ at' = "recv"
      BY <1>2, <2>1, EndSettles, EndsFacts DEF EndDirection
    <3> QED  BY <3>1 DEF DirectionsSettled
  <2>2. CASE from = "dst"
    <3>1. Settled("src")' /\ Settled("dst")' /\ from' = "dst" /\ at' = "post"
      BY <1>2, <2>2, EndSettles, EndsFacts DEF EndDirection
    <3> QED  BY <3>1 DEF DirectionsSettled
  <2> QED  BY <2>1, <2>2, <1>type, EndsFacts
<1>3. CASE Poll
  BY <1>3 DEF Poll, DirectionsSettled
<1>4. CASE Post
  BY <1>4 DEF Post, DirectionsSettled
<1>5. CASE UNCHANGED stateVars
  BY <1>5 DEF stateVars, bufVars, DirectionsSettled, Settled, Empty, Full
<1> QED  BY <1>1, <1>2, <1>3, <1>4, <1>5, WhoseStep DEF Proxy

LEMMA ClosedRestsKeeps ==
  ASSUME BufferInv, ClosedRests, Next
  PROVE  ClosedRests'
<1>1. status # "CLOSED"  BY ClosedIsOver
<1>2. CASE Poll  BY <1>2, <1>1 DEF Poll, ClosedRests
<1>3. CASE Post  BY <1>3 DEF Post, ClosedRests
<1>4. CASE Receive \/ Send \/ EndDirection
  BY <1>4, <1>1 DEF Receive, Send, EndDirection, ClosedRests
<1>5. CASE UNCHANGED stateVars
  BY <1>5, <1>1 DEF stateVars, ClosedRests
<1> QED  BY <1>2, <1>3, <1>4, <1>5, WhoseStep DEF Proxy

\* A full buffer holds something: an emptied one started over.
LEMMA FullHolds ==
  ASSUME BufferInv, EmptyRewound, NEW e \in Ends, Full(e)
  PROVE  ~Empty(e)
<1>1. space_left[e] = Total - r_pos[e] /\ r_pos[e] \in 0..Total /\ Total \in Nat
  BY OneBuffer
<1>2. r_pos[e] # 0
  BY <1>1, PepRelayAssumption DEF Full
<1> QED  BY <1>2 DEF EmptyRewound

LEMMA NeverDeafKeeps ==
  ASSUME BufferInv, EmptyRewound, FlagsTrue, DirectionsSettled, NeverDeaf, Next
  PROVE  NeverDeaf'
<1>1. CASE Post
  <2>1. /\ at = "post" /\ from = "dst"
        /\ UNCHANGED <<bufVars, events, fin>>
    BY <1>1 DEF Post, peerVars, DirectionsSettled
  <2>2. ASSUME status' = "OPEN"
        PROVE  \A e \in Ends : ~Finished(e)
    BY <1>1, <2>2 DEF Post
  <2>3. ASSUME status' = "OPEN", NEW e \in Ends
        PROVE  /\ "OUT" \in events[Other(e)] <=> ~Empty(e)
               /\ "IN" \notin events[e] => ~Empty(e) /\ (Full(e) \/ fin[e])
    <3>1. Settled(e)
      BY <2>1, EndsFacts DEF DirectionsSettled
    <3>2. "ERR" \notin iostat[e] /\ ("EOF" \in iostat[e] => ~Empty(e))
      BY <2>2, <2>3 DEF Finished
    <3>3. "EOF" \in iostat[e] => fin[e]
      BY DEF FlagsTrue
    <3> QED  BY <3>1, <3>2, <3>3, FullHolds DEF Settled
  <2> QED  BY <2>1, <2>3 DEF NeverDeaf, bufVars, Empty, Full
<1>2. CASE Poll
  BY <1>2 DEF Poll, NeverDeaf
<1>3. CASE Receive \/ Send \/ EndDirection
  BY <1>3 DEF Receive, Send, EndDirection, NeverDeaf
<1>4. CASE UNCHANGED stateVars
  <2>1. \A e \in Ends : fin[e] => fin'[e]
    <3>1. ASSUME UNCHANGED peerVars  PROVE fin' = fin
      BY <3>1 DEF peerVars
    <3> QED  BY <3>1, WhoseStep
  <2> QED  BY <1>4, <2>1 DEF stateVars, bufVars, NeverDeaf, Empty, Full
<1> QED  BY <1>1, <1>2, <1>3, <1>4, WhoseStep DEF Proxy

LEMMA ClosedCompleteKeeps ==
  ASSUME BufferInv, FlagsTrue, ClosedRests, Next
  PROVE  ClosedComplete'
<1>1. status # "CLOSED"  BY ClosedIsOver
<1>2. CASE Poll
  <2>1. status' = "CLOSED" => \E e \in Ends : reset'[e]
    BY <1>2 DEF Poll, peerVars
  <2> QED  BY <2>1 DEF ClosedComplete
<1>3. CASE Post
  <2> SUFFICES ASSUME status' = "CLOSED", \A e \in Ends : ~reset'[e]
               PROVE  \E e \in Ends : fin'[e] /\ given'[e] = sent'[e]
    BY DEF ClosedComplete
  <2>1. UNCHANGED <<given, peerVars>>
    BY <1>3 DEF Post
  <2>2. PICK e \in Ends : Finished(e)
    BY <1>1, <1>3 DEF Post
  <2>3. "EOF" \in iostat[e] /\ Empty(e)
    BY <2>1, <2>2 DEF Finished, FlagsTrue, peerVars
  <2>4. fin[e] /\ taken[e] = sent[e]
    BY <2>3 DEF FlagsTrue
  <2>5. given[e] = taken[e]
    <3>1. /\ taken[e] \in Nat /\ given[e] \in Nat
          /\ rbytes[e] = taken[e] - given[e] /\ rbytes[e] = 0
      BY <2>3, OneBuffer DEF Empty
    <3> QED  BY <3>1
  <2> QED  BY <2>1, <2>4, <2>5 DEF peerVars
<1>4. CASE Receive \/ Send \/ EndDirection \/ UNCHANGED stateVars
  BY <1>1, <1>4 DEF Receive, Send, EndDirection, stateVars, ClosedComplete
<1> QED  BY <1>2, <1>3, <1>4, WhoseStep DEF Proxy

LEMMA StepRelay == RelayInv /\ [Next]_vars => RelayInv'
<1> SUFFICES ASSUME RelayInv, [Next]_vars  PROVE RelayInv'
  OBVIOUS
<1>inv. /\ BufferInv
        /\ StreamsInOrder /\ EmptyRewound /\ FlagsTrue /\ ReadToTheEnd
        /\ DirectionsSettled /\ ClosedRests /\ NeverDeaf /\ ClosedComplete
  BY DEF RelayInv
<1>0. BufferInv'
  BY <1>inv, StepBuffer
<1>1. CASE Next
  BY <1>inv, <1>0, <1>1, StreamsKeep, FlagsKeep, ReadToTheEndKeeps, DirectionsKeep,
     ClosedRestsKeeps, NeverDeafKeeps, ClosedCompleteKeeps DEF RelayInv
<1>2. CASE UNCHANGED vars
  <2>1. UNCHANGED <<status, at, from, rb, wb, r_pos, w_pos, rbytes, space_left, mem, iostat,
                    events, taken, given, sent, acked, fin, reset, connected>>
    BY <1>2 DEF vars, bufVars, peerVars
  <2>2. StreamsInOrder' /\ EmptyRewound' /\ FlagsTrue' /\ ReadToTheEnd'
    BY <1>inv, <2>1 DEF StreamsInOrder, EmptyRewound, FlagsTrue, ReadToTheEnd, Empty, Full,
                        NoMoreToRead
  <2>3. DirectionsSettled' /\ ClosedRests' /\ NeverDeaf' /\ ClosedComplete'
    BY <1>inv, <2>1 DEF DirectionsSettled, ClosedRests, NeverDeaf, ClosedComplete, Settled,
                        Empty, Full
  <2> QED  BY <1>0, <2>2, <2>3 DEF RelayInv
<1> QED  BY <1>1, <1>2

(***************************************************************************)
(* Buffers, flags and events of a connection agree at every step of the    *)
(* poller and the workers (pep.c 408-498, 970-1027).                       *)
(***************************************************************************)
THEOREM RelayInvariance == Spec => []RelayInv
  BY InitRelay, StepRelay, PTL DEF Spec

(***************************************************************************)
(* The connection never sleeps through what it should do: when the poller  *)
(* polls it, every direction that can still move is waited for (pep.c      *)
(* 478-497).                                                               *)
(***************************************************************************)
THEOREM RelayNeverDeaf == Spec => []NeverDeaf
<1>1. RelayInv => NeverDeaf  BY DEF RelayInv
<1> QED  BY <1>1, RelayInvariance, PTL

(***************************************************************************)
(* The end of a stream never overtakes its bytes: a connection no peer     *)
(* aborted is closed only after a half-closed stream was relayed to its    *)
(* last byte (pep.c 1001-1027).                                            *)
(***************************************************************************)
THEOREM RelayClosedComplete == Spec => []ClosedComplete
<1>1. RelayInv => ClosedComplete  BY DEF RelayInv
<1> QED  BY <1>1, RelayInvariance, PTL

(***************************************************************************)
(* No byte is written before it was read, nor read before it was sent, and *)
(* the proxy never overruns the other socket (pep.c 408-461).              *)
(***************************************************************************)
THEOREM RelayStreams == Spec => []StreamsInOrder
<1>1. RelayInv => StreamsInOrder  BY DEF RelayInv
<1> QED  BY <1>1, RelayInvariance, PTL
====
