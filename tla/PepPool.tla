---- MODULE PepPool ----
(***************************************************************************)
(* The poller and the pool of workers of PEPsal (pepsal_min/pep.c).  The   *)
(* poller hands the connections with ready I/O to active_queue and sleeps  *)
(* until as many are back in ready_queue; a worker that was woken serves   *)
(* active_queue until it is empty and hands all it served to ready_queue   *)
(* at once.  Queues are lists of PepList; each has a mutex and a condition *)
(* variable, on which pthread_cond_signal wakes one thread, if one waits.  *)
(* POSIX lets a wait return without a signal.                              *)
(*                                                                         *)
(* Which connections have I/O is open; what serving one does is PepRelay.  *)
(***************************************************************************)
EXTENDS PepList, SequencesExt

CONSTANTS
  Conns,        \* the connections, by their queue node (qnode)
  Workers,      \* the threads of the pool, by their local_list
  ActiveHead, ReadyHead, PollerHead,
  None,         \* nobody; no connection
  MaxSpurious   \* bound: wake-ups without a signal

ASSUME PepPoolAssumption ==
  /\ Nodes = Conns \cup Workers \cup {ActiveHead, ReadyHead, PollerHead}
  /\ Cardinality(Nodes) = Cardinality(Conns) + Cardinality(Workers) + 3
  /\ None \notin Nodes
  /\ MaxSpurious \in Nat

VARIABLES
  L,            \* the nodes of all lists
  activeItems, activeLock,   \* active_queue: num_items, owner of mutex
  readyItems, readyLock,     \* ready_queue: the same
  enqueued,     \* per connection: proxy->enqueued
  poller,       \* where the poller is
  num_works,
  worker,       \* per worker: where it is
  item,         \* per worker: the connection it serves
  ready_items,  \* per worker
  up,           \* FALSE: a list head was used as a connection
  spurious,     \* history: wake-ups without a signal
  clean         \* history: no worker has handed over an empty list

lists == <<L, activeItems, readyItems>>
locks == <<activeLock, readyLock>>
pollerVars == <<poller, num_works, enqueued>>
workerVars == <<worker, item, ready_items>>
vars == <<lists, locks, pollerVars, workerVars, up, spurious, clean>>

PollerAt == {"poll", "give", "wake", "test", "wait", "woken", "post"}
WorkerAt == {"start", "wait", "woken", "test", "serve", "lock", "deliver", "signal"}

Started(W) ==
  /\ L = [Unlinked EXCEPT !.next = [x \in Nodes |-> IF x \in Conns THEN NULL ELSE x],
                          !.prev = [x \in Nodes |-> IF x \in Conns THEN NULL ELSE x]]
  /\ activeItems = 0 /\ readyItems = 0
  /\ activeLock = None /\ readyLock = None
  /\ enqueued = [c \in Conns |-> FALSE]
  /\ poller = "poll" /\ num_works = 0
  /\ worker = [w \in Workers |-> IF w \in W THEN "wait" ELSE "start"]
  /\ item = [w \in Workers |-> None]
  /\ ready_items = [w \in Workers |-> 0]
  /\ up = TRUE /\ spurious = 0 /\ clean = TRUE

\* The poller is created before the workers: it may be at work before they
\* wait for it.
Init == Started({})

\* The first connection comes when some worker waits.
WarmInit == \E W \in (SUBSET Workers) \ {{}} : Started(W)

-----------------------------------------------------------------------------
(***************************************************************************)
(* The poller.  poll has reported the connections S: they are linked into  *)
(* local_list in the order of the pollfds, which is any order here.        *)
(***************************************************************************)
Poll(S) ==
  /\ poller = "poll"
  /\ L' = FoldLeft(LAMBDA m, c : AddToTail(m, PollerHead, c),
                   InitHead(L, PollerHead), SetToSeq(S))
  /\ enqueued' = [c \in Conns |-> enqueued[c] \/ c \in S]
  /\ num_works' = Cardinality(S)
  /\ poller' = "give"
  /\ UNCHANGED <<activeItems, readyItems, locks, workerVars>>

Give ==
  /\ poller = "give" /\ activeLock = None
  /\ activeLock' = PollerHead
  /\ L' = MoveToTail(L, ActiveHead, PollerHead)
  /\ activeItems' = activeItems + num_works
  /\ poller' = "wake"
  /\ UNCHANGED <<readyItems, readyLock, num_works, enqueued, workerVars>>

Sleeping == {w \in Workers : worker[w] = "wait"}

\* PEPQUEUE_WAKEUP_WAITERS of active_queue.
SignalActive ==
  IF Sleeping = {} THEN worker' = worker
  ELSE \E w \in Sleeping : worker' = [worker EXCEPT ![w] = "woken"]

WakeWorker ==
  /\ poller = "wake" /\ readyLock = None
  /\ readyLock' = PollerHead
  /\ SignalActive
  /\ activeLock' = None
  /\ poller' = "test"
  /\ UNCHANGED <<lists, num_works, enqueued, item, ready_items>>

\* Faulty: whatever has come back is taken.
SomeBack == readyItems > 0

AllBack == readyItems = num_works

AwaitReady ==
  /\ poller = "test" /\ ~AllBack
  /\ readyLock' = None
  /\ poller' = "wait"
  /\ UNCHANGED <<lists, activeLock, num_works, enqueued, workerVars>>

PollerWakes ==
  /\ poller = "woken" /\ readyLock = None
  /\ readyLock' = PollerHead
  /\ poller' = "test"
  /\ UNCHANGED <<lists, activeLock, num_works, enqueued, workerVars>>

TakeReady ==
  /\ poller = "test" /\ AllBack
  /\ L' = MoveToHead(InitHead(L, PollerHead), PollerHead, ReadyHead)
  /\ readyItems' = 0
  /\ readyLock' = None
  /\ poller' = "post"
  /\ UNCHANGED <<activeItems, activeLock, num_works, enqueued, workerVars>>

\* The loop over the connections that are back; PepRelay has what it does.
Post ==
  /\ poller = "post" /\ IsListOf(L, PollerHead, Conns)
  /\ enqueued' = [c \in Conns |-> enqueued[c] /\ c \notin ToSet(Walk(L, PollerHead))]
  /\ poller' = "poll"
  /\ UNCHANGED <<lists, locks, num_works, workerVars>>

-----------------------------------------------------------------------------
(***************************************************************************)
(* A worker.  To wait for active_queue it must own its mutex, which the    *)
(* wait gives up.                                                          *)
(***************************************************************************)
Enter(w) ==
  /\ worker[w] = "start" /\ activeLock = None
  /\ L' = InitHead(L, w)
  /\ worker' = [worker EXCEPT ![w] = "wait"]
  /\ UNCHANGED <<activeItems, readyItems, locks, pollerVars, item, ready_items>>

Lock(w) ==
  /\ worker[w] \in {"woken", "lock"} /\ activeLock = None
  /\ activeLock' = w
  /\ worker' = [worker EXCEPT ![w] = "test"]
  /\ UNCHANGED <<lists, readyLock, pollerVars, item, ready_items>>

\* Faulty: num_items is not counted down.
TakeKeepsCount(w) ==
  LET c == L.next[ActiveHead]
  IN /\ worker[w] = "test" /\ activeItems > 0 /\ c \in Conns
     /\ L' = Del(L, c)
     /\ item' = [item EXCEPT ![w] = c]
     /\ activeLock' = None
     /\ worker' = [worker EXCEPT ![w] = "serve"]
     /\ UNCHANGED <<activeItems, readyItems, readyLock, pollerVars, ready_items>>

\* pepqueue_dequeue, and the mutex is released while the connection is served.
Take(w) ==
  LET c == L.next[ActiveHead]
  IN /\ worker[w] = "test" /\ activeItems > 0 /\ c \in Conns
     /\ L' = Del(L, c)
     /\ activeItems' = activeItems - 1
     /\ item' = [item EXCEPT ![w] = c]
     /\ activeLock' = None
     /\ worker' = [worker EXCEPT ![w] = "serve"]
     /\ UNCHANGED <<readyItems, readyLock, pollerVars, ready_items>>

Serve(w) ==
  /\ worker[w] = "serve"
  /\ L' = AddToTail(L, w, item[w])
  /\ item' = [item EXCEPT ![w] = None]
  /\ ready_items' = [ready_items EXCEPT ![w] = @ + 1]
  /\ worker' = [worker EXCEPT ![w] = "lock"]
  /\ UNCHANGED <<activeItems, readyItems, locks, pollerVars>>

NoMore(w) ==
  /\ worker[w] = "test" /\ activeItems = 0
  /\ worker' = [worker EXCEPT ![w] = "deliver"]
  /\ UNCHANGED <<lists, locks, pollerVars, item, ready_items>>

\* pepqueue_enqueue_list, with the mutex of active_queue still held.
Deliver(w) ==
  /\ worker[w] = "deliver" /\ readyLock = None
  /\ L' = MoveToTail(L, ReadyHead, w)
  /\ readyItems' = readyItems + ready_items[w]
  /\ worker' = [worker EXCEPT ![w] = "signal"]
  /\ UNCHANGED <<activeItems, locks, pollerVars, item, ready_items>>

\* Faulty: the poller is not told.
SignalNobody == poller

SignalReady == IF poller = "wait" THEN "woken" ELSE poller

\* PEPQUEUE_WAKEUP_WAITERS of ready_queue, after its mutex was released; then
\* the worker waits again.
SignalAndWait(w) ==
  /\ worker[w] = "signal"
  /\ poller' = SignalReady
  /\ L' = InitHead(L, w)
  /\ ready_items' = [ready_items EXCEPT ![w] = 0]
  /\ activeLock' = None
  /\ worker' = [worker EXCEPT ![w] = "wait"]
  /\ UNCHANGED <<activeItems, readyItems, readyLock, num_works, enqueued, item>>

Work(w) ==
  \/ Enter(w) \/ Lock(w) \/ Take(w) \/ Serve(w) \/ NoMore(w)
  \/ Deliver(w) \/ SignalAndWait(w)

GoOn == Give \/ WakeWorker \/ AwaitReady \/ PollerWakes \/ TakeReady \/ Post

\* A list that holds a list head: what its reader does then is undefined.
Derail ==
  /\ \/ poller = "post" /\ ~IsListOf(L, PollerHead, Conns)
     \/ \E w \in Workers :
          worker[w] = "test" /\ activeItems > 0 /\ L.next[ActiveHead] \notin Conns
  /\ up' = FALSE
  /\ UNCHANGED <<lists, locks, pollerVars, workerVars, spurious, clean>>

\* A wait that returns without a signal.
WakeUnasked ==
  /\ spurious < MaxSpurious
  /\ spurious' = spurious + 1
  /\ \/ \E w \in Sleeping :
          worker' = [worker EXCEPT ![w] = "woken"] /\ poller' = poller
     \/ poller = "wait" /\ poller' = "woken" /\ worker' = worker
  /\ UNCHANGED <<lists, locks, num_works, enqueued, item, ready_items, up, clean>>

HandsOverNothing(w) == worker[w] = "deliver" /\ ready_items[w] = 0

Recorded ==
  /\ clean' = (clean /\ \A w \in Workers :
                           HandsOverNothing(w) => worker'[w] = "deliver")
  /\ UNCHANGED <<up, spurious>>

Next ==
  /\ up
  /\ \/ (\E S \in (SUBSET {c \in Conns : ~enqueued[c]}) \ {{}} : Poll(S)) /\ Recorded
     \/ GoOn /\ Recorded
     \/ (\E w \in Workers : Work(w)) /\ Recorded
     \/ WakeUnasked
     \/ Derail

(***************************************************************************)
(* Threads are scheduled and get a mutex that is free; a connection need   *)
(* never have I/O.                                                         *)
(***************************************************************************)
Fairness ==
  /\ WF_vars(up /\ GoOn /\ Recorded)
  /\ \A w \in Workers : WF_vars(up /\ Work(w) /\ Recorded)

ColdSpec == Init /\ [][Next]_vars /\ Fairness

WarmSpec == WarmInit /\ [][Next]_vars /\ Fairness

-----------------------------------------------------------------------------
(***************************************************************************)
(* Until a worker hands over an empty list, both queues are lists of       *)
(* connections, as long as num_items says, whatever threads do to them;    *)
(* each lock has one owner, and it is one that asks for it.                *)
(***************************************************************************)
QueuesSound ==
  /\ L \in Memory
  /\ activeLock \in Workers \cup {PollerHead, None}
  /\ readyLock \in {PollerHead, None}
  /\ enqueued \in [Conns -> BOOLEAN]
  /\ poller \in PollerAt /\ num_works \in 0..Cardinality(Conns)
  /\ worker \in [Workers -> WorkerAt]
  /\ item \in [Workers -> Conns \cup {None}]
  /\ ready_items \in [Workers -> 0..Cardinality(Conns)]
  /\ up \in BOOLEAN /\ spurious \in 0..MaxSpurious /\ clean \in BOOLEAN
  /\ clean =>
       /\ IsListOf(L, ActiveHead, Conns) /\ activeItems = Length(L, ActiveHead)
       /\ IsListOf(L, ReadyHead, Conns) /\ readyItems = Length(L, ReadyHead)

(***************************************************************************)
(* A connection that was handed over is in one place: no two threads work  *)
(* on it, and it is not lost.  One that was not is nowhere.  When the      *)
(* poller goes on, all it handed over are back: "Poller loop will wait     *)
(* until all connections it gave to worker threads will be fully handled"  *)
(* (pep.c 984).                                                            *)
(***************************************************************************)
Holders(c) ==
  {h \in Workers \cup {ActiveHead, ReadyHead} : c \in ToSet(Walk(L, h))}
  \cup (IF poller \in {"give", "post"} /\ c \in ToSet(Walk(L, PollerHead))
        THEN {PollerHead} ELSE {})

Serving(c) == {w \in Workers : item[w] = c}

OneHolder ==
  clean =>
    \A c \in Conns :
      /\ Cardinality(Holders(c)) + Cardinality(Serving(c)) = IF enqueued[c] THEN 1 ELSE 0
      /\ poller = "post" /\ enqueued[c] => Holders(c) = {PollerHead}

(***************************************************************************)
(* What the poller hands over comes back: "Worker threads ... will preform *)
(* the I/O ... and move it back to the ready_queue" (pep.c 981).  It takes *)
(* a worker that waits when the poller signals.                            *)
(***************************************************************************)
HandedBack == \A c \in Conns : enqueued[c] ~> (~enqueued[c] \/ ~clean)
====
