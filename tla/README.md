# Verification of INTCP and its testbed

This directory models the LEOTP/INTCP code base in TLA+: a transport for paths
of low-orbit satellites that repairs losses hop by hop (`intcp/`), the PEPsal
TCP proxy it is compared with (`pepsal_min/`), the testbed that runs both in an
emulated network (`testbed/`), and the scripts that generate, run and analyse
experiments (`autoTest/`). TLC checks the models on small instances, TLAPS proves
the properties that matter most for every instance.

    tlc -config MCHoleTracker.cfg MCHoleTracker     # any run of the table below
    tlapm HoleTrackerProofs.tla                     # any module of proofs

## The system

**INTCP.** A path has two ground stations with midnodes (satellites) between
them. Every node has a `Cache` and, for each pair of end points, a session
(`IntcpSess`) around an `IntcpTransCB`. Data flows from the responder to the
requester unasked: the responder's `GSsendFunc` numbers the bytes it reads from
a TUN device, caches them and inputs them to its own session, whose `flush`
sends them to the next node. An *interest* for a byte range flows the other
way, only to repair a loss. Each session keeps `dataNextRangeStart`, where the
next range should start, and a list of *holes*. A range that starts later leaves
a hole; a midnode at once announces it downstream with a *data header*, which
counts as received there, so that only one node repairs it. A hole of 10 ms is
asked for, once: the node sends an interest upstream, where the next node that
has the range in its cache answers and the others pass it on.

**PEPsal.** A listener accepts TCP connections, a poller waits for events of
all of them, and worker threads relay bytes between the two sockets of each.

**Testbed.** `Instance.run` builds a Mininet network and starts threads. The
*test* starts the programs under test in the shells of the nodes; *normal* threads
change rates, losses, links and routes meanwhile. A shared latch, `LatchNum`,
counts the tests at work and ends the normal threads; `atomicLock` keeps the
commands of two threads apart, where the code remembers to take it.

**Experiments.** `run.py` is invoked by hand, again and again, with names of sets.
`MyParam.py` makes of each name a `TestParamSet`, the product of choices that
`Param.py` counts up; `Instance.run` runs its tests on a static topology or on a
trace of satellite paths (`get_trace.py`), and `autoAnlz.py` reads the logs they
left and draws curves.

| component | state | operations | hard part | what makes it correct |
|---|---|---|---|---|
| hole tracking (`ikcp.cpp` 646-693, 797-867) | `dataNextRangeStart`, `dataHoles` | `detectDataHole`, `insertDataHole`, `deleteDataHole`, `flushDataHoles` | arrival order, age, a sorted list nobody checks | no byte forgotten, asked for twice or falsely |
| path of sessions (`ikcp.cpp`, `udp_intcp.cpp`, `api.cpp`, `intcp_mid.cpp`) | queues of each session, caches, datagrams under way | `input`, `parseData`, `parseInt`, `request`, `flush`, `recv`, `GSsendFunc`, `onNewSess` | loss, reordering and duplication on several hops; three threads per session | repaired once, delivered once |
| cache (`cache.cpp`) | map of blocks, table of ranges, LRU list | `insert`, `read` | union of ranges, full table, eviction in mid-insertion | read returns exactly the valid prefix |
| send queue and rate (`ikcp.cpp` 201-246, 1890-2003, 2153-2201) | `sndQueue`, `sndQueueBytes`, `dataOutputLimit` | `sendData`, `flushData` | byte accounts, the bucket at its limit | accounts agree, datagrams fit the MTU |
| interest buffer (`ikcp.cpp` 740-795, 1693-1887) | `intBuf`, `intOutputLimit`, `rto` | `flushIntBuf`, `updateIntBuf` | time-out against late answer, dead link | each interest is answered, retried or given up |
| congestion control (`ikcp.cpp` 277-374, 2204-2333) | `cwnd`, RTT minima | `updateCwnd`, `updateHopRTT` | an empty list of minima | - |
| session table (`udp_intcp.cpp` 249-560, 615-834, `api.cpp`) | map from `Quad` to session | `udpRecvLoop`, `GSudpRecvLoop`, constructors | threads started before fields are set | a datagram reaches the session of its end points |
| PEPsal relay (`pep.c` 408-498, 854-1022, `pepbuf.c`) | two `pep_buffer`, flags, events | `pep_receive`, `pep_send`, `pep_proxy_data` | peers act between system calls, partial writes, half-close | in order, nothing lost, never asleep for ever |
| PEPsal connections (`pep.c` 291-406, 500-809, `syntab.c`) | SYN table, pins, status | listener, collector, destruction | three threads destroy or use one object | no use after free, no leaked connection |
| PEPsal worker pool (`pep.c` 970-1055, `pepqueue.c`) | `active_queue`, `ready_queue` | enqueue, dequeue, wait, signal | lost wake-ups | every connection handed over comes back |
| latch and lock (`TbThread.py`) | `LatchNum`, `atomicLock` | `LatchFunc`, `NormalFunc`, `atomic`, `sleepWithCaution` | a thread that dies counts itself out nowhere | the experiment lasts as long as its tests |
| testbed (`Instance.py`, `RealNetwork.py`, `linkDnmcThreads.py`, `userThreads.py`) | shells, routing tables, interfaces, programs | tests, `LinkUpdate`, `DynamicLinkUpdate`, `MakeItm`, `Init`; `setRoute`, `clearRoute`, `routeReset` | several threads in one shell; routes change under traffic | packets follow the path, no loop at any moment; servers before clients |
| experiment (`run.py`, `MyParam.py`, `Param.py`) | defaults, test sets | `getTestParamSet`, `TestParamSet.add` | defaults shared by all sets of a process | every combination once, with a name of its own |
| traces (`get_trace.py`) | paths per second, numbers of satellites | `get_trace`, `get_complete_trace`, `get_complete_relay_only_trace` | links gathered over all seconds, used both ways | the network has each link of each path once |
| analysis (`autoAnlz.py`) | log files | `generateLog`, `loadResult`, `anlz`, `plotByGroup` | logs of earlier or stopped invocations | read only the logs of its tests; a curve is a function of x |

## Modules

| module | models |
|---|---|
| `HoleTracker` | what one session promises about the bytes it misses; abstract: holes are a set of bytes with ages |
| `HoleTrackerProofs` | its invariants, for every stream and all time-outs |
| `DataHoles` | the list algorithms: `insertDataHole`, `deleteDataHole`, the cutting of `flushIntQueue` and `sendData`, the search of `parseInt` |
| `HoleList` | those algorithms beside the sets they stand for, on every list they can build |
| `HopChain` | the whole path; uses `DataHoles`, and implements `HoleTracker` at every node |
| `BlockCache` | `cache.cpp`, one name or several |
| `PepRelay` | one proxied connection, its two peers, the poller and the worker |
| `PepRelayProofs` | the relay's buffers, flags and events, for every size |
| `SendQueue` | the sending half of a session: queue, byte account, bucket, packing |
| `SendQueueProofs` | its accounts, for every MTU, rate and stream |
| `PepList` | the circular linked lists of `list.h`, pointer by pointer |
| `PepPool` | poller, workers, `active_queue` and `ready_queue` on those lists |
| `HopChainProofs` | the list algorithms for every MSS, stream and queue; the sessions of a path of any length |
| `FoldProofs` | induction over the natural numbers, over a fold and over a flattened sequence |
| `BlockCacheProofs` | the cache, for every block length, table size and number of blocks |
| `PepPoolProofs` | the lists pointer by pointer, and who holds which connection, for every number of connections and workers |
| `MCHoleTracker` | a finite instance of `HoleTracker` |
| `Latch` | what the threads of an experiment promise each other; abstract: phases and a counter |
| `Routes` | routing tables: the commands of `setStaticRoute`, `setRoute`, `clearRoute`, `routeReset`, and where packets go |
| `UserThreads` | each thread's function as a sequence of commands and waits |
| `Testbed` | `Instance.run` with its threads, shells and lock; implements `Latch` |
| `TestbedProofs` | that it does, for all experiments and sets of tests; that the counter counts, that servers are started before clients, that atomic commands lose no thread |
| `MCTestbed` | the experiments to check |
| `Trace` | topologies and traces: satellite paths, their links, rates, losses |
| `ParamSets` | `Param.py`: default parameters, `TestParamSet.add`, names, keys |
| `TpSets` | the sets of `MyParam.py`, as data |
| `Analysis` | the files a test writes and an analysis reads, the curves it draws, where it raises |
| `Experiment` | invocations of `run.py`, over all of these |
| `MCExperiment` | a constellation of twelve satellites, and the invocations to check |

Some definitions come in a second, *faulty* form that stands before them and
says so in its comment. No specification uses these; they document the mistake
that the property named with them in `PROJECT.json` would catch.

### HoleTracker and HopChain

`HoleTracker` has one action per way a range can meet `dataNextRangeStart`
(`Expected`, `Retransmitted`, `Jumped`, `LeftHole`: the branches of
`detectDataHole`), `Flush(F)` for one flush of the update thread - `F` is what
a consumer asked for, which `flushIntBuf` sends and cuts out of the holes - and
`Tick` for the clock. An expired hole is erased, read and erased again
(`flushDataHoles` 840-862): the process may die of it (`up = FALSE`) or go on.
Five history variables record what was seen, asked for, forwarded and skipped.

`HopChain` strings `0..K` such sessions together. Node 0 is the responder, K the
requester. Its actions are the three threads of a session and the network: the
receive loop (`TunRead`, `ReceiveData`, `ReceiveInt`), the update thread
(`Flush`, in the order of `flush`: interests, ripe holes, data), the
application (`CacheReceived`, `TunWrite`), the clock (`Age`), and `Lose`,
`Reorder`, `Duplicate` on any hop. `Input`, `ParseData`, `ParseInts` and
`DetectDataHole` are functions of a session, named like the functions they
model. `TracksHoles` is the refinement: the list of holes maps to the set of
bytes it covers, and every step of the path is, at each node, a step of
`HoleTracker` or none.

Left out of `HopChain`: how much a flush may send (any prefix of `sndQueue`
leaves; the bucket is a component of its own), keepalive interests `[0, 0)`,
cache eviction (`BlockCache` has it), creation of sessions, the gap of
100 * INTCP_MSS (in `HoleTracker`), and the two checks for inconsistent lengths,
which no sender of this code can fail. Segments that share a datagram are
received in steps of their own, but lost together (`Packed`). The update thread
runs before a ripe hole ages more; the stalled thread is in `HoleTracker`.

### BlockCache

A block is its table of ranges, `lastPos`, and the positions memcpy has filled.
Names are model values, `[0, 0)` marks a free slot as in the code. Both
operations hold the lock throughout and are one action each; their loops over
blocks are folds, so that a full table can end an insertion half-way.

### PepRelay

Bytes are numbered per direction, `mem` is the buffer's memory. The proxy steps
are `Poll` (poll returns and hands the connection over), `Receive` and `Send`
(one system call each), `EndDirection` (the choice of events) and `Post` (what
the poller does with the result). Peers send, read, half-close and abort between
any two of them; the destination may be still connecting when the relay starts.
Left out: other connections, the queues between poller and workers (`PepPool`
has both), and the freeing of the connection.

### SendQueue

A segment is the length of its payload (0 for a data header) and, as history,
its place in all bytes ever queued. The receive loop queues segments between the
steps of the update thread: `Forward` (data and headers passed on), `Interest` and
`AnswerPiece` (what `parseInt` finds in the cache, cut at the MSS). A flush is a
sequence of steps under the session's lock, with the clock running: `StartFlush`,
`AskForHole` for a ripe hole, `Refill` of the bucket, `SendSegment` while bucket and
queue allow, `EndFlush`. `filled` is what `tmpBuffer` holds. Times are relative to
now; the update thread may be late by `MaxGap`. The rate is any of a set: how
`getDataSendRate` finds it is floating point and left out.

### PepPool and PepList

`PepList` keeps `next` and `prev` of all nodes and does each operation's
assignments in the code's order, so that a misuse corrupts the lists as it would
the program's. In `PepPool` a step is what a thread does between two operations
on a mutex or condition: the poller's `Poll`, `Give`, `WakeWorker`, `AwaitReady`,
`PollerWakes`, `TakeReady`, `Post`; a worker's `Enter`, `Lock`, `Take`, `Serve`,
`NoMore`, `Deliver`, `SignalAndWait`. A signal wakes one waiting thread or
nobody; `WakeUnasked` is the return without a signal that POSIX allows.

A worker woken so, when there is nothing to do, calls `list_move2tail` with an
empty list, which links the list's head into `ready_queue`. From then on
(`clean = FALSE`) the lists may lead to a head taken for a connection, which is
undefined (`Derail`, `up = FALSE`); the properties speak of the time before.

### Latch, Routes, UserThreads and Testbed

A thread of `Testbed` is a sequence of commands (`todo`) that `UserThreads`
translates from its function: a command runs in the shell of a node and starts or
kills a program, changes a route or an interface, or only reads or configures
(`Note`); between them are `time.sleep`, `sleepWithCaution` and the test of
`latchRunning()`. A command under `atomic()` is `Acquire`, `Call`, `CallReturns`;
the others call at once. Mininet asserts that a shell is not waiting, so a call
into a shell that another thread uses is `Die`: nobody catches the `AssertionError`,
the thread is lost, a test lost so never counts itself out, and a lock it holds stays
taken. `Effect` is what the command does to `table`, `down` and `procs` when it
returns. `Begin` and `Finish` are `LatchFunc`, `Wake`, `Again`, `Return` and `Leave`
are `NormalFunc` with the loops of its function, and `MainStep` is `Instance.run`:
build the network with its first routes, start threads, hold the latch
while the command line is open (`--m`), join.

`Routes` reads and writes tables as lists of entries, as `route` does: an
`add` needs a reachable gateway and refuses a second copy, and an interface that goes
down takes its entries with it. `Follows` and `Loops` say where packets for an address go.

`Latch` keeps of all this the phases of the threads and the counter.
`ImplementsLatch` maps tests and main thread to latch threads.

Abstracted: values of rates and losses; output of commands; what programs do once
started. `LatchNum += 1` is one step (see the hazards). `Wake` comes after all tests
have counted themselves in: `NormalFunc` sleeps half a second first, in which the
main thread starts the threads. What starts `intcpm` and `pepsal` in
`start_midnode_processes` stands in a string literal and does not run. An experiment
names the normal threads considered beside its test, to keep instances small.

### TpSets, ParamSets, Trace, Analysis and Experiment

`TpSets` is the table of all 52 sets of `getTestParamSet`: for each, the defaults it
changes (`lp`, `ap`), its topology, the values and dictionaries of its calls
of `add` and what its analysis is keyed by. `ParamSets` turns these into tests,
`Trace` makes the networks, and `Analysis` says of each kind of test which files it
deletes, truncates or extends, and of an analysis which it reads, which tests a
curve joins in which order, and the cases in which the code raises.

`Experiment` has a history of invocations: `Invoke` (a new process, so the defaults
are fresh), `getTestParamSet` (which changes them for the sets after it), `StartTest`
(the network, the old logs deleted), `EndTest`, `AllTested`, `Anlz`, `Finish`, and
`Interrupt` by ^C at any point, after which a running test may end by itself
or be ended with any prefix of its logs written (`Joined`). A piece of a log is
the invocation that wrote it and whether it is whole; `logs` outlives the process.

Abstracted: fractions are in hundredths, and the sine of `gen_delay_ack_trace` stays at
its mean; parsing and averaging of logs; the geometry of the constellation (`HopRtt`)
and the forwarding tables it yields (`Fstates`) are constants; style and layout of
figures.

## Runs

| run | bounds | shows |
|---|---|---|
| `hole_tracker` | 5 bytes, ages 0..2, gap limit 2 | `TypeOK`, `NoByteForgotten`, `TriedOnce`, `NoFalseHole` |
| `hole_expired` | same | **violated**: `ExpiredNotAsked` |
| `hole_list` | 6 bytes, MSS 2, 2 queued interests | `HolesSound`, `InterestsCoverQueue`, `AnswerSplits` |
| `hop_chain` | K = 2, 4 packets of 1 byte, 2 faults (loss, reordering) | `DeliveredOnce`, `InOrderNoFalseHole`, `EveryInterestAnswered`, `TracksHoles` |
| `hop_repair` | K = 2, 3 bytes in packets of 1 or 2, 2 segments per datagram, 1 fault of any kind | `Repaired` (liveness) |
| `block_cache` | 3 blocks of 5 bytes, 2 ranges per table, 2 blocks kept, ranges of 1 or 2 bytes | `CacheSound`, `ValidIsWritten`, `ReadIsPrefix`, `KeepsValid` |
| `pep_relay` | buffer of 2 bytes, send queue of 1, 2 bytes each way | `BufferAccounts`, `RelaysNext`, `NeverDeaf`, `ClosedComplete`, `Relayed`, `ClosesAfterFin` |
| `send_queue` | MSS 3, overhead 2, rates of 1 and 4 bytes per interval, 12 bytes queued, one interval late | `BytesAccount`, `DatagramsWhole`, `BucketBound`, `Drains` |
| `pep_pool` | 2 connections, 2 workers, 2 wake-ups without a signal | `QueuesSound`, `OneHolder`, `HandedBack` |
| `pep_pool_cold` | same, none | **violated**: `HandedBack` |
| `testbed` | 7 experiments: linear topologies with and without midnode and dummy node, one manual, one with interrupted links, the fairness topology, two on traces of three paths | `Routed`, `NoForwardLoop`, `NobodyDies`, `ImplementsLatch`, `ServedFirst`, `AtomicReturns` (liveness) |
| `experiment` | each of the 52 sets alone and analysed again, 7 run twice, 2 manual, every pair of 9 in one process, 1 dry; 12 satellites, 4 seconds | `Enumerates`, `NetFits`, `CurvesSound`, `OwnLogs`, `FailsAsKnown` |

Why the bounds are enough. Five bytes hold two holes with data between them,
below and above, and a range over both. With MSS 2 a range of six is cut into
three pieces, and two queued ranges touch, overlap or neither. With K = 2 there
is one node that finds a hole and forwards, and one behind it that must be kept
from asking; two faults let a repair, or a header, meet a fault itself. A table
of two ranges overflows with three short ranges in a block of five bytes, and
two kept blocks out of three make an insertion evict what it needs. A buffer of
two bytes and a send queue of one give full buffers and partial writes. Two
connections and two workers are one worker that serves while the other is woken,
and lists longer than one to splice; two wake-ups can reach both workers, or a
worker and the poller. An MTU of five bytes holds two headers or one full segment,
and at a rate of one a full segment needs five flushes. The three traces
`<<1,2>>`, `<<2,1>>`, `<<2>>` use a link in both directions, let a node leave the path
and come back, and change between paths that share all nodes or some. The sets of `experiment` are the real ones, not samples; nine of
them, one for each way of changing defaults, are paired in both orders. Its
paths over four seconds repeat, turn round and change their length.

What `hop_chain` says of a path that loses once: nothing reaches the TUN device
twice. TLC shows this to be exact: with two losses (the data on the first hop
and the header on the second) it fails, and `Repaired` fails when the repair is
lost behind the node that announced the hole. Both follow from asking once.

Fairness (`HopChain!Fairness`): the loops of the code never end - the receive
loop, the update thread every millisecond, the application's loop - and the
token bucket is refilled at each flush, so weak fairness of receiving, of
flushing everything, of ageing and of the application. Nothing makes the source
send. `PepRelay!FairSpec`: the poller and workers keep running, a connect that is
not refused completes, a peer reads what arrives. The last is an assumption
about peers, without which no proxy delivers. `PepPool!Fairness` and that of
`SendQueue`: threads are scheduled, a mutex that is free is obtained, the update
thread flushes again and again. No connection need have I/O.
`Testbed!Fairness`: threads are scheduled and commands end. `LinkUpdate` may take
`atomicLock` again and again but sleeps in each round, so a test and `Init`, which
want it infinitely often, get it (strong fairness).

`NobodyDies` and `AtomicReturns` speak of experiments all of whose commands are under
`atomic()` (`AllAtomic`): those on a static topology without interrupted links. For the
others they do not hold, see below.

**Findings.** `hole_expired`: `ikcp.h` 78 says of `INTCP_SNHOLE_TIMEOUT` "after
1000ms, don't care anymore" (and sets 200). `flushDataHoles` erases an expired
hole and goes on using it: when the freed node has kept its contents, the hole is
asked for like any other.

`pep_pool_cold`: `pep.c` 977-981 says that workers move what they are given "back to
the ready_queue", for which the poller waits. `workers_loop` waits on the condition
before it tests `num_items`, and `main` starts the poller before the workers: a
signal given while no worker waits yet is lost, and the poller, which waits for
the work to come back, gives no other. `pep_pool` starts when some worker waits,
and shows that this is the only way: then what is handed over does come back.

**Observed while modelling.** These are no findings, as no document says otherwise;
where a property has to make an exception for one, the exception is named in it.

- `setRoute`, `clearRoute`, `routeReset` and `ping` call `node.cmd` without `atomic()`
  while tests, `Init` and `LinkUpdate` use the same shells. The assertion of Mininet
  ends whichever comes second; a test that dies keeps `LatchNum` positive, and
  one that dies in `atomic()` keeps the lock: `Instance.run` then joins for ever.
- `kill_intcp_processes` kills `intcpm`, while what runs is `intcptc` and `intcpts`
  (`userThreads.py` 55): with several rounds the old ones go on.
- `routeReset` assumes that the links form one chain; a subnet index of 99 or more is
  the address of another subnet's (`RealNetwork.py` 223); all links share one K
  (`linkDnmcThreads.py` 23).
- `loss_test_1` configures `m2_gs2`, which its shorter topologies lack: `LinksParam`
  makes the parameters up and nothing uses them (`NetFits`).
- Two sets vary something else than the x they draw (`NotFunctions`), seven cannot be
  drawn (`Undrawable`); a static set after a dynamic one in the same process inherits
  `dynamic = 1` and fails in `Instance.run` (`FailsAsKnown`); a few sets assign no
  topology and fail when asked for (`Unbound`). `run.py` 35 names a set
  `dynamic_sim_test_3` that does not exist.
- A run that was stopped and an analysis with `--a` after it mix logs of two
  invocations; `OwnLogs` therefore speaks of an analysis that follows its tests.
- In `MyParam.py`, a test named `in_pep_sendq_15` of `owdThrpBalanceNew` has 12, and the
  `cubic` one of `flow_test_2` uses bbr. No set sets `route_algorithm`.
- An unreachable city gives a path `None` and a `TypeError` (`get_trace.py` 153).

## Proofs

`HoleTrackerProofs` proves, for every set of positions and all values of the
time-outs, `TypeOK`, `NoByteForgotten`, `TriedOnce`, `NoFalseHole` and
`FrontierGrows`, the last without a run beside it. `TriedOnce` is not inductive alone: a new hole must not contain
a byte already asked for, which holds because everything missing or asked for
lies below `dataNextRangeStart`. `NoFalseHole` needs `SeenBelowNext`: until a range
straddles `dataNextRangeStart`, nothing at or above it was seen. `IInv` is the
conjunction; its preservation has one lemma per action and, for an arrival, one
case per branch of `detectDataHole`.

`PepRelayProofs` proves `TypeOK`, `BufferAccounts` and `RelaysNext` for every
mapping size, socket size and stream length: the assertions of `pepbuf.c` cannot
fail and the bytes between the pointers are the next ones of the stream.
`BufferInv` is the conjunction, inductive together only - that a read fits
follows from the accounts, that it lands after the held bytes from both. The
argument is per end point (`Sound`), with a lemma for a read (`TakeKeeps`) and one
for a write (`GiveKeeps`, which splits on whether the buffer is emptied).

`SendQueueProofs` proves `TypeOK`, `BytesAccount`, `DatagramsWhole` and
`BucketBound` for every segment size, overhead, set of rates and delay.
They are one invariant (`SendQueueInvariance`). The places of the segments tile
the bytes queued and not yet sent, which turns the sum over the queue into a
difference; `WithinQueued` adds that no segment lies beyond what was queued, so that
subtracting its cost does not go below zero. One lemma for all that queue
(`EnqueueKeeps`), one per step that sends, one for the rest.

(`TypeOK` of these two is proved only; their runs spend their properties on others.)

`PepRelayProofs` goes on to `NeverDeaf` and `ClosedComplete`, also for every size.
Neither is inductive: what a direction waits for is decided at its end, after the
other end may have moved. `RelayInv` adds to `BufferInv` what holds between: a
direction stops reading only when nothing is left to read (`ReadToTheEnd`), a direction
already relayed in this round is `Settled`, the flags `EOF` and `ERR` tell the truth
(`FlagsTrue`), and an emptied buffer is rewound, without which an empty one could be full.
The proof follows what a step does to one stream (`SameStream`, `ReadInto`, `WrittenFrom`),
so that the interleaving with the peers is a case of its own.

`FoldProofs` has what the provers lack: induction. The library's induction theorems
take operators, which none of the provers can instantiate; but a well-founded relation
has a minimal element in every set (`WFMin`), which is first-order, and `<` on the
natural numbers is well-founded. From this come `Induct`, with a set for the property,
and `IterExists`: the function by which `FoldLeft` is defined exists, so that a fold is
the end of a chain of accumulators (`ChainExists`). `FlattenSeq` is one too
(`FlattenChain`), and `FlattenPlaces` says what is in the result and in which order.
`MaxIn` and `MinIn` give `Max` and `Min` of a finite set of numbers a value.

`PepPoolProofs` proves `QueuesSound` and `OneHolder` for every number of connections and
workers, started cold or warm. Lists are followed pointer by pointer: a `Ring` is the
sequence of nodes that `next` leads through and `prev` leads back through, and there is a
lemma for what each operation of `list.h` makes of the rings of all heads (`HoldsAppend`,
`HoldsPop`, `HoldsMove`, `HoldsLink`), `list_move2tail` of a whole list included, and one
that `next^i` walks the ring, which `Length` and `IsListOf` are defined by (`RingWalk`).
`PoolInv` has three parts. `Base` needs no lists: who owns a mutex, and `Counts`, which
says that what is queued, under way and handed over makes `num_works`; a connection under
way is a *token* `<<worker, i>>`, so that a sum over the workers is the cardinality of a set.
`Marks` bounds the rest. `Placed(seg)` says, while `clean`, that rings `seg` partition
the connections handed over and not being served, with lengths that agree with the counters;
`NeverDerails` follows: no worker takes a list head for a connection. The candidate
was run through TLC on both instances before it was proved. `PoolExclusion` is what
survives an empty list being handed over: the mutexes and the counts.

`HopChainProofs` has the list algorithms, `HoleList` and the path in one module (it
extends both, which is why the names of `HoleList` are its own). The three
properties of `HoleList` are proved for every MSS, length of stream and queue.
`CutHoleIs` says what an iteration of `deleteDataHole` leaves of a hole, `DeleteIs` what
all of them leave of a list: as it is sorted, a hole behind the first unread one has no
byte of the range. `ListInv`, the inductive invariant, adds to `HolesSound` that every
hole ends at `dataNextRangeStart` or before, so that `insertDataHole` may append.
`InterestsCoverQueue` is an induction over the queue with two chains side by side,
the ranges joined so far and the interests cut without joining (`JoinNextIs`,
`RunsAre`); that joining needs no more interests is a fact about division
(`TogetherNoMore`). `AnswerSplits` follows from `PiecesAre` for any cache.

On the path, `PathInvariance`, `AllInterestsAnswered` and `SessionsTrackHoles` hold for
every K, MSS, packet size and number of faults of any kind. `PathInv` says that a stream
`[lo, packetId)` is under way: every range in a session, a queue or a link lies in
it, the responder caches all of it, and every session's holes are sorted, disjoint and
end before its `next`. It is inductive because nothing makes bytes up: what a node
asks for it found missing below its `next` or was asked for, what it sends it received or
has cached. That the responder is never asked in vain (`EveryInterestAnswered`)
follows: an interest that reaches it lies in the stream. The refinement `TracksHoles`
goes through `Moves(s, t)`, what a step may do to a session: nothing (`Keeps`), take a
range in (`Arrives`), send interests (`Flushes`), age (`Ages`), each stated on the set of
missing bytes (`MissOf`) that the list of holes stands for. Three groups of lemmas lead
there: what inserting, deleting, selecting and ageing do to `MissOf` (`InsertMiss`,
`DeleteMiss`, `SelectMiss`, `AgeMiss`); what the handlers do to a session (`InputIs`,
`ParseIntsIs`, `FlushedIs`); one lemma per action of the path.

`NoFalseHoleInOrder` says that on a path that only loses datagrams, of any length, the
first two sessions behind the ground station take nothing they have seen for a hole and
meet no range across their `next`. Its invariant is `SeqInv`:

- `SeenOK`: unless a session has met a straddling range, all it has seen is below its
  `next` and none of it is missing. `Kept`: node 1 caches only what it has seen.
- `BehindAt(lo, n)`: node n and all behind it have, or ask for, nothing above node n's
  `next`, and interests end before it.
- `OrderAt`, as long as datagrams were only lost. What comes to node 1 is `InLine`: either a
  repair below its `next`, or new and behind all that comes before it. What comes to node 2 is
  `InOrder`: take as `Stops` the places where its `next` may stand when a range arrives.
  No range under way straddles one; no two ranges asked for by node 1 touch across one,
  as `flushIntQueue` would join them; and of each byte from `next` on at most one answer or
  request exists. Each step has its lemma about `InOrder`: node 1 passes a
  range on (`OrderPass`), finds a hole before it (`OrderGap`), asks for what it misses
  (`OrderFlush`), answers node 2 or asks on its behalf (`OrderServe`); the responder sends
  new data (`OrderRead`) or answers (`OrderAnswer`); node 2 takes a range in (`OrderOn`).
  What later nodes do leaves it alone (`OrderFar`).

There is no such order for a third session. Node 1 may join a hole of its own with the
interest node 2 sent it, which touches it, and the sender answers with one segment that
lies partly below and partly above what node 3 expects next.

`TestbedProofs` proves `LatchImplemented`: for all experiments and tests (finitely many
and disjoint from the normal threads, `TestsAssumption`), every step of `Testbed` is a
step of `Latch` or leaves its variables alone. Step by step no invariant is needed, as
the guards of a thread's steps speak of its phase and of the counter. `LatchInvariance`
is about `Latch` alone: `LatchNum` is the number of latch threads in their function or
lost in it, and `OutlastsLatch`, when a normal thread has left because of the counter,
every latch thread is over. One invariant, with `AwakeAfterBegin` to join the two: no
normal thread is awake before every latch thread has begun. `TestbedOutlasts` puts the two
together: both facts hold of every experiment, whatever its commands.

The other two theorems are about the commands, for any links, paths, topos, rounds and
flows. Of an experiment they assume what Mininet and the scripts do
(`ExperimentsAssumption`): its fields have their types, the hosts and ground stations are
nodes of a static network, and the links configured are links of it.

- *`TestbedServedFirst`.* `Meets(e, P, s)` says of a sequence `s` that every program it
  starts finds what it needs, if `P` runs when `s` begins: it ran then or `s` has started
  it, and `s` has not killed it since. It is a fact about the sequence alone, so
  each test is taken apart as its function is written: servers and clients (`PairsFlow`),
  proxies (`StartReady`), kills (`KillsSilent`), several flows (`FairnessReady`), and rounds
  (`TimesReady`, which is where the kills at the end of a round matter). `BodyReady` gives
  `Meets(e, {}, Body(t, e))` for each test. `TodoInv` is inductive: what is left of a test
  meets its needs with the programs that run now (`TailMeets`), what is left of every other
  thread starts and kills nothing (`Quiet`), and only one test has anything to do.
- *`TestbedNobodyDies`.* `RoundQuiet` and `BodyReady` say besides that on a static network
  without interrupted links every command is under `atomic()`, in a node of the network.
  `ShellInv` is inductive with that: a thread in a command holds `atomicLock`, and a shell that
  runs a command runs the one its thread is in. So whoever holds the lock and is about to
  call finds every shell free (`ShellsFree`), and nobody dies.

`BlockCacheProofs` proves all four properties of `BlockCache`, `CacheSound`,
`ValidIsWritten`, `ReadIsPrefix` and `KeepsValid`, for every block length, table size,
number of blocks (two at least) and stream. From below:

- *One search for a union.* A round of `JoinFirst` either settles the search or frees
  one slot more (`JoinRound`), and there are `SegNum` of them, so `SegNum + 1` rounds
  settle it (`JoinFold`, `JoinSettles`). `Settled` means: no range left touches the new
  one, or one holds all of it; `Joined` holds after every round: no valid byte is lost and
  none made up (`SameHolds`). `StoreKeeps` adds the slot the range is stored in, also when
  the table is full and a range is overwritten.
- *The list.* `AddBlockIs` says what `addBlock` makes of list and map, whether or not
  the first block is dropped; `UpdateKeeps` that `updateLRU` only reorders.
- *The loops.* An insertion is a chain of accumulators, one per block visited
  (`InsertChain`), each related to the next by `RoundOf`. For `read`, `Reached` says
  after each block that everything up to the place reached is valid and, if the loop has
  stopped before the end, that the next byte is not (`ReadRound`, `ReachesOn`).

`CacheInv` is inductive: tables apart in their blocks, list and map agree, valid bytes
copied or the block `overflown`. It joins `CacheSound` and `ValidIsWritten`, so that
an insertion finds the table as the search needs it. From it `ReadIsPrefix` follows in
every state: `read` takes the first slot that covers a byte, and as ranges neither overlap
nor touch, where that range ends no other goes on. `KeepsValid` is about a step: an
insertion of at most BLOCK_LEN bytes visits two blocks (`BlocksVisited`), and whatever
it drops was there before (`OldFirst`), as there is room for two. That is where
`MaxLen \in 1..BlockLen` and `MaxBlocks >= 2` are used.

Only model-checked: liveness (`Repaired`, `Relayed`, `ClosesAfterFin`, `Drains`,
`HandedBack`, `AtomicReturns`), which is beyond the provers; `DeliveredOnce`
of `HopChain`, see below; routes (`Routed`, `NoForwardLoop`), which
depend on the particular paths; and all of `Experiment`, whose properties are about one
table of sets.

`DeliveredOnce` counts the losses of a whole run, and an invariant for it would have to
say of each copy of a packet why the other one is gone.

## Not modelled

Left for later, as the plan says: the interest queue and buffer of a requester
whose application calls `request` (`intBuf`, RTO, `INTCP_DEADLINK`; on a tunnel it
stays empty); the order `recv` restores when compiled with `REORDER`; the session
table with the start of its threads and fields set too late (`api.cpp` 61); PEPsal's
listener, SYN table, pins and collector, with the hash table under it, and the
signal that may be missed before `poll` sleeps.

Left out for good: congestion control and `getDataSendRate`, floating-point
control of a rate that `SendQueue` takes from any set; sequence numbers that wrap at 32
bits, as ranges are natural numbers here; the geometry vendored from hypatia, pure
floating point; parsing and averaging of logs and the layout of figures
(`drawSeqGraph` and `main` of `autoAnlz.py`, `manualAnlz.py`); the packet sniffer; the
applications, whose use of a session is in `HopChain` and whose order of start is in
`UserThreads`.

## Plan

1. `IntBuffer`: `request`, `flushIntQueue`, `flushIntBuf`, `updateIntBuf`: a
   requester's interests against answers, time-outs and `INTCP_DEADLINK`.
2. `PepConns`: listener, SYN table, collector, pins and destruction; the comment
   of `pep.c` 686-694 (the pin protects the proxy) and the assertion in 697 to
   hold against it. The hash table under it.
3. `SessTable`: demultiplexing, creation and start order of sessions.
4. `RcvQueue` with `REORDER`, and the use `GSonNewSess` makes of `recv`.
5. Proofs: `DeliveredOnce`; pins of `PepConns`.
