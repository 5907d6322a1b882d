# A TLA+ verification of the PG1302 packet forwarder

The repository holds the software of a LoRa gateway. Its own program is
`src/fwd`, a multi-threaded C packet forwarder that several servers share; the
rest is drivers, vendored programs and libraries, tools and configuration
(see *What is left out*). This directory models the forwarder in TLA+, checks
the models with TLC on small instances and proves their main properties with
TLAPS for every value of the constants.

## The system

Threads of one process share the global `GW` (`fwd/inc/gwcfg.h`).

| part | state it keeps | operations | interacts with |
|---|---|---|---|
| JiT queue (`jitqueue.c`, `thread_jit` of `fwd.c`) | `nodes`, `num_pkt`, `num_beacon` under `mx_jit_queue` | `jit_enqueue`, `jit_peek`, `jit_dequeue`, the sort | fed by every service's downstream thread and the beacon loop; drained by `thread_jit` into the radio |
| Uplink dispatch (`fwd.c`, `linkedlists.h`) | `rxpkts_list`, stamps and `bind` of each batch, a semaphore per service | `thread_up`, `get_rxpkt`, `thread_rxpkt_recycle` | fed by the radio and the ghost stream; read by the upstream thread of every service; woken by reports too |
| Ghost stream (`ghost.c`) | a ring of packets, two indices under `cb_ghost` | `thread_ghost`, `ghost_get` | drained by `thread_up` |
| Semtech session (`semtech_serv.c`, `stats.c`) | sockets, keep-alive counters, report and counters under `mx_report` | `semtech_push_up`, `semtech_pull_down`, `semtech_report`, start, stop | takes batches, feeds the JiT queue |
| Beacons (`semtech_serv.c` 836-943) | last beacon time, retries | pre-loading of three beacons | JiT queue, GPS reference |
| Gateway traffic service (`gwtraf_serv.c`) | session | `gwtraf_push_up` | takes batches, reports them to a server |
| Packet service (`pkt_serv.c`) | list of prepared downlinks, shared buffers | `pkt_deal_up`, `pkt_prepare_downlink`, `custom_rx2dn` | takes batches, feeds the JiT queue, the database |
| MQTT service (`mqtt_serv.c`) | session | `mqtt_push_up`, reconnection | takes batches |
| Database (`db.c`) | an open transaction under `dblock` | put, get, del, `db_sync_thread`, exit handler | every service |
| Time (`timersync.c`, `thread_gps`, `thread_valid`) | counter offset, GPS reference, XTAL correction | three threads | `thread_jit`, beacons, class B downlinks |
| Start and stop (`fwd.c` `main`, `service.c`) | exit handlers, thread ids | signal handler, cancel, join, free | everything |

What is hard here: threads that share lists and flags, some of them without
their lock; 32-bit counters that wrap and 8-bit ones that could; decisions
made outside a critical section and acted on inside; packets accepted now and
sent much later; sockets replaced under another thread; a clean stop. The file
`PROJECT.json` lists each such hazard at its line, with the properties that
cover it.

## Modules

| module | models | role |
|---|---|---|
| `JitOps` | the arithmetic of `jit_enqueue` (delays, the three criteria, the slot search of immediate downlinks), the sort, dequeue's shift | pure operators |
| `DownlinkPlan` | what the JiT queue promises | abstract specification, over `JitOps` |
| `JitQueue` | enqueueing threads, `thread_jit`, the radio, time | state machine, implements `DownlinkPlan` |
| `JitQueueProofs` | | theorems |
| `Fanout` | what the uplink path promises | abstract specification |
| `RxDispatch` | `thread_up`, services' `get_rxpkt`, recycling | state machine, implements `Fanout` |
| `RxDispatchProofs` | | theorems |
| `BeaconLoop` | the beacon pre-loading of the services' downstream threads, the GPS reference, over `JitOps` | state machine |
| `BeaconLoopProofs` | | theorems |
| `BoundedFifo` | what the ghost ring promises | abstract specification |
| `GhostRing` | `thread_ghost`, `ghost_get` | state machine, implements `BoundedFifo` |
| `GhostRingProofs` | | theorems |
| `SemtechSession` | one Semtech service: upstream, downstream and main thread, sockets, reports | state machine |
| `SemtechSessionProofs` | | theorems |
| `CustomDownlink` | the packet service: prepared downlinks and the two threads around them | state machine |
| `CustomDownlinkProofs` | | theorems |
| `PacketStore` | what the database promises | abstract specification |
| `DbSync` | the grouped transactions, the synchronisation thread, the exit handler, crashes | state machine, implements `PacketStore` |
| `DbSyncProofs` | | theorems |
| `Shutdown` | the end of `main` against all threads, cancelled threads and their mutexes | state machine |
| `ShutdownProofs` | | theorems |
| `MC*` | | constants of the small instances |

The modules meet where the code does. `RxDispatch` delivers batches as far as
a service's hands, `SemtechSession` and `CustomDownlink` go on from there with
`get_rxpkt` as one step, and end at `jit_enqueue`, which accepts or refuses
as `JitQueue` says. `BeaconLoop` is a loop inside the downstream thread of
`SemtechSession`, over the same arithmetic `JitOps` as `JitQueue`. `Shutdown`
keeps of every thread only its critical sections; what the database's exit
handler does inside one of its steps is `DbSync`.

### JitQueue

State: `nodes` is the array up to `num_pkt`, in queue order; `num_beacon` is
the 8-bit counter; a downstream thread is `Request` (it has read the counter),
`CheckFull` (the test made before the mutex), `Insert` (the critical section)
and `Return`; `thread_jit` is `JitTime`, `jit_peek` in three steps (the loop
that drops outdated packets drops and goes on, the scan for the soonest, the
end), `jit_dequeue`, `lgw_status`, `lgw_send`. Time advances in steps of the
model and the counter wraps; a stale counter value read by a thread before it
is delayed is what `Request` keeps.

`DownlinkPlan` knows neither threads nor an array: its plan is the set of the
accepted packets (`Queued`), its hand what `thread_jit` has dequeued and not yet
programmed (`Hand`), its chain the radio's. A packet is accepted at the
insertion, taken at the dequeue, and given up when `lgw_status` finds the chain
emitting (when `lgw_status` fails, thread_jit goes on to `lgw_send`); everything
else stutters.

Scale: one tick is some milliseconds. `JitOps` takes the delays as constants,
so that the wrap (`W`, the counter's modulus), the margins and the beacon
guard keep their order with small numbers. `JIT_QUEUE_MAX` is 2 instead
of 32 (1 in `jit_capacity`) and time is bounded by `Horizon`, over the wrap. Two
downstream threads, whose counter values may be a tick old, ask for timestamped
downlinks of class A and B (`Departures`), immediate ones and beacons
(`BeaconSlots`). A thread asks only while the queue holds less than `LoadBound`
packets, because once two threads have exceeded the array nothing stops
immediate downlinks from joining (see *Disagreements*): the queue reaches three
packets in two places, and the answer *full* is given when the other thread
inserts first. That is enough for a collision on either side of a node and
on either side of a beacon's guard, an immediate downlink behind the others or
between them, slots so far ahead that `jit_peek` drops them at the head or behind it, a beacon
that is dequeued, a packet that meets an emission, and the wrap.

### BeaconLoop

State: `queue` is the set of nodes, each with the GPS time its payload
carries; a loader (the downstream thread of a service) has `beacon_loop`,
`retry` and `last_gps` (`last_beacon_gps_time`). `Recv` is the return of
`recv` with the unlocked read of `num_beacon`, `Load` one iteration of the
loop, `Break` its exit without a GPS reference; `Drop` and `Send` are
`thread_jit`; `GpsChange` is the reference gained or lost. The time reference
may be `REF_AGE` old and be refreshed between two iterations. The conversion
of a negative duration in `lgw_gps2cnt` is undefined in C: `CountsOf` has the
outcomes of the builds, which wrap or saturate.

Scale: a tick is about 16 s, a period 8 ticks; the counter's range is 67 ticks
instead of the 268 of 71.6 minutes, so that a loss of the GPS may make the
loader try slots more than `TX_MAX_ADVANCE_DELAY` away on both sides and time
passes over the wrap. Margins and times on air
are below a tick. `TX_MAX_ADVANCE_DELAY` is 33 and not 32 = 4 periods because
a tick stands for the instants that follow it: a slot four periods after the
tick the reference was read in is less than four periods away. Time ends at
68: eight periods, enough for three beacons, a loss of the GPS longer than the
queue, the refused slots, the chain of periods after it, and the wrap. The
environment: `thread_jit` polls many times a tick, a loader that has begun ends
its loop within a tick, `recv` returns every `RECV_LAG` ticks (it has a 200 ms
timeout), downlinks are asked for shortly before they leave, and time passes
only while a loader's last slot is at most `MaxOutage` ticks old. That bounds
the losses of the GPS, several short ones in a row as well as a long one. 42 is
the largest value for which `Truthful` holds, the counter's range less
`TX_MAX_ADVANCE_DELAY` plus a period: an older slot looks like one to come on a
build that wraps. Downlinks asked for four periods ahead break it too; both
are hazards listed in `PROJECT.json`. With several services the bound says
more than the code ensures: one that finds no beacon missing for more than an
hour keeps its old slot, and starts from it when its turn comes.

### RxDispatch

State: `heap[b]` says whether the memory of batch `b` is private to
`thread_up`, in the list or freed; `next`, `first`, `size` are the list as the
macros of `linkedlists.h` write it, one pointer assignment a step where
another thread reads without the lock. `stamps` and `bind` are the fields of
the batch. A service is `Wake` (`sem_wait`), `WalkOn`/`WalkFound`/`WalkEnd`,
`Take` (under `mx_bind_lock`) and `Handle`. The walk takes no lock because
`get_rxpkt` has it commented out. Following a pointer to a freed batch is
undefined behaviour: `Stale` sets `undefined` and the execution ends.

Bounds: 1 or 2 services and 2 or 3 batches with a list size of 1, so that
recycling starts at the second batch, two recycling threads may wait for the
lock and a walk may stand on any batch being unlinked.

### GhostRing

State: the two indices, the slots (a slot half written is `Torn`), the batch
being completed. The copies take steps of their own, outside the critical
sections. Bounds: a ring of 3 slots (12 in the code), batches of 2, 6 datagrams, so that the ring wraps, fills and drops.

### SemtechSession

State: `up`, `down` and `main` are the three threads; `dgram` is the
PUSH_DATA being composed (packets, report, separator, whether the prefix was
cut off and whether a character was `trimmed` for a report that could not be
printed); `sock_up` and `sock_down` hold descriptors, `peer` says what the
kernel has open under each, so that a descriptor closed by one thread and
given again is read by the other; `inbox` holds the datagrams that may arrive
there, `STALE` those that answer an older request. `meas` are the counters
under `mx_report`, `total` and `reported` the history they are compared with.

Actions follow the code's locks: the upstream thread is `Wake` (with
`get_rxpkt`), `CloseArray` and `AppendReport` (each reads `report_ready` without the lock
once more), `RestoreReport` (the error path of `AppendReport`), `OpenUp`, `SendPush`, `AwaitAck` (with `mx_report` held); the downstream
thread `DownLoop`, `CloseUp`, `ReopenDown`, `ReopenUp`, `Pull`, `CountPull`,
`Recv`, `CountRecv`, `Request`, `TxAck`; a report is `ReportUp`, `ReportDown`,
`Publish`, `Post`. `init_sock` may fail and then leaks its descriptor, as in
the code. The network loses, delays and repeats. `late` is history: the report
became ready after the separator was decided on. That `snprintf` prints nothing
needs a report whose text is empty or cannot be printed; the scenarios with
`fails` allow it, because the code provides for it (the text that
`semtech_report` writes is not empty).

`WellFormed` says when the parts of a datagram make one JSON object. That every
datagram sent is one (`JsonObject`) is false (see *Disagreements*); what holds,
and is checked and proved, is `Shape`: a malformed datagram has packets and a late report
without a comma, or no packets and a report that could not be printed.

Bounds: `Loads` is a set of scenarios, one of which an execution has, each
with its number of batches, reports and server datagrams: packets against
two reports with autoquit and one without, a healthy session that goes silent, one that gives
up after answers, a stop, reports that cannot be printed. They are checked as one run because they share the
rest. Two descriptors let one socket be closed and its number be given to the
other. `RATIO` is 2 instead of 10, so that a few requests decide on a
reconnection; `PullBound` stops counting where no comparison changes any more.

### CustomDownlink

State: `dn_list` and its `size` field, `used` and `content` the heap of nodes,
`tmpstr` the static buffer, `devinfo`/`dnelem` what the upstream thread found
and `file`/`entry` what the downstream thread fills. The search releases the
lock before the node is used, and `malloc` may give a freed node again, which
`lgw_malloc` fills with zeros (`Zeroed`); the use of a free node sets
`undefined` and ends the execution. `taken` is the history of files, `sent`
that of accepted downlinks; the number of a file is 0 in a zeroed node.
`AcceptedOnce` is about the downlinks of a file with a time to leave at: an
immediate one can be accepted twice, and an empty one of no file at all (see the
disagreements).
Bounds: three
nodes with `LIMIT` 1 (16 in the code), so that the list overflows while a node
is in another thread's hands; two devices, two spellings of an address; the scenarios
are listed in `MCCustomDownlink`.

### DbSync and PacketStore

`view` is what the connection sees and `disk` what another program sees; a
statement outside a transaction writes both. The synchronisation thread is
`Begin`, `Commit` (which may fail and is then rolled back, in one step because
`mx_dblock` is kept) and the second it sleeps; the exit handler `Atexit`, `Join`,
`Close`; a crash at any point leaves `disk`, and `Restart` is `lgw_db_init`.
`PacketStore` promises that the file is a past state of the view, never a part
of a change, and that what differs is written or undone: both halves of
`Implements`. Bounds: two keys and one value (a change and its undoing differ), 4
writes, a failed commit and a crash.

### Shutdown

Of each thread the module keeps the critical sections of one iteration
(`Sections`), each of which may be left out, and of a section whether there is
a cancellation point in it (`Cancellable`). The mutexes are those that threads
of several kinds, or main, wait for at the end. `mx_report` is not among them:
each service has its own, and only its own threads and the report that main
starts inside its loop take it. The upstream thread keeps it while it waits for
`mx_dblock` (the filters, `semtech_serv.c:194-233`) or for an acknowledgement,
but nobody takes it while holding another mutex, and the downstream thread is
cancelled after the upstream one was joined: it adds neither a circle nor a
thread main waits for. The ghost stream's thread and the detached recycling
threads (`fwd.c:842`), which main neither joins nor cancels, the recycling main
does itself at the end (`fwd.c:725`) and the locks of lists are left out too. `pthread_cancel` marks a thread;
it ends at the top of its loop or, `Die`, inside a section, with the mutex
locked: no cleanup handler is pushed anywhere in the program. `Main` follows the code
from the signal to `exit`. Bounds: one service, or the packet service and one
of another kind, with each optional thread in one configuration, and one
pending wake-up; the theorems hold for any list of services.

## Runs

| run | question | answer |
|---|---|---|
| `jit` | with two downstream threads, all classes and beacons: can two queued packets overlap, is every accepted packet sent in time and every immediate one accepted, across the wrap, does the beacon counter follow, do the threads carry out `DownlinkPlan`, although one may insert between the peek and the dequeue? | no; yes |
| `jit_capacity` | do two downstream threads keep within the array of the queue? | **no**: both pass the full test |
| `rx_fanout` | does the unlocked walk keep the list and the promise of `Fanout`? | yes, up to the undefined behaviour of a walk that stands on a freed batch, which the model reaches (`Stale`) |
| `rx_delivery` | does every batch reach every service before recycling starts? | yes |
| `rx_lost_wake` | and with recycling? | **no**: a walk can be cut short and its wake-up lost |
| `ghost_fifo` | is the ring a FIFO that loses packets only when full, and is every datagram handed over or dropped? | yes; yes, if the concentrator leaves room |
| `beacon_one` | with one service: is each beacon sent at the time it carries, and none skipped? | yes |
| `session` | is no datagram malformed but in two known cases, are reports sent once and in order, events neither lost nor counted twice, requests answered once; does a silent server lead to new sockets and a stop to an end? | yes |
| `custom` | does the list keep the newest downlink of an address within its bound, is none of a given time accepted twice, does `pkt_stop` end? | yes, the last without decoded payloads |
| `custom_race` | does a downlink go to the device its file names? | **no**: both threads use `tmpstr` |
| `db` | is the file always a past state of the view, is every change written or undone, does closing lose nothing, does the handler end? | yes |
| `shutdown` | is everything taken down after the threads that use it, can main hang? | yes, but for threads cancelled and not joined; only on a mutex such a thread has left locked |

Each property of a passing run has a mutant: a plausible bug of the mapped
code with which TLC finds the property violated.

Deadlock is not checked where the system stops: in `RxDispatch` (the bounds on
batches, the exit signal and autoquit let every thread stop), in
`SemtechSession` and `CustomDownlink` (the service ends), in `DbSync` and
`Shutdown` (the program ends; there `EndsUnlessOrphaned` says for which
reasons alone main may wait). It is checked in the other modules, whose
threads poll or wait for an environment that may always act.

## Disagreements

Three runs end in a violation and are findings of `PROJECT.json`:

* `rx_lost_wake`: a walk cut short loses a batch's wake-up.
* `custom_race`: a downlink goes to another device, through `tmpstr`.
* `jit_capacity`: the array of the JiT queue can be exceeded
  (`jitqueue.c:145`, against `JIT_QUEUE_MAX` of `jitqueue.h`). With two
  downstream threads both may pass the full test, and `==` is never true
  again. With one thread the bound holds (`SingleThreadCapacity`).

The following are not runs of their own; each is reproduced by changing
constants or by adding the invariant named.

* *Two services load beacons* (`semtech_serv.c:837`): each reads `num_beacon`
  without its mutex and loads what it finds missing, so that more than
  `JIT_NUM_BEACON_IN_QUEUE` are queued ("Number of beacons to be loaded in JiT
  queue at any time", `jitqueue.h:31`); after the fourth, 255 more are wanted.
  `BeaconLoop_one.cfg` with `Loaders = {l1, l2}` violates `AtMostThree`. With
  one service three is the most (`SingleLoaderAtMostThree`).
* *The separator before a report may be missing* (`semtech_serv.c:541`): a report
  that becomes ready between lines 534 and 541 follows the packets without a
  comma (`]"stat":{`), while `semtech_protocol.txt:103` says of PUSH_DATA "JSON
  object, starting with {, ending with }". `SemtechSession_threads.cfg` with the
  invariant `JsonObject` violates it, with the scenario `Load(1, 1, 0, 1, FALSE,
  FALSE)` alone too.
* *An accepted packet may be given up*: the packet on the air is no part of
  the collision test. In `JitQueue_threads.cfg` the invariant
  `jpc = "status" => TxStatus # "EMITTING"` is violated.
* *A beacon may lack the time to be programmed*, because its guard time does
  not count behind class A and C downlinks: `RoomToProgram` without its second
  disjunct is violated in `JitQueue_threads.cfg`.
* *Beacons of the wrong time*: with a `MaxOutage` longer than the counter's
  range less `TX_MAX_ADVANCE_DELAY` plus a period, or `Advances` of four
  periods, `Truthful` or `EveryPeriod` fails.
* *A full queue runs the slots ahead* (`semtech_serv.c:936`): a beacon refused
  for want of room is tried a period later at once, and again, until a packet
  leaves; by then the slot may be a turn of the counter ahead and its count be
  due now. `BeaconLoop_one.cfg` with `JIT_QUEUE_MAX = 1` violates `Truthful`.
* *An immediate downlink may be accepted twice* (`pkt_serv.c:457`): the node
  the upstream thread has found is replaced, freed and given to an immediate
  downlink, which then both threads enqueue. In `CustomDownlink_list.cfg` the
  invariant that no two entries of `sent` have the same `id` is violated, with
  three files.
* *An empty downlink may be sent* (`pkt_serv.c:457`, `lgwmm.c:86`): the same
  node, given again and zeroed, is read by `custom_rx2dn` before the address is
  copied. In `CustomDownlink_list.cfg` the invariant `\A k \in 1 .. Len(sent) :
  sent[k].id # 0` is violated.
* *A report that could not be printed* (`semtech_serv.c:548-554`): it is made
  ready again without a wake-up, so that it waits for the next packet
  (`ReportLeaves` is stated without `fails`), and the character cut off for it
  may be the `{` of an empty object or the `]` of the packets: a lone `}` is
  sent, or an array that is not closed. `JsonObject` in
  `SemtechSession_threads.cfg` has this case too.
* *`bind` after autoquit*: `RxDispatch_delivery.cfg` with `Quitters = {s2}`
  and `MaxBatch = 2` violates `BindIsRemaining`; the batch is kept for ever.
* *A service may lose its downstream socket for good* (`semtech_serv.c:810`):
  when `init_sock` fails, the loop goes round without a request, so the
  counters that decide on a reconnection do not move (`Pull` with `NOSOCK`
  leads to `DownLoop`). `sock_down = NOSOCK ~> sock_down # NOSOCK` fails under
  `FairSpec`, even if every later attempt would succeed.
* *The program may not end* (`fwd.c:692`, against "application terminates
  cleanly" of `fwd.c:71`): `~Orphaned` is violated in `Shutdown`, and the
  receiving thread can wait for ever for the `mx_concent` of a cancelled
  `thread_jit`.
* *`pkt_stop` may hang* (`pkt_serv.c:417`): `Stops` of `CustomDownlink` is
  stated without `mac_decoded`; with it, it fails.

Met while reading, and outside of what the models tell apart: after a
reconnection `sock_up` is connected to `port_down` (`semtech_serv.c:806`);
`init_sock` does not close the socket it gives up (`service.c:92`); a
file's length is kept in a `uint8_t` (`pkt_serv.c:535`); the network key of an
immediate downlink is read into another buffer (`pkt_serv.c:651`).

## Fairness

Weak fairness of each thread's steps: a thread that can run does. In
`RxDispatch` the semaphore, the stamps and the walk are each thread's own
work, and nothing forces packets, reports, autoquit or the exit signal to
come. In `GhostRing` one assumption is about the environment and is strong:
again and again a batch leaves the concentrator with room. Without it the
property is false, and the code has nothing against it: `ghost_get` takes what
room is left. `NeverMissed` of the JiT queue is a safety property: time does
not pass over the moment where `thread_jit` must have looked, which is the
polling period of 10 ms against the peek window of 30 ms.

`SemtechSession`: weak fairness of each thread (sockets have receive timeouts,
so that no `recv` lasts for ever) and strong fairness of `KeepAliveOver`: the
ten seconds of the keep-alive loop pass however many datagrams arrive. The
network and the server owe nothing. `CustomDownlink`: weak fairness of the two
threads and of the join; `DbSync`: of the synchronisation thread, the join and
the close. `PacketStore` asks for weak fairness of *written or undone*, which
the refinement shows. `Shutdown` has none: that main is not stuck is stated
as a safety property (`EndsUnlessOrphaned`), because liveness would rest on
strong fairness of every mutex, which is too much for TLC at this size.

## What is proved

All proofs hold for every value of the constants allowed by the named
assumptions `JitAssumption`, `JitQueueAssumption`, `RxAssumption`,
`GhostAssumption`, `BeaconAssumption`, `SessionAssumption`, `CustomAssumption`,
`DbAssumption` and `ShutdownAssumption` of the modules, and under what the
theorem itself assumes. Every invariant that a passing run checks is a theorem, and so are, with one
thread, the bounds `QueueCapacity` and `AtMostThree` that several threads break; some
hold under a condition on the delays or on the environment, which is named
below with what the code gives.

**The JiT queue.**

* `TypeCorrect`, `NeverOverlapping`: the collision test of `jit_enqueue` is
  asymmetric (it uses the stored delays of the queued node and those of the
  new one) and compares differences modulo `W`. The inductive invariant adds
  to `NoOverlap` the shape of the nodes and what each thread holds between its
  steps; the test is shown to be symmetric where it matters.
* `SingleThreadCapacity`: with one downstream thread, between the full test
  and the insertion only removals happen. The invariant says that a thread
  past the test leaves room for it.
* `DownlinksHaveRoom`: each node carries the delay of its type (`KindInv`), and
  a clear collision test with that delay leaves `TX_JIT_DELAY` after the end of
  the other packet; only a beacon behind a class A or C downlink is tested with
  a shorter one.
* `AcceptedSentOnTime`, `AcceptedNeverMissed`, `QueueImplementsPlan` hold for
  downlinks of all classes and beacons together. They assume `Timely` of the
  constants: an enqueuer answers before the packet could be due (`ENQ_LAG`
  against `TX_START_DELAY` plus `TX_MARGIN_DELAY`, 2.5 ms); two polling periods
  and `TX_START_DELAY` fit in `TX_JIT_DELAY` (1.5 and 20 of 30 ms); a packet is
  asked for at most `REACH` ahead, and `REACH` is less than half the counter's
  range (71 minutes). For class C the search of a slot starts
  `ASAP_DELAY` (1 s) ahead and goes at most one `hop` further for a node: with
  10 s on air and a beacon's guard, 23 s for each of 31 nodes, 12 minutes. With beacons,
  whose guard time does not count after a downlink, a polling period must fit in
  a downlink's time on air plus 2.5 ms: true of LoRa, not of an FSK packet of less than 7.5 ms.
  Of the behaviour they assume `[]InReach`: beacons are asked for within `REACH`
  (`semtech_pull_down` does with a reference that is not outdated), and class C
  downlinks find the array not exceeded (`SingleThreadCapacity` has it for one
  thread). `DownlinksInReach`: with class A and B alone `[]InReach` always
  holds, by criterion 2.
* Their argument: the queue is sorted by distance from `thread_jit`'s time
  (`QueueInv`); `jit_peek` finds the first node or none, and it is still the
  first, and the only one due, when `jit_dequeue` takes it (`JitInv`). For the
  slot of an immediate downlink, `SlotNear` walks from the node met first: each
  node meets the next candidate or ends the search, so that some candidate within as
  many hops as there are nodes is clear, and the one chosen is the soonest. A
  packet accepted at the very edge of `TX_MAX_ADVANCE_DELAY` may be seen as
  outdated by a `jit_peek` whose time was read earlier, and dropped: what is
  proved is that none stays past its departure.
* `QueueImplementsPlan` has one lemma for each pair of a step and the action of
  `DownlinkPlan` it carries out; the steps of `thread_jit` that read the counter
  or scan, and those of an enqueuer but the insertion, stutter. The timing
  invariants are about the distance from `thread_jit`'s time, the plan about the one from
  the counter; `LeftIs` goes from one to the other. That the plan is a
  set loses no packet: queued nodes are clear of each other, hence distinct, and
  taking out one index takes out one element.
* `BeaconsCounted`, under `[]HalfRange` (some instant from which all queued
  departures lie within half the counter's range). `compare` is not transitive
  on the circle of counter values, and outside half of it the sort promises
  nothing. `SortInv` says that the queue is in order from any such
  instant; `ScanInv` that the nodes `jit_peek` has passed (all but the first,
  which it skips after a drop) are not outdated, so that a drop leaves
  the index of its candidate in place. `RequestsNearHalfRange` gives the condition from the
  requests: timestamped packets within half the range of one instant;
  `ReachHalfRange` from `Timely` and `InReach`, immediate downlinks included.
* `ImmediateGetsSlot`, under `SlotDelays` (constants: a second is longer than
  the 32.5 ms of criterion 1, a beacon's length longer than `TX_JIT_DELAY`)
  and `[]SlotsReach` (the slot behind any queued node lies within half the
  counter's range). The first node with room behind it is followed by one far
  enough, and with the queue in order the slot meets no other node: those
  before end earlier, those after begin later. `ReachSlots` gives
  `[]SlotsReach` from `Timely` and `InReach` when one more hop fits in half the range.

Offline, TLC finds `Timely` (with `REACH = 33`), `InReach`, the inductive
invariants, `HalfRange` and `SlotsReach` true with the constants of `jit`, with
one downstream thread and with two that ask for no immediate downlinks: the
theorems are not about an empty set of behaviours. With two threads and
immediate downlinks the array is exceeded, which `InReach` excludes; there the
properties are checked by the run alone, up to `LoadBound`.

**Uplinks.**

* `RxTypeCorrect`, `NoEarlyFree`, `RxImplementsFanout`, `BindCountsWaiting`: the invariant is an
  accounting: for every batch, `bind` plus the number of its stamps is the
  number of services, and a service has a stamp exactly when it was given the
  batch. `bind < 1` therefore means that all have it. Around it stand facts on
  pointers: whatever a walk, the list or the recycling traversal points to was
  inserted. The refinement maps a batch to *published* when it is linked,
  *received* to the copies made, *discarded* to freed. `BindCountsWaiting`
  assumes `Quitters = {}`: then no upstream thread ends and `bind` counts the
  services still to take the batch; after an autoquit it does not (see the
  disagreements).
* `ListStaysIntact`: the list is described by the set of batches it holds,
  each pointing to the next older of them (`ChainShape`); recycling stands at a batch of the
  list between its two neighbours (`CursorShape`), so that unlinking
  cuts off that batch alone. Between the two assignments of an unlinking, walks
  may find the list cut short behind it; the invariant says what it is there.
* `GhostTypeCorrect`, `NeverTorn`, `GhostImplementsFifo`: all modular
  arithmetic is confined to lemma `Indices`. The invariant says that the slots
  between the indices are whole and older than the datagram in hand, that a
  slot being written has a free one after it, and that what `ghost_get`
  decided to take is still there.

**Services.**

* `SessionTypes`, `DatagramShape`, `NothingLost`, `OneAnswer`,
  `ReportsInOrder`: the invariant comes in layers. `DatagramShape` bounds what
  the unlocked reads of `report_ready` cost: a datagram that is no JSON object
  has packets and a report that became ready after its separator was decided
  on, or no packets and a report that could not be printed; never an empty
  object, nor a separator with nothing behind it. It needs to know, between the
  reads, what the first one found, since only the upstream thread clears
  `report_ready`; reports are numbered, and a
  ready one is newer than the last one sent; an event is in `meas` or already in
  `reported`, at every step of a report; and a thread that has not yet had its
  answer (`req_ack` false, or receive calls left) has one request more than
  acknowledgements, which keeps `pull_ack` below `pull_send` whatever arrives
  on whichever descriptor.
* `CustomTypes`, `ListKeepsNewest`, `TimedAcceptedOnce`: an allocated node is
  in the list or is being filled, never both (`HeapInv`); contents are numbered by their
  file and a number is in one node at most (`IdInv`); a number that was
  accepted is in the node the upstream thread is about to remove, or in none
  that is still to be sent, except an immediate one (`SentInv`). A node that is
  given again is in no list, so that zeroing it disturbs none of this
  (`ZeroedNode`). That removing
  nodes from the list keeps the order of the others rests on the least-number principle of
  the naturals.
* `SingleLoaderAtMostThree`: with one loader the only step that adds a beacon
  is its own, and `Recv` takes the difference. The invariant is that queued
  beacons plus `beacon_loop` of a loader in its loop is at most three; drops
  and departures only lower it. It is the number of services, not the absence
  of a lock, that breaks it.
* `BeaconTypes`: a loader in its loop has a beacon left to load, so that the
  8-bit `beacon_loop` does not pass zero, for any number of loaders.
* `BeaconsTruthful`: a queued beacon is either outdated for `jit_peek`, and
  dropped before time goes on, or will leave exactly at its stamp. It assumes
  `BeaconDelays`: a time reference (30 s) or a last slot (`MaxOutage`) so old
  that its count wraps is still `TX_MAX_ADVANCE_DELAY` (512 s) ahead, seen
  modulo the counter's range (71.6 minutes); and `[]SlotsAhead`, no slot a turn of the
  counter ahead, which retries against a full queue would break (see the
  disagreements).
* `NoPeriodSkipped`, for one service: once a beacon was loaded under a
  reference that lasts, no period is without one (`EveryPeriod`). `ChainInv`
  says that the slots up to the last one loaded are in the queue, except in the
  period to come; `AwaitInv` that the loader comes back in time for the next
  one and that this one is not refused. Slots are refused only within `near` of
  now, where the downlinks are (`PlaceInv`, `RetryInv`); that none is tried too far ahead
  to be accepted follows by counting: the slots of `ChainInv` are distinct
  beacons, and the loader wants one more, so that there are less than
  `JIT_NUM_BEACON_IN_QUEUE` of them. It assumes `PeriodDelays(near)`: the time a downlink is asked for
  ahead, its time on air and the beacon's guard (some 20 s), with the age of a
  reference (30 s) or the time between two calls of `recv` (0.2 s), make less
  than a period (128 s); the beacons wanted lie within `TX_MAX_ADVANCE_DELAY`
  (strictly, hence 33 and not 32 ticks, see the scale above); an outage ends before
  its slots come round the counter. And `[]RoomForBeacons`: the other packets
  leave the beacons their places in the queue. It gives `[]SlotsAhead` too, so
  that `Truthful` then needs no condition on the slots. TLC finds `PeriodDelays(4)`,
  `RoomForBeacons` and the inductive invariant true on the constants of
  `beacon_one`.

**Storage and shutdown.**

* `DbTypes`, `ClosesWithoutLoss`, `ImplementsStore`: what is not in the file is
  in an open transaction and `dosync` asks for its commit; a transaction is
  open from the synchronisation thread's beginning to its end and at no other
  time; the connection is closed after that end. The map of
  the refinement is the identity on `view` and `disk`, and the crash maps to
  *undone* and a start.
* `TornDownLast`, `OnlyOrphansHang`: one half of the invariant follows `main`
  (what it has joined has ended, what it has not was cancelled); the other
  says that the owner of a mutex is in the section of that mutex or died
  there. The wake-up of a stopped service is still there when its thread waits
  for it, since nobody else takes it. No thread holds two of the modelled mutexes,
  hence no circle.

## What is only model-checked

* Liveness (`Delivered`, `Answered`, `ReportLeaves`, `Reconnects`, `Stops`,
  `Exits`, the fair half of `PacketStore`): fairness and ENABLED are out of
  the prover's reach.
* What the proofs assume of a behaviour (`[]InReach`, `[]RoomForBeacons`,
  `[]SlotsAhead` with several services) is checked on the constants of the runs
  and is false for others: see the disagreements on a full queue and on two services.

## What remains

Worth doing next: downlinks asked for minutes ahead (class B) in `BeaconLoop`,
where they may take a beacon's place; the composition of two Semtech
services over one JiT queue.

## Not modelled

* `station`, `libmqtt`, `libttn`, `libmpsse-1.3`, the HALs and the
  cryptography, base64 and JSON sources inside `fwd` are third-party or
  generated code, and make up nearly all of the repository's lines; the forwarder's use
  of the HAL appears as environment actions (marked external). This is why the
  mapped lines are a small share of the repository: the program itself is
  `fwd`, and of it the modules cover the parts that have state shared by
  threads.
* MQTT and gateway traffic services: upstream only; they appear as readers of
  the uplink list in `RxDispatch`, and the former as a thread to stop in
  `Shutdown`. Their sessions are those of vendored clients or one socket.
* Concentrator time (SX1301 only), GPS parsing, crystal correction:
  computations on doubles; what the rest of the program sees of them is a
  counter (`JitQueue`) and a reference that comes and goes (`BeaconLoop`).
* Start of the program and watchdog: a failed start exits, the watchdog kills
  the process when the main loop stands still.
* Packet filters and MAC header decoding: lookups without state. Frame
  counters and keys of custom downlinks: data.
* Configuration, logging and formatting are data; tools, packaging and
  configuration files have no state.
