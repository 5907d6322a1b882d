------------------------------ MODULE JitQueue ------------------------------
(***************************************************************************)
(* One just-in-time queue of the packet forwarder as its threads use it:   *)
(*                                                                         *)
(*  - any number of downstream threads (semtech_pull_down, the packet      *)
(*    service) that read the concentrator's counter, then call             *)
(*    jit_enqueue, which looks whether the queue is full, releases the     *)
(*    mutex, takes it again and inserts;                                   *)
(*  - thread_jit, which reads the counter, calls jit_peek, then            *)
(*    jit_dequeue with the index it got, asks the radio for its state and  *)
(*    hands it the packet;                                                 *)
(*  - the counter itself, and the radio chain (lgw_status, lgw_send).      *)
(*                                                                         *)
(* A critical section of mx_jit_queue is one step, except the loop of      *)
(* jit_peek, whose iterations are steps taken with the mutex held.  Array  *)
(* indices start at 1 here and at 0 in the code.                           *)
(***************************************************************************)
EXTENDS JitOps

CONSTANTS
  Enqueuers,   \* threads that call jit_enqueue
  Types,       \* packet types requested
  Departures,  \* counter values requested for the departure of downlinks
  BeaconSlots, \* and of beacons
  Start,       \* first value of the counter
  Horizon,     \* bound: the counter stops Horizon ticks after Start
  POLL_LAG,    \* longest time between two counter reads of thread_jit
  ENQ_LAG,     \* longest time from an enqueuer's counter read to its answer
  LoadBound    \* bound: no thread asks while the queue holds that many packets

ASSUME JitQueueAssumption ==
  /\ IsFiniteSet(Enqueuers)
  /\ Types \subseteq PktType
  /\ Departures \subseteq Time /\ BeaconSlots \subseteq Time
  /\ Start \in Time
  /\ {Horizon, POLL_LAG, ENQ_LAG, LoadBound} \subseteq Nat

VARIABLES
  now,         \* the concentrator's counter
  nodes,       \* queue->nodes[0 .. num_pkt - 1]
  num_beacon,  \* queue->num_beacon, a uint8_t
  epc, etime, epkt, eres,         \* an enqueuer: control, time_us, packet, answer
  jpc, jtime, scan, best, jpkt,   \* thread_jit: control, time, i, idx, packet
  radio                           \* the packet programmed on the RF chain

evars == <<epc, etime, epkt, eres>>
jvars == <<jpc, jtime, scan, best, jpkt>>
vars  == <<now, nodes, num_beacon, evars, jvars, radio>>

ZeroPacket == [type |-> "A", count |-> 0, toa |-> 0]
Silent     == [on |-> FALSE, count |-> 0, toa |-> 0]

TypeOK ==
  /\ now \in Time
  /\ nodes \in Seq(Node)
  /\ num_beacon \in 0 .. 255
  /\ epc \in [Enqueuers -> {"idle", "check", "insert", "answer"}]
  /\ etime \in [Enqueuers -> Time]
  /\ epkt \in [Enqueuers -> Packet \cup {ZeroPacket}]
  /\ eres \in [Enqueuers -> JitError]
  /\ jpc \in {"sleep", "peek", "scan", "dequeue", "status", "send"}
  /\ jtime \in Time
  /\ scan \in Nat
  /\ best \in Nat
  /\ jpkt \in Node
  /\ radio \in [on : BOOLEAN, count : Time, toa : Nat]

Init ==
  /\ now = Start
  /\ nodes = <<>>
  /\ num_beacon = 0
  /\ epc = [e \in Enqueuers |-> "idle"]
  /\ etime = [e \in Enqueuers |-> Start]
  /\ epkt = [e \in Enqueuers |-> ZeroPacket]
  /\ eres = [e \in Enqueuers |-> "OK"]
  /\ jpc = "sleep" /\ jtime = Start /\ scan = 0 /\ best = 0 /\ jpkt = ZeroNode
  /\ radio = Silent

\* mx_jit_queue is held across steps only by the loop of jit_peek.
MutexFree == jpc # "scan"

-----------------------------------------------------------------------------
(* The counter and the radio, outside the forwarder. *)

\* The counter advances, while no thread is slower than it is assumed to be.
Tick ==
  /\ Sub(now, Start) < Horizon
  /\ Sub(now, jtime) < POLL_LAG
  /\ \A e \in Enqueuers :
       epc[e] \in {"check", "insert"} => Sub(now, etime[e]) < ENQ_LAG
  /\ now' = (now + 1) % W
  /\ radio' = IF radio.on /\ Sub(now', radio.count) = radio.toa
                THEN Silent ELSE radio
  /\ UNCHANGED <<nodes, num_beacon, evars, jvars>>

\* lgw_status(TX_STATUS): the packet is on the air for its time on air.
TxStatus == CASE ~radio.on -> "FREE"
              [] radio.on /\ Sub(now, radio.count) < radio.toa -> "EMITTING"
              [] OTHER -> "SCHEDULED"

-----------------------------------------------------------------------------
(* jit_enqueue, as called by a downstream thread. *)

\* lgw_get_instcnt, then the call: the time is already fixed.
Request(e) ==
  /\ epc[e] = "idle"
  /\ Len(nodes) < LoadBound
  /\ \E type \in Types, count \in Departures \cup BeaconSlots, toa \in ToA :
       /\ count \in IF type = "BEACON" THEN BeaconSlots ELSE Departures
       /\ epkt' = [epkt EXCEPT ![e] = [type |-> type, count |-> count, toa |-> toa]]
  /\ etime' = [etime EXCEPT ![e] = now]
  /\ epc' = [epc EXCEPT ![e] = "check"]
  /\ UNCHANGED <<now, nodes, num_beacon, eres, jvars, radio>>

Answer(e, err) ==
  /\ eres' = [eres EXCEPT ![e] = err]
  /\ epc' = [epc EXCEPT ![e] = "answer"]
  /\ UNCHANGED etime

IsFull == Len(nodes) = JIT_QUEUE_MAX

\* jit_queue_is_full takes and releases the mutex.
CheckFull(e) ==
  /\ epc[e] = "check"
  /\ MutexFree
  /\ \/ /\ IsFull
        /\ Answer(e, "FULL")
        /\ UNCHANGED epkt
     \/ /\ ~IsFull
        /\ epc' = [epc EXCEPT ![e] = "insert"]
        /\ UNCHANGED <<etime, epkt, eres>>
  /\ UNCHANGED <<now, nodes, num_beacon, jvars, radio>>

\* The critical section: schedule, test the criteria, append and sort.
Insert(e) ==
  /\ epc[e] = "insert"
  /\ MutexFree
  /\ \E pkt \in Scheduled(nodes, etime[e], epkt[e]) :
       LET err == Verdict(nodes, etime[e], pkt) IN
       /\ epkt' = [epkt EXCEPT ![e] = pkt]
       /\ Answer(e, err)
       /\ \/ /\ err = "OK"
             /\ nodes' \in Sorted(Append(nodes, NodeOf(pkt)))
             /\ num_beacon' = IF pkt.type = "BEACON" THEN (num_beacon + 1) % 256
                                                     ELSE num_beacon
          \/ /\ err # "OK"
             /\ UNCHANGED <<nodes, num_beacon>>
  /\ UNCHANGED <<now, jvars, radio>>

\* The caller has used the answer and goes back to its socket.
Return(e) ==
  /\ epc[e] = "answer"
  /\ epc' = [epc EXCEPT ![e] = "idle"]
  /\ etime' = [etime EXCEPT ![e] = Start]
  /\ epkt' = [epkt EXCEPT ![e] = ZeroPacket]
  /\ eres' = [eres EXCEPT ![e] = "OK"]
  /\ UNCHANGED <<now, nodes, num_beacon, jvars, radio>>

-----------------------------------------------------------------------------
(* thread_jit. *)

JitTime ==
  /\ jpc = "sleep"
  /\ jpc' = "peek"
  /\ jtime' = now
  /\ UNCHANGED <<now, nodes, num_beacon, evars, scan, best, jpkt, radio>>

\* Only this thread removes nodes, so the queue found non-empty stays so until
\* the mutex is taken.
PeekBegin ==
  /\ jpc = "peek"
  /\ IF nodes = <<>>
       THEN jpc' = "sleep" /\ UNCHANGED <<scan, best>>
       ELSE jpc' = "scan" /\ scan' = 1 /\ best' = 0
  /\ UNCHANGED <<now, nodes, num_beacon, evars, jtime, jpkt, radio>>

Uncount_Forgotten(node) == num_beacon' = num_beacon  \* mutant: no decrement

Uncount(node) ==
  num_beacon' = IF node.type = "BEACON" THEN (num_beacon - 1) % 256
                                        ELSE num_beacon

\* An outdated node is dropped and the scan restarts; "i = 0; continue" lets
\* the loop increment i, so it restarts at the second node.
PeekDrop ==
  /\ jpc = "scan"
  /\ scan \in DOMAIN nodes
  /\ Outdated(nodes[scan], jtime)
  /\ Uncount(nodes[scan])
  /\ nodes' \in Sorted(TakeOut(nodes, scan))
  /\ scan' = 2
  /\ UNCHANGED <<now, evars, jpc, jtime, best, jpkt, radio>>

Sooner_Reversed(i, j) ==  \* mutant: the latest node wins
  Sub(NodeAt(nodes, i).count, jtime) > Sub(NodeAt(nodes, j).count, jtime)

\* Priority: the closest departure after the time of the peek.
Sooner(i, j) ==
  Sub(NodeAt(nodes, i).count, jtime) < Sub(NodeAt(nodes, j).count, jtime)

\* One more node compared with the best so far.
PeekScan ==
  /\ jpc = "scan"
  /\ scan \in DOMAIN nodes
  /\ ~Outdated(nodes[scan], jtime)
  /\ best' = IF best = 0 \/ Sooner(scan, best) THEN scan ELSE best
  /\ scan' = scan + 1
  /\ UNCHANGED <<now, nodes, num_beacon, evars, jpc, jtime, jpkt, radio>>

\* A packet is due when it departs within TX_JIT_DELAY.  With no candidate
\* (best = 0) the code looks at nodes[-1], whose content cannot matter: both
\* branches leave pkt_idx = -1.
PeekEnd ==
  /\ jpc = "scan"
  /\ scan > Len(nodes)
  /\ jpc' = IF best # 0 /\ Sub(NodeAt(nodes, best).count, jtime) < TX_JIT_DELAY
              THEN "dequeue" ELSE "sleep"
  /\ scan' = 0
  /\ best' = IF jpc' = "dequeue" THEN best ELSE 0
  /\ UNCHANGED <<now, nodes, num_beacon, evars, jtime, jpkt, radio>>

\* jit_dequeue at the index found by jit_peek, the mutex having been free in
\* between.  An index past the array or an empty queue is an error.
JitDequeue ==
  /\ jpc = "dequeue"
  /\ IF best > JIT_QUEUE_MAX \/ nodes = <<>>
       THEN jpc' = "sleep" /\ UNCHANGED <<nodes, num_beacon, jpkt>>
       ELSE /\ jpkt' = NodeAt(nodes, best)
            /\ Uncount(NodeAt(nodes, best))
            /\ nodes' \in Sorted(TakeOut(nodes, best))
            /\ jpc' = "status"
  /\ best' = 0
  /\ UNCHANGED <<now, evars, jtime, scan, radio>>

\* lgw_status: a packet that meets an emission is given up, one that meets a
\* scheduled packet replaces it.  When lgw_status fails the packet goes to the
\* radio whatever that is doing.
JitStatus ==
  /\ jpc = "status"
  /\ \/ TxStatus = "EMITTING" /\ jpc' = "sleep" /\ jpkt' = ZeroNode
     \/ jpc' = "send" /\ UNCHANGED jpkt
  /\ UNCHANGED <<now, nodes, num_beacon, evars, jtime, scan, best, radio>>

\* lgw_send succeeds, or fails and the packet is gone.
JitSend ==
  /\ jpc = "send"
  /\ \/ radio' = [on |-> TRUE, count |-> jpkt.count, toa |-> jpkt.post]
     \/ UNCHANGED radio
  /\ jpc' = "sleep"
  /\ jpkt' = ZeroNode
  /\ UNCHANGED <<now, nodes, num_beacon, evars, jtime, scan, best>>

-----------------------------------------------------------------------------
Enqueue(e) == Request(e) \/ CheckFull(e) \/ Insert(e) \/ Return(e)

Jit == \/ JitTime \/ PeekBegin \/ PeekDrop \/ PeekScan \/ PeekEnd
       \/ JitDequeue \/ JitStatus \/ JitSend

Next == Tick \/ Jit \/ \E e \in Enqueuers : Enqueue(e)

Spec == Init /\ [][Next]_vars

-----------------------------------------------------------------------------
(* Properties. *)

\* Whatever the interleaving of the enqueuers, with counter values read long
\* before the insertion and across the wrap of the counter, no two packets of
\* the queue overlap on the air (criterion 3 of jit_enqueue).
NoOverlap == \A i, j \in DOMAIN nodes : i # j => Clear(nodes[i], nodes[j])

\* num_beacon, from which semtech_pull_down computes how many beacons it still
\* has to load, always agrees with the nodes, through enqueue, dequeue and the
\* drops of jit_peek.
BeaconCount == num_beacon = Cardinality(BeaconsIn(nodes)) % 256

\* jitqueue.h: JIT_QUEUE_MAX is the maximum number of packets stored.
QueueCapacity == Len(nodes) <= JIT_QUEUE_MAX

\* A packet handed to the radio can still be programmed (comment of criterion
\* 1: it must arrive at least at tmst - TX_START_DELAY).
SentOnTime ==
  jpc = "send" => Sub(jpkt.count, now) \in TX_START_DELAY .. TX_JIT_DELAY

\* No accepted packet stays in the queue past its departure time: thread_jit
\* finds each one in its window, in spite of the node jit_peek skips after a
\* drop.
NeverMissed ==
  \A i \in DOMAIN nodes : 2 * Sub(nodes[i].count, now) < W

\* An immediate downlink always gets a slot: unless the queue is full it is
\* accepted (as long as the sum that starts the search does not leave the
\* counter's range).
ImmediateAccepted ==
  \A e \in Enqueuers :
    epc[e] = "answer" /\ epkt[e].type = "C" /\ etime[e] + ASAP_DELAY < W
      => eres[e] \in {"OK", "FULL"}

\* Between the end of a queued packet and the departure of the next one there
\* is the time thread_jit needs to program it (jitqueue.c, TX_JIT_DELAY), so
\* that it is not peeked while the first one is still on the air.  Only a
\* beacon behind a class A or C downlink may lack it: its guard time, which
\* includes that delay, is given up for these (jitqueue.c:263).
RoomToProgram ==
  \A i, j \in DOMAIN nodes :
    \/ i = j \/ 2 * Sub(nodes[j].count, nodes[i].count) >= W
    \/ nodes[j].type = "BEACON" /\ nodes[i].type \in {"A", "C"}
    \/ Sub(nodes[j].count, nodes[i].count) > nodes[i].post + TX_JIT_DELAY

\* The queue as a set: its nodes are distinct, and the plan has no order.
Queued == {nodes[i] : i \in DOMAIN nodes}

\* The packet between jit_dequeue and lgw_send.
Hand == IF jpc \in {"status", "send"} THEN {jpkt} ELSE {}

\* The threads carry out a plan of departures (DownlinkPlan), although
\* thread_jit reads the counter, scans the queue, takes a node by its index and
\* programs the radio in steps of its own, and the downstream threads drop the
\* mutex between the test of the size and the insertion: packets join the plan
\* clear of each other, the first to depart is taken, in its window, and no
\* departure is passed over.
Plan == INSTANCE DownlinkPlan WITH plan <- Queued, hand <- Hand, chain <- radio

Implements == Plan!Spec
=============================================================================
