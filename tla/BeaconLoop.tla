----------------------------- MODULE BeaconLoop ------------------------------
(***************************************************************************)
(* The pre-loading of beacons into the just-in-time queue of RF chain 0    *)
(* (the loop of semtech_pull_down, fwd/src/semtech_serv.c).  The           *)
(* downstream thread of every Semtech service runs it each time its recv   *)
(* returns: it reads num_beacon without a lock, computes how many beacons  *)
(* are missing and enqueues them, each one period after the last one IT    *)
(* enqueued, or later when the queue refuses.                              *)
(*                                                                         *)
(* time is GPS time in ticks of about 16 seconds, each standing for the    *)
(* instants that follow it, and the concentrator's counter is time modulo  *)
(* W.  jit_enqueue is one step here and the order of the nodes is left     *)
(* out: JitQueue has both.  Beside beacons there are class A downlinks,    *)
(* which are asked for shortly before their departure.                     *)
(***************************************************************************)
EXTENDS JitOps

CONSTANTS
  Loaders,                  \* downstream threads that load beacons
  JIT_NUM_BEACON_IN_QUEUE,  \* beacons wanted in the queue
  PERIOD,                   \* GW.beacon.beacon_period
  Advances,                 \* delays before departure of the downlinks
  REF_AGE,                  \* oldest valid time reference (GPS_REF_MAX_AGE)
  RECV_LAG,                 \* longest time between two returns of a recv
  MaxOutage,                \* oldest slot a loader may start from again
  MaxTime                   \* bound: end of time

ASSUME BeaconAssumption ==
  /\ IsFiniteSet(Loaders)
  /\ JIT_NUM_BEACON_IN_QUEUE \in 1 .. 255
  /\ PERIOD \in Nat \ {0}
  /\ Advances \subseteq Nat
  /\ {REF_AGE, RECV_LAG, MaxOutage} \subseteq Nat
  /\ MaxTime \in Nat \ {0}

VARIABLES
  time,
  gps,               \* gps_ref_valid and xtal_correct_ok
  queue,             \* the nodes of jit_queue[0], each with the time it carries
  pc, idle,          \* a loader: control, time since its recv returned
  beacon_loop,       \* beacons still to load, a uint8_t
  retry, last_gps,   \* periods to skip, last_beacon_gps_time (0: none)
  sent,              \* history: the last beacon handed to the radio
  awaited            \* history: next slot to be sent since the GPS is valid

lvars == <<pc, idle, beacon_loop, retry, last_gps>>
vars  == <<time, gps, queue, lvars, sent, awaited>>

GpsTime == 0 .. MaxTime + W

QNode == [type : {"A", "BEACON"}, count : Time, pre : Nat, post : Nat,
          stamp : GpsTime]

TypeOK ==
  /\ time \in 0 .. MaxTime
  /\ gps \in BOOLEAN
  /\ queue \in SUBSET QNode
  /\ pc \in [Loaders -> {"recv", "load"}]
  /\ idle \in [Loaders -> 0 .. RECV_LAG]
  /\ beacon_loop \in [Loaders -> 0 .. 255]
  /\ retry \in [Loaders -> Nat]
  /\ last_gps \in [Loaders -> GpsTime]
  /\ sent \in [stamp : GpsTime, at : 0 .. MaxTime + TX_JIT_DELAY]
  /\ awaited \in Nat

Init ==
  /\ time = 1
  /\ gps = FALSE
  /\ queue = {}
  /\ pc = [l \in Loaders |-> "recv"]
  /\ idle = [l \in Loaders |-> 0]
  /\ beacon_loop = [l \in Loaders |-> 0]
  /\ retry = [l \in Loaders |-> 0]
  /\ last_gps = [l \in Loaders |-> 0]
  /\ sent = [stamp |-> 0, at |-> 0]
  /\ awaited = 0

Counter == time % W

Beacons == {n \in queue : n.type = "BEACON"}

num_beacon == Cardinality(Beacons)

-----------------------------------------------------------------------------
(* thread_jit: jit_peek drops the outdated nodes and jit_dequeue takes the  *)
(* one that is due; thread_jit polls much more often than time advances.    *)

Due(n) == Sub(n.count, Counter) < TX_JIT_DELAY

Drop(n) ==
  /\ Outdated(n, Counter)
  /\ queue' = queue \ {n}
  /\ UNCHANGED <<time, gps, lvars, sent, awaited>>

\* A due beacon is handed to the radio, which emits it when the counter gets
\* to its count.
Send(n) ==
  /\ ~Outdated(n, Counter)
  /\ Due(n)
  /\ queue' = queue \ {n}
  /\ \/ /\ n.type = "BEACON"
        /\ sent' = [stamp |-> n.stamp, at |-> time + Sub(n.count, Counter)]
        /\ awaited' = IF n.stamp = awaited THEN awaited + PERIOD ELSE awaited
     \/ /\ n.type # "BEACON"
        /\ UNCHANGED <<sent, awaited>>
  /\ UNCHANGED <<time, gps, lvars>>

-----------------------------------------------------------------------------
(* The environment. *)

\* Neither thread_jit nor a loader that has begun is slower than a tick.  While
\* time passes a loader's last slot is at most MaxOutage in the past: this bounds
\* the losses of the GPS reference, one or several in a row (and, of several
\* loaders, how long one finds nothing to load).
Tick ==
  /\ time < MaxTime
  /\ \A n \in queue : ~Due(n) /\ ~Outdated(n, Counter)
  /\ \A l \in Loaders : pc[l] = "recv" /\ idle[l] < RECV_LAG
  /\ \A l \in Loaders : last_gps[l] # 0 => time < last_gps[l] + MaxOutage
  /\ time' = time + 1
  /\ idle' = [l \in Loaders |-> idle[l] + 1]
  /\ UNCHANGED <<gps, queue, pc, beacon_loop, retry, last_gps, sent, awaited>>

\* thread_gps and thread_valid gain or lose the time reference.
GpsChange ==
  /\ gps' = ~gps
  /\ awaited' = 0
  /\ UNCHANGED <<time, queue, lvars, sent>>

Queued(pkt, stamp) ==
  [type |-> pkt.type, count |-> pkt.count, pre |-> PreDelay(pkt.type),
   post |-> PostDelay(pkt), stamp |-> stamp]

\* jit_enqueue answers JIT_ERROR_OK.
Accepts(pkt) ==
  /\ Cardinality(queue) # JIT_QUEUE_MAX
  /\ ~TooLate(Counter, pkt)
  /\ ~TooEarly(Counter, pkt)
  /\ \A n \in queue : ~CollidesWith(pkt, n)

\* A class A downlink of some service is accepted.
Downlink ==
  /\ \E d \in Advances, toa \in ToA :
       LET pkt == [type |-> "A", count |-> (time + d) % W, toa |-> toa] IN
       /\ Accepts(pkt)
       /\ queue' = queue \cup {Queued(pkt, 0)}
  /\ UNCHANGED <<time, gps, lvars, sent, awaited>>

-----------------------------------------------------------------------------
(* A loader. *)

\* beacon_loop is a uint8_t.
Missing(n) == (JIT_NUM_BEACON_IN_QUEUE - n) % 256

\* recv has returned, with a datagram or not; num_beacon is read unlocked.
Recv(l) ==
  /\ pc[l] = "recv"
  /\ beacon_loop' = [beacon_loop EXCEPT ![l] = Missing(num_beacon)]
  /\ retry' = [retry EXCEPT ![l] = 0]
  /\ idle' = [idle EXCEPT ![l] = 0]
  /\ pc' = [pc EXCEPT ![l] = IF beacon_loop'[l] = 0 THEN "recv" ELSE "load"]
  /\ UNCHANGED <<time, gps, queue, last_gps, sent, awaited>>

\* No GPS reference: the loop is left.
Break(l) ==
  /\ pc[l] = "load"
  /\ ~gps
  /\ pc' = [pc EXCEPT ![l] = "recv"]
  /\ UNCHANGED <<time, gps, queue, idle, beacon_loop, retry, last_gps,
                 sent, awaited>>

\* The slot to try: after the last one loaded, or after the time reference,
\* and past the slots refused in this loop.
NextSlot(l, ref) ==
  (IF last_gps[l] = 0 THEN ref + (PERIOD - (ref % PERIOD))
                      ELSE last_gps[l] + PERIOD)
  + retry[l] * PERIOD

CountsOf_Wide(slot, ref) == {slot}  \* mutant: not truncated to 32 bits

CountsOf_Aged(slot, ref) == {(slot + 1) % W}  \* mutant: the reference's age added

\* lgw_gps2cnt adds (uint32_t)delta to the counter of the time reference.  The
\* conversion of a negative delta is undefined: the builds wrap or saturate
\* to 0.
CountsOf(slot, ref) ==
  {slot % W} \cup (IF slot < ref THEN {ref % W} ELSE {})

Retried_Kept(r) == r  \* mutant: retry is not reset after a success

Retried(r) == 0

\* One iteration: compute the slot, enqueue, and count or retry.
Load(l) ==
  /\ pc[l] = "load"
  /\ gps
  /\ \E ref \in {r \in 0 .. time : r + REF_AGE >= time} :
     LET slot == NextSlot(l, ref) IN
     /\ slot <= MaxTime + W
     /\ \E count \in CountsOf(slot, ref) :
          LET pkt == [type |-> "BEACON", count |-> count, toa |-> 0] IN
          \/ /\ Accepts(pkt)
             /\ queue' = queue \cup {Queued(pkt, slot)}
             /\ beacon_loop' = [beacon_loop EXCEPT ![l] = @ - 1]
             /\ retry' = [retry EXCEPT ![l] = Retried(@)]
             /\ last_gps' = [last_gps EXCEPT ![l] = slot]
             /\ pc' = [pc EXCEPT ![l] = IF beacon_loop'[l] = 0 THEN "recv" ELSE "load"]
             /\ awaited' = IF awaited = 0 /\ slot > time THEN slot ELSE awaited
          \/ /\ ~Accepts(pkt)
             /\ retry' = [retry EXCEPT ![l] = @ + 1]
             /\ UNCHANGED <<queue, beacon_loop, last_gps, pc, awaited>>
  /\ UNCHANGED <<time, gps, idle, sent>>

-----------------------------------------------------------------------------
Next == \/ Tick \/ GpsChange \/ Downlink
        \/ \E n \in queue : Drop(n) \/ Send(n)
        \/ \E l \in Loaders : Recv(l) \/ Break(l) \/ Load(l)

Spec == Init /\ [][Next]_vars

-----------------------------------------------------------------------------
(* Properties. *)

\* jitqueue.h: JIT_NUM_BEACON_IN_QUEUE is the number of beacons to be loaded
\* in the queue at any time; a loader that finds more would compute a negative
\* number of beacons to load, in a uint8_t.
AtMostThree == num_beacon <= JIT_NUM_BEACON_IN_QUEUE

\* A beacon is emitted at the GPS time its payload carries, and one of the
\* queue will be unless jit_peek drops it, although its count was computed up to
\* three periods before, across losses of the GPS reference and with slots of
\* the past tried and accepted by jit_enqueue after them.
Truthful ==
  /\ sent.at = sent.stamp
  /\ \A n \in Beacons : \/ Outdated(n, Counter)
                        \/ time + Sub(n.count, Counter) = n.stamp

\* Once a beacon was loaded under a valid reference that lasts, no later slot
\* is skipped: the chain of last_beacon_gps_time and the retries leave no gap.
EveryPeriod == awaited # 0 => time <= awaited
=============================================================================
