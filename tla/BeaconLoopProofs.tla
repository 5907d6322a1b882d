-------------------------- MODULE BeaconLoopProofs ---------------------------
(***************************************************************************)
(* The pre-loading of beacons, for every period, counter width and queue,  *)
(* whatever the other packets and the losses of the GPS: with a single     *)
(* loader the queue never holds more beacons than wanted; the loop's       *)
(* variables keep their types; and, with delays in the order of the code's *)
(* (BeaconDelays), beacons are emitted at the time they carry.  When the   *)
(* queue has room for the beacons, no period is left without one, as long  *)
(* as the time reference lasts.                                            *)
(***************************************************************************)
EXTENDS BeaconLoop, FiniteSetTheorems, TLAPS

\* What a loader still has to load fits beside the beacons of the queue, so
\* that the number computed from an unlocked read can only be too small.
LoadInv ==
  /\ IsFiniteSet(queue)
  /\ pc \in [Loaders -> {"recv", "load"}]
  /\ beacon_loop \in [Loaders -> Nat]
  /\ AtMostThree
  /\ \A l \in Loaders :
       pc[l] = "load" => /\ beacon_loop[l] > 0
                         /\ num_beacon + beacon_loop[l] <= JIT_NUM_BEACON_IN_QUEUE

\* Removing nodes removes beacons or leaves them.
LEMMA FewerBeacons ==
  ASSUME IsFiniteSet(queue), queue' \subseteq queue
  PROVE  /\ IsFiniteSet(queue')
         /\ num_beacon \in Nat /\ num_beacon' \in Nat
         /\ num_beacon' <= num_beacon
<1>1. Beacons' \subseteq Beacons /\ Beacons \subseteq queue
  BY DEF Beacons
<1>2. IsFiniteSet(queue') /\ IsFiniteSet(Beacons)
  BY <1>1, FS_Subset
<1>3. IsFiniteSet(Beacons') /\ Cardinality(Beacons') <= Cardinality(Beacons)
  BY <1>1, <1>2, FS_Subset
<1> QED
  BY <1>2, <1>3, FS_CardinalityType DEF num_beacon

\* A new node is at most one more beacon.
LEMMA OneMoreBeacon ==
  ASSUME IsFiniteSet(queue), NEW node, queue' = queue \cup {node}
  PROVE  /\ IsFiniteSet(queue')
         /\ num_beacon \in Nat /\ num_beacon' \in Nat
         /\ num_beacon' <= num_beacon + 1
         /\ node.type # "BEACON" => num_beacon' = num_beacon
<1>1. IsFiniteSet(queue')
  BY FS_AddElement
<1>2. IsFiniteSet(Beacons)
  BY FS_Subset DEF Beacons
<1>3. Beacons' = IF node.type = "BEACON" THEN Beacons \cup {node} ELSE Beacons
  BY DEF Beacons
<1>4. /\ Cardinality(Beacons) \in Nat
      /\ IsFiniteSet(Beacons \cup {node})
      /\ Cardinality(Beacons \cup {node}) <= Cardinality(Beacons) + 1
  <2>1. Cardinality(Beacons) \in Nat
    BY <1>2, FS_CardinalityType
  <2>2. /\ IsFiniteSet(Beacons \cup {node})
        /\ Cardinality(Beacons \cup {node}) =
             IF node \in Beacons THEN Cardinality(Beacons) ELSE Cardinality(Beacons) + 1
    BY <1>2, FS_AddElement, Zenon
  <2> QED
    BY <2>1, <2>2
<1>5. Cardinality(Beacons \cup {node}) \in Nat
  BY <1>4, FS_CardinalityType
<1> QED
  BY <1>1, <1>3, <1>4, <1>5 DEF num_beacon

\* The subtraction does not wrap when there are not too many beacons.
LEMMA MissingIsRoom ==
  ASSUME NEW n \in Nat, n <= JIT_NUM_BEACON_IN_QUEUE
  PROVE  Missing(n) \in Nat /\ n + Missing(n) = JIT_NUM_BEACON_IN_QUEUE
  BY BeaconAssumption DEF Missing

LEMMA InitLoad == Init => LoadInv
<1> SUFFICES ASSUME Init PROVE LoadInv
  OBVIOUS
<1>1. IsFiniteSet(queue) /\ num_beacon = 0
  BY FS_EmptySet DEF Init, num_beacon, Beacons
<1> QED
  BY <1>1, BeaconAssumption DEF Init, LoadInv, AtMostThree

\* Every step of a single loader and of its environment keeps the invariant.
LEMMA NextLoad ==
  ASSUME \A k, l \in Loaders : k = l, LoadInv, [Next]_vars
  PROVE  LoadInv'
<1> USE DEF LoadInv, AtMostThree
<1>1. ASSUME queue' \subseteq queue, UNCHANGED <<pc, beacon_loop>> PROVE LoadInv'
  BY <1>1, FewerBeacons, BeaconAssumption
<1>2. CASE Tick
  BY <1>1, <1>2 DEF Tick
<1>3. CASE GpsChange
  BY <1>1, <1>3 DEF GpsChange, lvars
<1>4. CASE Downlink
  <2>1. PICK d \in Advances, toa \in ToA :
          queue' = queue \cup {Queued([type |-> "A", count |-> (time + d) % W,
                                       toa |-> toa], 0)}
    BY <1>4 DEF Downlink
  <2>2. Queued([type |-> "A", count |-> (time + d) % W, toa |-> toa], 0).type # "BEACON"
    BY DEF Queued
  <2>3. IsFiniteSet(queue') /\ num_beacon' = num_beacon
    BY <2>1, <2>2, OneMoreBeacon
  <2> QED
    BY <1>4, <2>3 DEF Downlink, lvars
<1>5. ASSUME NEW n \in queue, Drop(n) \/ Send(n) PROVE LoadInv'
  BY <1>1, <1>5 DEF Drop, Send, lvars
<1>6. ASSUME NEW l \in Loaders, Recv(l) PROVE LoadInv'
  <2>1. num_beacon \in Nat /\ num_beacon' = num_beacon /\ queue' = queue
    BY <1>6, FewerBeacons DEF Recv, num_beacon, Beacons
  <2>2. /\ Missing(num_beacon) \in Nat
        /\ num_beacon + Missing(num_beacon) = JIT_NUM_BEACON_IN_QUEUE
    BY <2>1, MissingIsRoom
  <2>3. /\ beacon_loop' = [beacon_loop EXCEPT ![l] = Missing(num_beacon)]
        /\ pc' = [pc EXCEPT ![l] = IF beacon_loop'[l] = 0 THEN "recv" ELSE "load"]
    BY <1>6 DEF Recv
  <2> HIDE DEF num_beacon, Missing
  <2>4. /\ pc' \in [Loaders -> {"recv", "load"}]
        /\ beacon_loop' \in [Loaders -> Nat]
    BY <2>2, <2>3
  <2>5. ASSUME NEW k \in Loaders, pc'[k] = "load"
        PROVE  /\ beacon_loop'[k] > 0
               /\ num_beacon' + beacon_loop'[k] <= JIT_NUM_BEACON_IN_QUEUE
    BY <2>1, <2>2, <2>3, <2>4, <2>5, BeaconAssumption
  <2> QED
    BY <2>1, <2>4, <2>5
<1>7. ASSUME NEW l \in Loaders, Break(l) PROVE LoadInv'
  <2>1. num_beacon' = num_beacon /\ queue' = queue
    BY <1>7 DEF Break, num_beacon, Beacons
  <2> QED
    BY <1>7, <2>1 DEF Break
<1>8. ASSUME NEW l \in Loaders, Load(l) PROVE LoadInv'
  <2>1. CASE UNCHANGED <<queue, beacon_loop, pc>>
    BY <1>1, <2>1
  <2>2. CASE ~UNCHANGED <<queue, beacon_loop, pc>>
    <3>1. PICK node :
            /\ queue' = queue \cup {node}
            /\ beacon_loop' = [beacon_loop EXCEPT ![l] = @ - 1]
            /\ pc' = [pc EXCEPT ![l] = IF beacon_loop'[l] = 0 THEN "recv" ELSE "load"]
      BY <1>8, <2>2 DEF Load
    <3>2. /\ IsFiniteSet(queue')
          /\ num_beacon \in Nat /\ num_beacon' \in Nat
          /\ num_beacon' <= num_beacon + 1
      BY <3>1, OneMoreBeacon
    <3>3. /\ beacon_loop[l] > 0
          /\ num_beacon + beacon_loop[l] <= JIT_NUM_BEACON_IN_QUEUE
      BY <1>8 DEF Load
    <3> HIDE DEF num_beacon
    <3>4. /\ beacon_loop' \in [Loaders -> Nat]
          /\ pc' \in [Loaders -> {"recv", "load"}]
      BY <3>1, <3>3
    <3>5. num_beacon' <= JIT_NUM_BEACON_IN_QUEUE
      BY <3>2, <3>3, BeaconAssumption
    <3>6. ASSUME NEW k \in Loaders, pc'[k] = "load"
          PROVE  /\ beacon_loop'[k] > 0
                 /\ num_beacon' + beacon_loop'[k] <= JIT_NUM_BEACON_IN_QUEUE
      <4>1. k = l
        OBVIOUS
      <4> QED
        BY <3>1, <3>2, <3>3, <3>4, <3>6, <4>1, BeaconAssumption
    <3> QED
      BY <3>2, <3>4, <3>5, <3>6
  <2> QED
    BY <2>1, <2>2
<1>9. CASE UNCHANGED vars
  BY <1>1, <1>9 DEF vars, lvars
<1> QED
  BY <1>2, <1>3, <1>4, <1>5, <1>6, <1>7, <1>8, <1>9 DEF Next

\* With one service loading beacons there are never more than
\* JIT_NUM_BEACON_IN_QUEUE of them, and beacon_loop never wraps.  (With two
\* services there are.)
THEOREM SingleLoaderAtMostThree ==
  ASSUME \A k, l \in Loaders : k = l
  PROVE  Spec => []AtMostThree
<1>1. LoadInv /\ [Next]_vars => LoadInv'
  BY NextLoad
<1>2. LoadInv => AtMostThree
  BY DEF LoadInv
<1> QED
  BY <1>1, <1>2, InitLoad, PTL DEF Spec
-----------------------------------------------------------------------------
(* Types. *)

\* A loader in its loop has a beacon left to load: beacon_loop does not wrap.
TypeInv ==
  /\ TypeOK
  /\ IsFiniteSet(queue)
  /\ \A l \in Loaders : pc[l] = "load" => beacon_loop[l] # 0

LEMMA ModTime ==
  ASSUME NEW a \in Int
  PROVE  a % W \in Time
BY JitAssumption DEF Time

LEMMA QueuedType ==
  ASSUME NEW pkt, pkt.type \in {"A", "BEACON"}, pkt.count \in Time,
         pkt.toa \in Nat, NEW stamp \in GpsTime
  PROVE  Queued(pkt, stamp) \in QNode
<1>1. PreDelay(pkt.type) \in Nat
  <2>1. TX_START_DELAY \in Nat /\ BEACON_GUARD \in Nat /\ TX_JIT_DELAY \in Nat
    BY JitAssumption
  <2> QED
    BY <2>1 DEF PreDelay
<1>2. PostDelay(pkt) \in Nat
  BY JitAssumption DEF PostDelay
<1> QED
  BY <1>1, <1>2 DEF Queued, QNode

LEMMA NextSlotType ==
  ASSUME TypeOK, NEW l \in Loaders, NEW ref \in Nat
  PROVE  NextSlot(l, ref) \in Nat
<1>1. /\ PERIOD \in Nat \ {0} /\ retry[l] \in Nat
      /\ last_gps[l] \in Nat
  BY BeaconAssumption, JitAssumption DEF TypeOK, GpsTime
<1>2. retry[l] * PERIOD \in Nat
  BY <1>1
<1>3. PERIOD - (ref % PERIOD) \in Nat
  BY <1>1
<1> QED
  BY <1>1, <1>2, <1>3 DEF NextSlot

LEMMA CountsType ==
  ASSUME NEW slot \in Nat, NEW ref \in Nat
  PROVE  CountsOf(slot, ref) \subseteq Time
BY ModTime DEF CountsOf

LEMMA InitTypes == Init => TypeInv
<1> SUFFICES ASSUME Init PROVE TypeInv
  OBVIOUS
<1>1. /\ MaxTime \in Nat \ {0} /\ W \in Nat /\ RECV_LAG \in Nat /\ TX_JIT_DELAY \in Nat
  BY BeaconAssumption, JitAssumption
<1>2. 0 \in GpsTime /\ 0 \in 0 .. (MaxTime + TX_JIT_DELAY)
  BY <1>1 DEF GpsTime
<1>3. sent \in [stamp : GpsTime, at : 0 .. (MaxTime + TX_JIT_DELAY)]
  BY <1>2 DEF Init
<1>4. /\ queue \in SUBSET QNode /\ IsFiniteSet(queue)
      /\ time \in 0 .. MaxTime
  BY <1>1, FS_EmptySet DEF Init
<1>5. /\ pc \in [Loaders -> {"recv", "load"}]
      /\ idle \in [Loaders -> 0 .. RECV_LAG]
      /\ beacon_loop \in [Loaders -> 0 .. 255]
      /\ retry \in [Loaders -> Nat]
      /\ last_gps \in [Loaders -> GpsTime]
  BY <1>1, <1>2 DEF Init
<1>6. gps \in BOOLEAN /\ awaited \in Nat /\ \A l \in Loaders : pc[l] # "load"
  BY DEF Init
<1> QED
  BY <1>3, <1>4, <1>5, <1>6 DEF TypeInv, TypeOK

LEMMA NextTypes == TypeInv /\ [Next]_vars => TypeInv'
<1> SUFFICES ASSUME TypeInv, [Next]_vars PROVE TypeInv'
  OBVIOUS
<1>1. /\ MaxTime \in Nat \ {0} /\ W \in Nat \ {0} /\ RECV_LAG \in Nat
      /\ TX_JIT_DELAY \in Nat /\ PERIOD \in Nat \ {0}
  BY BeaconAssumption, JitAssumption
<1>2. TypeOK
  BY DEF TypeInv
<1>3. CASE Tick
  <2>1. time' \in 0 .. MaxTime
    BY <1>1, <1>2, <1>3 DEF Tick, TypeOK
  <2>2. idle' \in [Loaders -> 0 .. RECV_LAG]
    BY <1>1, <1>2, <1>3 DEF Tick, TypeOK
  <2> QED
    BY <1>2, <1>3, <2>1, <2>2 DEF Tick, TypeInv, TypeOK
<1>4. CASE GpsChange
  BY <1>1, <1>2, <1>4 DEF GpsChange, TypeInv, TypeOK, GpsTime, lvars
<1>5. CASE Downlink
  <2>1. PICK d \in Advances, toa \in ToA :
          queue' = queue \cup {Queued([type |-> "A", count |-> (time + d) % W,
                                       toa |-> toa], 0)}
    BY <1>5 DEF Downlink
  <2>2. d \in Nat /\ toa \in Nat /\ time \in Nat /\ 0 \in GpsTime
    BY <1>1, <1>2, JitAssumption, BeaconAssumption DEF TypeOK, GpsTime
  <2>3. (time + d) % W \in Time
    BY <2>2, ModTime
  <2>4. queue' \in SUBSET QNode /\ IsFiniteSet(queue')
    <3>1. queue' \in SUBSET QNode
      BY <1>2, <2>1, <2>2, <2>3, QueuedType DEF TypeOK
    <3> QED
      BY <2>1, <3>1, FS_AddElement DEF TypeInv
  <2> QED
    BY <1>2, <1>5, <2>4 DEF Downlink, TypeInv, TypeOK, lvars
<1>6. ASSUME NEW n \in queue, Drop(n) PROVE TypeInv'
  <2>1. IsFiniteSet(queue')
    BY <1>6, FS_Subset DEF Drop, TypeInv
  <2> QED
    BY <1>2, <1>6, <2>1 DEF Drop, TypeInv, TypeOK, lvars
<1>7. ASSUME NEW n \in queue, Send(n) PROVE TypeInv'
  <2>1. n \in QNode /\ queue' \in SUBSET QNode /\ IsFiniteSet(queue')
    BY <1>2, <1>7, FS_Subset DEF TypeInv, TypeOK, Send
  <2>2. Sub(n.count, Counter) \in Nat /\ Sub(n.count, Counter) < TX_JIT_DELAY
    <3>1. n.count - Counter \in Int
      BY <1>1, <1>2, <2>1 DEF Counter, TypeOK, QNode, Time
    <3> QED
      BY <1>1, <1>7, <3>1 DEF Send, Due, Sub
  <2>3. sent' \in [stamp : GpsTime, at : 0 .. (MaxTime + TX_JIT_DELAY)]
    <3>1. CASE sent' = [stamp |-> n.stamp, at |-> time + Sub(n.count, Counter)]
      <4>1. n.stamp \in GpsTime
        BY <2>1 DEF QNode
      <4>2. time + Sub(n.count, Counter) \in 0 .. (MaxTime + TX_JIT_DELAY)
        BY <1>1, <1>2, <2>2 DEF TypeOK
      <4> QED
        BY <3>1, <4>1, <4>2
    <3>2. CASE sent' = sent
      BY <1>2, <3>2 DEF TypeOK
    <3> QED
      BY <1>7, <3>1, <3>2 DEF Send
  <2>4. awaited' \in Nat
    BY <1>1, <1>2, <1>7 DEF Send, TypeOK
  <2> QED
    BY <1>2, <1>7, <2>1, <2>3, <2>4 DEF Send, TypeInv, TypeOK, lvars
<1>8. ASSUME NEW l \in Loaders, Recv(l) PROVE TypeInv'
  <2>1. num_beacon \in Nat
    BY <1>8, FewerBeacons DEF TypeInv, Recv
  <2>2. Missing(num_beacon) \in 0 .. 255
    BY <2>1, BeaconAssumption DEF Missing
  <2> HIDE DEF num_beacon, Missing
  <2>3. /\ beacon_loop' \in [Loaders -> 0 .. 255]
        /\ \A k \in Loaders : pc'[k] = "load" => beacon_loop'[k] # 0
    BY <1>2, <1>8, <2>2 DEF Recv, TypeInv, TypeOK
  <2>4. idle' \in [Loaders -> 0 .. RECV_LAG]
    BY <1>1, <1>2, <1>8 DEF Recv, TypeOK
  <2> QED
    BY <1>2, <1>8, <2>3, <2>4 DEF Recv, TypeInv, TypeOK
<1>9. ASSUME NEW l \in Loaders, Break(l) PROVE TypeInv'
  BY <1>2, <1>9 DEF Break, TypeInv, TypeOK
<1>10. ASSUME NEW l \in Loaders, Load(l) PROVE TypeInv'
  <2>1. PICK ref \in 0 .. time, slot \in Nat, count \in Time :
          LET pkt == [type |-> "BEACON", count |-> count, toa |-> 0] IN
          /\ slot <= MaxTime + W
          /\ \/ /\ queue' = queue \cup {Queued(pkt, slot)}
                /\ beacon_loop' = [beacon_loop EXCEPT ![l] = @ - 1]
                /\ retry' = [retry EXCEPT ![l] = Retried(@)]
                /\ last_gps' = [last_gps EXCEPT ![l] = slot]
                /\ pc' = [pc EXCEPT ![l] = IF beacon_loop'[l] = 0 THEN "recv" ELSE "load"]
                /\ awaited' = IF awaited = 0 /\ slot > time THEN slot ELSE awaited
             \/ /\ retry' = [retry EXCEPT ![l] = @ + 1]
                /\ UNCHANGED <<queue, beacon_loop, last_gps, pc, awaited>>
    <3>1. PICK ref \in {r \in 0 .. time : r + REF_AGE >= time} :
            LET slot == NextSlot(l, ref) IN
            /\ slot <= MaxTime + W
            /\ \E count \in CountsOf(slot, ref) :
                 LET pkt == [type |-> "BEACON", count |-> count, toa |-> 0] IN
                 \/ /\ queue' = queue \cup {Queued(pkt, slot)}
                    /\ beacon_loop' = [beacon_loop EXCEPT ![l] = @ - 1]
                    /\ retry' = [retry EXCEPT ![l] = Retried(@)]
                    /\ last_gps' = [last_gps EXCEPT ![l] = slot]
                    /\ pc' = [pc EXCEPT ![l] = IF beacon_loop'[l] = 0 THEN "recv" ELSE "load"]
                    /\ awaited' = IF awaited = 0 /\ slot > time THEN slot ELSE awaited
                 \/ /\ retry' = [retry EXCEPT ![l] = @ + 1]
                    /\ UNCHANGED <<queue, beacon_loop, last_gps, pc, awaited>>
      BY <1>10 DEF Load
    <3>2. ref \in Nat /\ ref \in 0 .. time
      BY <1>2 DEF TypeOK
    <3>3. NextSlot(l, ref) \in Nat
      BY <1>2, <3>2, NextSlotType
    <3>4. CountsOf(NextSlot(l, ref), ref) \subseteq Time
      BY <3>2, <3>3, CountsType
    <3> HIDE DEF NextSlot
    <3> QED
      BY <3>1, <3>2, <3>3, <3>4
  <2> DEFINE pkt == [type |-> "BEACON", count |-> count, toa |-> 0]
  <2>2. slot \in GpsTime
    BY <1>1, <2>1 DEF GpsTime
  <2>3. beacon_loop[l] \in 1 .. 255 /\ pc[l] = "load"
    BY <1>2, <1>10 DEF Load, TypeInv, TypeOK
  <2>4. CASE UNCHANGED <<queue, beacon_loop, last_gps, pc, awaited>>
             /\ retry' = [retry EXCEPT ![l] = @ + 1]
    BY <1>2, <1>10, <2>4 DEF Load, TypeInv, TypeOK
  <2>5. CASE /\ queue' = queue \cup {Queued(pkt, slot)}
             /\ beacon_loop' = [beacon_loop EXCEPT ![l] = @ - 1]
             /\ retry' = [retry EXCEPT ![l] = Retried(@)]
             /\ last_gps' = [last_gps EXCEPT ![l] = slot]
             /\ pc' = [pc EXCEPT ![l] = IF beacon_loop'[l] = 0 THEN "recv" ELSE "load"]
             /\ awaited' = IF awaited = 0 /\ slot > time THEN slot ELSE awaited
    <3>1. queue' \in SUBSET QNode /\ IsFiniteSet(queue')
      <4>1. queue' \in SUBSET QNode
        BY <1>2, <2>2, <2>5, QueuedType DEF TypeOK
      <4> QED
        BY <2>5, <4>1, FS_AddElement DEF TypeInv
    <3>2. beacon_loop' \in [Loaders -> 0 .. 255]
      BY <1>2, <2>3, <2>5 DEF TypeOK
    <3>3. /\ retry' \in [Loaders -> Nat] /\ last_gps' \in [Loaders -> GpsTime]
          /\ awaited' \in Nat /\ pc' \in [Loaders -> {"recv", "load"}]
      BY <1>2, <2>2, <2>5 DEF TypeOK, Retried
    <3>4. \A k \in Loaders : pc'[k] = "load" => beacon_loop'[k] # 0
      BY <1>2, <2>5 DEF TypeInv, TypeOK
    <3> QED
      BY <1>2, <1>10, <3>1, <3>2, <3>3, <3>4 DEF Load, TypeInv, TypeOK
  <2> QED
    BY <2>1, <2>4, <2>5
<1>11. CASE UNCHANGED vars
  BY <1>2, <1>11 DEF vars, lvars, TypeInv, TypeOK
<1> QED
  BY <1>3, <1>4, <1>5, <1>6, <1>7, <1>8, <1>9, <1>10, <1>11 DEF Next

\* The loop's variables keep their types: with any number of loaders,
\* beacon_loop, a uint8_t counted down to zero, does not wrap in the loop.
THEOREM BeaconTypes == Spec => []TypeOK
<1>1. TypeInv => TypeOK
  BY DEF TypeInv
<1> QED
  BY <1>1, InitTypes, NextTypes, PTL DEF Spec

-----------------------------------------------------------------------------
(* Beacons of the right time. *)

LEMMA DivideBy ==
  ASSUME NEW w \in Nat \ {0}, NEW a \in Int
  PROVE  /\ a = w * (a \div w) + (a % w)
         /\ a % w \in 0 .. (w - 1)
         /\ (a \div w) \in Int
OBVIOUS

LEMMA Remainder ==
  ASSUME NEW w \in Nat \ {0}, NEW q \in Int, NEW r \in 0 .. (w - 1)
  PROVE  (w * q + r) % w = r
OBVIOUS

LEMMA ModDifference ==
  ASSUME NEW w \in Nat \ {0}, NEW a \in Int, NEW b \in Int
  PROVE  ((a % w) - (b % w)) % w = (a - b) % w
<1> DEFINE x == (a % w) - (b % w)
           m == x % w
           q == x \div w
           qa == a \div w
           qb == b \div w
           ra == a % w
           rb == b % w
<1>1. a = w * qa + ra /\ qa \in Int /\ ra \in Int
  BY DivideBy
<1>2. b = w * qb + rb /\ qb \in Int /\ rb \in Int
  BY DivideBy
<1>3. x = ra - rb /\ x \in Int
  <2>1. x = ra - rb
    OBVIOUS
  <2> HIDE DEF x, ra, rb
  <2> QED
    BY <1>1, <1>2, <2>1
<1>4. x = w * q + m /\ m \in 0 .. (w - 1) /\ q \in Int
  <2>1. \A y \in Int : /\ y = w * (y \div w) + (y % w)
                       /\ y % w \in 0 .. (w - 1)
                       /\ (y \div w) \in Int
    BY DivideBy
  <2> HIDE DEF x
  <2> QED
    BY <1>3, <2>1
<1> HIDE DEF x, m, q, qa, qb, ra, rb
<1>5. a - b = w * (qa - qb + q) + m
  <2> DEFINE A == w * qa
             B == w * qb
             Q == w * q
  <2>1. w * (qa - qb + q) = A - B + Q
    BY <1>1, <1>2, <1>4
  <2>2. A \in Int /\ B \in Int /\ Q \in Int /\ m \in Int
    BY <1>1, <1>2, <1>4
  <2>3. a = A + ra /\ b = B + rb /\ ra - rb = Q + m
    BY <1>1, <1>2, <1>3, <1>4
  <2> HIDE DEF A, B, Q
  <2> QED
    BY <1>1, <1>2, <2>1, <2>2, <2>3
<1>6. (a - b) % w = m
  BY <1>1, <1>2, <1>4, <1>5, Remainder
<1> QED
  BY <1>6 DEF m, x

\* The counter's difference between two instants less than a turn apart.
LEMMA SubInstants ==
  ASSUME NEW a \in Nat, NEW b \in Nat
  PROVE  /\ b <= a /\ a < b + W => Sub(a % W, b % W) = a - b
         /\ a < b /\ b <= a + W => Sub(a % W, b % W) = a - b + W
<1> DEFINE d == a - b
<1>1. W \in Nat \ {0} /\ d \in Int
  BY JitAssumption
<1>2. Sub(a % W, b % W) = d % W
  <2>1. a \in Int /\ b \in Int
    OBVIOUS
  <2>2. ((a % W) - (b % W)) % W = (a - b) % W
    BY <1>1, <2>1, ModDifference
  <2> QED
    BY <2>2 DEF Sub
<1>3. ASSUME b <= a, a < b + W PROVE d % W = d
  <2>1. 0 <= d /\ d < W
    BY <1>1, <1>3
  <2> HIDE DEF d
  <2> QED
    BY <1>1, <2>1
<1>4. ASSUME a < b, b <= a + W PROVE d % W = d + W
  <2>1. d < 0 /\ 0 <= d + W
    BY <1>1, <1>4
  <2> HIDE DEF d
  <2>2. d + W \in 0 .. (W - 1) /\ d = W * (-1) + (d + W)
    BY <1>1, <2>1
  <2> QED
    BY <1>1, <2>2, Remainder
<1> QED
  BY <1>2, <1>3, <1>4

\* A departure that is not now is one tick nearer after a tick.
LEMMA SubTick ==
  ASSUME NEW c \in Time, NEW b \in Nat, Sub(c, b % W) > 0
  PROVE  Sub(c, (b + 1) % W) = Sub(c, b % W) - 1
<1> DEFINE d == c - b
           e == c - (b + 1)
           m == d % W
           q == d \div W
<1>1. /\ W \in Nat \ {0} /\ c \in Nat /\ c % W = c
      /\ d \in Int /\ e \in Int /\ e = d - 1
  BY JitAssumption DEF Time
<1>2. Sub(c, b % W) = m /\ Sub(c, (b + 1) % W) = e % W
  <2> DEFINE x == b + 1
  <2>1. c \in Int /\ b \in Int /\ x \in Int
    BY <1>1
  <2> HIDE DEF x
  <2>2. /\ ((c % W) - (b % W)) % W = (c - b) % W
        /\ ((c % W) - (x % W)) % W = (c - x) % W
    BY <1>1, <2>1, ModDifference
  <2>3. Sub(c, b % W) = (c - b) % W /\ Sub(c, x % W) = (c - x) % W
    BY <1>1, <2>2, Zenon DEF Sub
  <2> QED
    BY <2>3, Zenon DEF x
<1>3. d = W * q + m /\ m \in 0 .. (W - 1) /\ q \in Int
  <2> HIDE DEF d
  <2> QED
    BY <1>1, DivideBy
<1> HIDE DEF d, e, m, q
<1>4. m - 1 \in 0 .. (W - 1)
  BY <1>1, <1>2, <1>3
<1>5. e = W * q + (m - 1)
  <2> DEFINE Q == W * q
  <2>1. Q \in Int /\ m \in Int /\ d = Q + m
    BY <1>1, <1>3
  <2> HIDE DEF Q
  <2>2. e = Q + (m - 1)
    BY <1>1, <2>1
  <2> QED
    BY <2>2 DEF Q
<1>6. e % W = m - 1
  BY <1>1, <1>3, <1>4, <1>5, Remainder
<1> QED
  BY <1>2, <1>6

\* A count computed for a slot of the past, be it the oldest one tried or the
\* time reference, is seen as outdated, and the time thread_jit needs is not zero.
BeaconDelays ==
  /\ TX_JIT_DELAY > 0
  /\ REF_AGE <= MaxOutage
  /\ REF_AGE + TX_MAX_ADVANCE_DELAY <= W
  /\ MaxOutage + TX_MAX_ADVANCE_DELAY <= W + PERIOD

\* No loader has had to skip so many periods that its slot is a turn of the
\* counter ahead.
SlotsAhead == \A n \in Beacons : n.stamp < time + W

\* A loader's last slot is not older than the losses of the GPS allow.
LastInv == \A l \in Loaders : last_gps[l] # 0 => time <= last_gps[l] + MaxOutage

TruthInv == TypeInv /\ LastInv /\ Truthful

\* A slot computed now: it is after the reference, or a period or more after the
\* last one.
LEMMA SlotAge ==
  ASSUME BeaconDelays, TypeOK, LastInv, NEW l \in Loaders,
         NEW ref \in Nat, ref + REF_AGE >= time
  PROVE  /\ NextSlot(l, ref) \in Nat
         /\ time <= NextSlot(l, ref) + MaxOutage
         /\ time + TX_MAX_ADVANCE_DELAY <= NextSlot(l, ref) + W
<1> DEFINE skip == retry[l] * PERIOD
           first == PERIOD - (ref % PERIOD)
           g == last_gps[l]
<1>1. /\ PERIOD \in Nat \ {0} /\ retry[l] \in Nat /\ g \in Nat /\ time \in Nat
      /\ REF_AGE \in Nat /\ MaxOutage \in Nat /\ TX_MAX_ADVANCE_DELAY \in Nat
      /\ W \in Nat
  BY BeaconAssumption, JitAssumption DEF TypeOK, GpsTime
<1>2. skip \in Nat
  BY <1>1
<1>3. first \in Nat
  BY <1>1
<1>4. g # 0 => time <= g + MaxOutage
  BY DEF LastInv
<1>5. NextSlot(l, ref) = (IF g = 0 THEN ref + first ELSE g + PERIOD) + skip
  BY DEF NextSlot
<1> HIDE DEF skip, first, g
<1>6. CASE g = 0
  BY <1>1, <1>2, <1>3, <1>5, <1>6 DEF BeaconDelays
<1>7. CASE g # 0
  BY <1>1, <1>2, <1>4, <1>5, <1>7 DEF BeaconDelays
<1> QED
  BY <1>6, <1>7

\* A beacon accepted now is dropped by jit_peek or will leave at its slot.
LEMMA AcceptedTruthful ==
  ASSUME BeaconDelays, TypeOK, NEW slot \in Nat, NEW ref \in 0 .. time,
         ref + REF_AGE >= time, time + TX_MAX_ADVANCE_DELAY <= slot + W,
         slot < time + W, NEW pkt, pkt.count \in CountsOf(slot, ref), ~TooLate(Counter, pkt)
  PROVE  \/ Sub(pkt.count, Counter) >= TX_MAX_ADVANCE_DELAY
         \/ time + Sub(pkt.count, Counter) = slot
<1>1. /\ time \in Nat /\ ref \in Nat /\ ref <= time /\ W \in Nat \ {0} /\ REF_AGE \in Nat
      /\ TX_MAX_ADVANCE_DELAY \in Nat
  BY BeaconAssumption, JitAssumption DEF TypeOK
<1>2. CASE pkt.count = slot % W
  <2>1. CASE time <= slot
    <3>1. Sub(slot % W, time % W) = slot - time
      BY <1>1, <2>1, SubInstants
    <3> QED
      BY <1>1, <1>2, <3>1 DEF Counter
  <2>2. CASE slot < time
    <3>1. Sub(slot % W, time % W) = slot - time + W
      <4>1. time <= slot + W
        BY <1>1
      <4> QED
        BY <1>1, <2>2, <4>1, SubInstants
    <3>2. slot - time + W >= TX_MAX_ADVANCE_DELAY
      BY <1>1
    <3> QED
      BY <1>2, <3>1, <3>2 DEF Counter
  <2> QED
    BY <1>1, <2>1, <2>2
<1>3. CASE pkt.count = ref % W
  <2>1. CASE ref = time
    <3>1. Sub(ref % W, time % W) = 0
      BY <1>1, <2>1, SubInstants
    <3>2. 0 <= TX_START_DELAY + TX_MARGIN_DELAY + TX_JIT_DELAY
      BY JitAssumption
    <3>3. TooLate(Counter, pkt)
      BY <1>3, <3>1, <3>2 DEF TooLate, Counter
    <3> QED
      BY <3>3
  <2>2. CASE ref < time
    <3>1. Sub(ref % W, time % W) = ref - time + W
      <4>1. time <= ref + W
        BY <1>1 DEF BeaconDelays
      <4> QED
        BY <1>1, <2>2, <4>1, SubInstants
    <3>2. ref - time + W >= TX_MAX_ADVANCE_DELAY
      BY <1>1 DEF BeaconDelays
    <3> QED
      BY <1>3, <3>1, <3>2 DEF Counter
  <2> QED
    BY <1>1, <2>1, <2>2
<1> QED
  BY <1>2, <1>3 DEF CountsOf

LEMMA NextTruth ==
  ASSUME BeaconDelays
  PROVE  TruthInv /\ SlotsAhead' /\ [Next]_vars => TruthInv'
<1> SUFFICES ASSUME TruthInv, SlotsAhead', [Next]_vars PROVE TruthInv'
  OBVIOUS
<1>1. TypeInv /\ TypeOK /\ LastInv /\ Truthful /\ TypeInv'
  BY NextTypes DEF TruthInv, TypeInv
<1> SUFFICES LastInv' /\ Truthful'
  BY <1>1 DEF TruthInv
<1>2. /\ time \in Nat /\ W \in Nat \ {0} /\ MaxOutage \in Nat /\ TX_JIT_DELAY \in Nat
      /\ \A n \in queue : n.count \in Time /\ n.stamp \in Nat
      /\ last_gps \in [Loaders -> GpsTime]
      /\ GpsTime \subseteq Nat
  BY <1>1, BeaconAssumption, JitAssumption DEF TypeOK, QNode, GpsTime
<1>3. ASSUME queue' \subseteq queue, UNCHANGED <<time, last_gps>>, sent'.at = sent'.stamp
      PROVE  LastInv' /\ Truthful'
  BY <1>1, <1>3 DEF LastInv, Truthful, Beacons, Counter, Outdated
<1>4. sent.at = sent.stamp
  BY <1>1 DEF Truthful
<1>5. CASE Tick
  <2>1. time' = time + 1 /\ UNCHANGED <<queue, last_gps, sent>>
    BY <1>5 DEF Tick
  <2>2. LastInv'
    BY <1>1, <1>2, <1>5, <2>1 DEF Tick, LastInv, GpsTime
  <2>3. ASSUME NEW n \in Beacons PROVE time' + Sub(n.count, Counter') = n.stamp
    <3>1. n \in queue /\ n.count \in Time /\ n.stamp \in Nat
      BY <1>2, <2>3 DEF Beacons
    <3>2. ~Due(n) /\ ~Outdated(n, Counter)
      BY <1>5, <3>1 DEF Tick
    <3>3. time + Sub(n.count, Counter) = n.stamp
      BY <1>1, <3>2 DEF Truthful
    <3> DEFINE x == Sub(n.count, time % W)
    <3>4. x \in Nat /\ x > 0
      <4>1. x \in Nat
        BY <1>2, <3>1 DEF Sub, Time
      <4>2. ~(x < TX_JIT_DELAY)
        BY <3>2 DEF Due, Counter
      <4> HIDE DEF x
      <4> QED
        BY <1>2, <4>1, <4>2 DEF BeaconDelays
    <3>5. Sub(n.count, (time + 1) % W) = x - 1
      BY <1>2, <3>1, <3>4, SubTick
    <3>6. Counter' = (time + 1) % W
      BY <2>1 DEF Counter
    <3>7. time + x = n.stamp
      BY <3>3 DEF Counter
    <3> HIDE DEF x
    <3> QED
      BY <1>2, <2>1, <3>1, <3>4, <3>5, <3>6, <3>7
  <2>4. Beacons' = Beacons
    BY <2>1 DEF Beacons
  <2> QED
    BY <1>4, <2>1, <2>2, <2>3, <2>4 DEF Truthful
<1>6. CASE GpsChange
  BY <1>3, <1>4, <1>6 DEF GpsChange, lvars
<1>7. CASE Downlink
  <2>1. PICK pkt : queue' = queue \cup {Queued(pkt, 0)} /\ pkt.type = "A"
    BY <1>7 DEF Downlink
  <2>2. Beacons' = Beacons /\ UNCHANGED <<time, last_gps, sent>>
    BY <1>7, <2>1 DEF Downlink, Beacons, Queued, lvars
  <2> QED
    BY <1>1, <2>2 DEF LastInv, Truthful, Counter, Outdated
<1>8. ASSUME NEW n \in queue, Drop(n) PROVE LastInv' /\ Truthful'
  BY <1>3, <1>4, <1>8 DEF Drop, lvars
<1>9. ASSUME NEW n \in queue, Send(n) PROVE LastInv' /\ Truthful'
  <2>1. queue' \subseteq queue /\ UNCHANGED <<time, last_gps>>
    BY <1>9 DEF Send, lvars
  <2>2. CASE n.type = "BEACON" /\ sent' = [stamp |-> n.stamp, at |-> time + Sub(n.count, Counter)]
    <3>1. time + Sub(n.count, Counter) = n.stamp
      BY <1>1, <1>9, <2>2 DEF Send, Truthful, Beacons
    <3> QED
      BY <1>3, <2>1, <2>2, <3>1
  <2>3. CASE sent' = sent
    BY <1>3, <1>4, <2>1, <2>3
  <2> QED
    BY <1>9, <2>2, <2>3 DEF Send
<1>10. ASSUME NEW l \in Loaders, Recv(l) \/ Break(l) PROVE LastInv' /\ Truthful'
  BY <1>3, <1>4, <1>10 DEF Recv, Break
<1>11. ASSUME NEW l \in Loaders, Load(l) PROVE LastInv' /\ Truthful'
  <2>1. PICK ref \in {r \in 0 .. time : r + REF_AGE >= time} :
          \/ \E count \in CountsOf(NextSlot(l, ref), ref) :
               LET pkt == [type |-> "BEACON", count |-> count, toa |-> 0] IN
               /\ Accepts(pkt)
               /\ queue' = queue \cup {Queued(pkt, NextSlot(l, ref))}
               /\ last_gps' = [last_gps EXCEPT ![l] = NextSlot(l, ref)]
          \/ UNCHANGED <<queue, last_gps>>
    BY <1>11 DEF Load
  <2>2. UNCHANGED <<time, sent>>
    BY <1>11 DEF Load
  <2>3. CASE UNCHANGED <<queue, last_gps>>
    BY <1>3, <1>4, <2>2, <2>3
  <2>4. CASE ~UNCHANGED <<queue, last_gps>>
    <3> DEFINE slot == NextSlot(l, ref)
    <3>1. ref \in Nat /\ ref \in 0 .. time /\ ref + REF_AGE >= time
      BY <1>2, <2>1
    <3>2. /\ slot \in Nat /\ time <= slot + MaxOutage
          /\ time + TX_MAX_ADVANCE_DELAY <= slot + W
      BY <1>1, <3>1, SlotAge
    <3>3. PICK count \in CountsOf(slot, ref) :
            LET pkt == [type |-> "BEACON", count |-> count, toa |-> 0] IN
            /\ Accepts(pkt)
            /\ queue' = queue \cup {Queued(pkt, slot)}
            /\ last_gps' = [last_gps EXCEPT ![l] = slot]
      BY <2>1, <2>4
    <3> HIDE DEF slot
    <3> DEFINE pkt == [type |-> "BEACON", count |-> count, toa |-> 0]
               node == Queued(pkt, slot)
    <3>4. /\ node.type = "BEACON" /\ node.count = count /\ node.stamp = slot
          /\ node \in queue' /\ node \in Beacons'
      BY <3>3 DEF Queued, Beacons
    <3>5. slot < time + W
      BY <2>2, <3>4 DEF SlotsAhead
    <3>6. \/ Sub(count, Counter) >= TX_MAX_ADVANCE_DELAY
          \/ time + Sub(count, Counter) = slot
      <4>1. ~TooLate(Counter, pkt)
        BY <3>3 DEF Accepts
      <4> QED
        BY <1>1, <3>1, <3>2, <3>5, <4>1, AcceptedTruthful
    <3>7. Beacons' = Beacons \cup {node}
      BY <3>3, <3>4 DEF Beacons
    <3>8. Counter' = Counter
      BY <2>2 DEF Counter
    <3> HIDE DEF node
    <3>9. Truthful'
      BY <1>1, <1>4, <2>2, <3>4, <3>6, <3>7, <3>8 DEF Truthful, Outdated
    <3>10. LastInv'
      BY <1>1, <1>2, <2>2, <3>2, <3>3 DEF LastInv
    <3> QED
      BY <3>9, <3>10
  <2> QED
    BY <2>3, <2>4
<1>12. CASE UNCHANGED vars
  BY <1>3, <1>4, <1>12 DEF vars, lvars
<1> QED
  BY <1>5, <1>6, <1>7, <1>8, <1>9, <1>10, <1>11, <1>12 DEF Next

\* Every beacon handed to the radio is emitted at the GPS time of its payload,
\* however often the GPS reference is lost while a loader's last slot is at most
\* MaxOutage old, and whichever way the conversion of a negative duration goes,
\* as long as no retry leads a turn of the counter ahead.
THEOREM BeaconsTruthful ==
  ASSUME BeaconDelays
  PROVE  Spec /\ []SlotsAhead => []Truthful
<1>1. Init => TruthInv
  BY InitTypes DEF Init, TruthInv, LastInv, Truthful, Beacons
<1>2. TruthInv => Truthful
  BY DEF TruthInv
<1>3. TruthInv /\ SlotsAhead' /\ [Next]_vars => TruthInv'
  BY NextTruth
<1> QED
  BY <1>1, <1>2, <1>3, PTL DEF Spec

-----------------------------------------------------------------------------
(* No period without its beacon. *)

\* What a beacon keeps before it, and what a full set of beacons spans.
Guard == PreDelay("BEACON") + TX_MARGIN_DELAY
Span  == JIT_NUM_BEACON_IN_QUEUE * PERIOD

\* Slots are refused at most near ahead: downlinks are asked for shortly before
\* their departure, a period is longer than that with the age of the reference
\* or the time between two calls of recv, the beacons wanted are less
\* than TX_MAX_ADVANCE_DELAY ahead, and no slot is a turn of the counter from
\* another one.
PeriodDelays(near) ==
  /\ BeaconDelays
  /\ \A d \in Advances, toa \in ToA : d + toa + Guard <= near
  /\ BEACON_RESERVED + Guard <= near
  /\ REF_AGE + near < PERIOD
  /\ RECV_LAG + near < PERIOD
  /\ Span + PERIOD < TX_MAX_ADVANCE_DELAY
  /\ TX_MAX_ADVANCE_DELAY + near <= W
  /\ MaxOutage + Span + near < W + PERIOD

\* The other packets leave the beacons their places in the queue.
RoomForBeacons ==
  Cardinality(queue \ Beacons) + JIT_NUM_BEACON_IN_QUEUE <= JIT_QUEUE_MAX

Live == {n \in Beacons : ~Outdated(n, Counter)}

\* A downlink near its departure; a beacon that will leave at its slot, and one
\* of a slot of the past, that jit_peek will drop.
NearDownlink(n, near) ==
  /\ n.pre = PreDelay("A")
  /\ \E e \in Nat : /\ n.count = (time + e) % W
                    /\ e + n.post + Guard <= near

OnTime(n, last) ==
  /\ n.count = n.stamp % W
  /\ time <= n.stamp /\ n.stamp <= last
  /\ n.stamp < time + TX_MAX_ADVANCE_DELAY

OfPast(n) ==
  /\ Outdated(n, Counter)
  /\ n.stamp < time
  /\ \E x \in Nat : /\ n.count = x % W
                    /\ x < time
                    /\ x + MaxOutage >= time + PERIOD \/ x + REF_AGE >= time

BeaconInPlace(n, last) ==
  /\ n.pre = PreDelay("BEACON")
  /\ n.post = BEACON_RESERVED
  /\ OnTime(n, last) \/ OfPast(n)

PlaceInv(l, near) ==
  \A n \in queue : /\ n.type = "A" => NearDownlink(n, near)
                   /\ n.type = "BEACON" => BeaconInPlace(n, last_gps[l])

\* The slots up to the last one loaded are in the queue, but for those of the
\* next period that were refused, or sent.
ChainInv(l) ==
  \A k \in Nat :
    LET s == last_gps[l] - k * PERIOD IN
    s > time + PERIOD \/ (awaited # 0 /\ s >= awaited)
      => \E n \in Live : n.stamp = s

\* While a slot is awaited it is one of the chain or the next of it, the loader
\* comes back soon enough to load the next one, and that one is not refused.
AwaitInv(l) ==
  /\ time # 0
  /\ awaited # 0 =>
       /\ gps
       /\ last_gps[l] # 0
       /\ \E m \in Nat : awaited = last_gps[l] + PERIOD - m * PERIOD
       /\ pc[l] = "recv" => time <= last_gps[l] + idle[l]
       /\ pc[l] = "load" => time <= last_gps[l] + RECV_LAG /\ retry[l] = 0
       /\ Live # Beacons => time <= last_gps[l]

\* The slots skipped in this loop are near.
RetryInv(l, near) ==
  pc[l] = "load" =>
    /\ last_gps[l] # 0 /\ retry[l] # 0
         => last_gps[l] + retry[l] * PERIOD <= time + near
    /\ last_gps[l] = 0
         => \A ref \in Nat : ref <= time /\ ref + REF_AGE >= time
              => NextSlot(l, ref) <= time + 2 * PERIOD

PeriodInv(l, near) ==
  /\ TruthInv
  /\ LoadInv
  /\ PlaceInv(l, near)
  /\ ChainInv(l)
  /\ AwaitInv(l)
  /\ RetryInv(l, near)

LEMMA PeriodFacts ==
  ASSUME NEW near \in Nat, PeriodDelays(near)
  PROVE  /\ {W, PERIOD, JIT_NUM_BEACON_IN_QUEUE, TX_JIT_DELAY} \subseteq Nat \ {0}
         /\ {REF_AGE, RECV_LAG, MaxOutage, MaxTime, TX_START_DELAY, TX_MARGIN_DELAY,
             TX_MAX_ADVANCE_DELAY, BEACON_RESERVED, Guard, Span,
             PreDelay("A"), PreDelay("BEACON")} \subseteq Nat
         /\ PreDelay("A") <= PreDelay("BEACON")
         /\ Guard = PreDelay("BEACON") + TX_MARGIN_DELAY
         /\ TX_START_DELAY + TX_MARGIN_DELAY + TX_JIT_DELAY <= near
         /\ TX_JIT_DELAY < PERIOD
         /\ PERIOD <= Span
<1>1. /\ {W, PERIOD, JIT_NUM_BEACON_IN_QUEUE, TX_JIT_DELAY} \subseteq Nat \ {0}
      /\ {REF_AGE, RECV_LAG, MaxOutage, MaxTime, TX_START_DELAY, TX_MARGIN_DELAY,
          TX_MAX_ADVANCE_DELAY, BEACON_RESERVED, BEACON_GUARD} \subseteq Nat
  BY BeaconAssumption, JitAssumption DEF PeriodDelays, BeaconDelays
<1>2. /\ PreDelay("BEACON") = TX_START_DELAY + BEACON_GUARD + TX_JIT_DELAY
      /\ PreDelay("A") = TX_START_DELAY + TX_JIT_DELAY
  BY DEF PreDelay
<1>3. Span \in Nat /\ PERIOD <= Span
  <2>1. \A a, b \in Nat \ {0} : a * b \in Nat /\ b <= a * b
    OBVIOUS
  <2> QED
    BY <1>1, <2>1 DEF Span
<1> QED
  BY <1>1, <1>2, <1>3 DEF Guard, PeriodDelays

\* A beacon on time is not outdated.
LEMMA OnTimeIsLive ==
  ASSUME NEW near \in Nat, PeriodDelays(near), time \in Nat,
         NEW n, n.stamp \in Nat, NEW last, OnTime(n, last)
  PROVE  Sub(n.count, Counter) = n.stamp - time /\ ~Outdated(n, Counter)
<1>1. /\ W \in Nat /\ TX_MAX_ADVANCE_DELAY \in Nat /\ TX_MAX_ADVANCE_DELAY <= W
  BY PeriodFacts DEF PeriodDelays
<1>2. time <= n.stamp /\ n.stamp < time + W
  BY <1>1 DEF OnTime
<1>3. Sub(n.stamp % W, time % W) = n.stamp - time
  BY <1>2, SubInstants
<1>4. Sub(n.count, Counter) = n.stamp - time
  BY <1>3 DEF OnTime, Counter
<1> QED
  BY <1>1, <1>4 DEF OnTime, Outdated

\* Live beacons are those on time.
LEMMA LiveBeacons ==
  ASSUME NEW near \in Nat, PeriodDelays(near), TypeOK, NEW l, PlaceInv(l, near)
  PROVE  /\ Live \subseteq Beacons /\ Beacons \subseteq queue
         /\ \A n \in Beacons : n.stamp \in Nat
         /\ \A n \in Live : OnTime(n, last_gps[l])
         /\ \A n \in Beacons \ Live : OfPast(n)
         /\ \A n \in queue : n.type = "BEACON" => n \in Beacons
<1>1. Live \subseteq Beacons /\ Beacons \subseteq queue /\ time \in Nat
  BY BeaconAssumption DEF Live, Beacons, TypeOK
<1>2. \A n \in Beacons : n.stamp \in Nat /\ (OnTime(n, last_gps[l]) \/ OfPast(n))
  <2>1. \A n \in queue : n.stamp \in Nat
    BY BeaconAssumption, JitAssumption DEF TypeOK, QNode, GpsTime
  <2>2. \A n \in Beacons : BeaconInPlace(n, last_gps[l])
    BY DEF PlaceInv, Beacons
  <2> QED
    BY <1>1, <2>1, <2>2 DEF BeaconInPlace
<1>3. \A n \in Live : OnTime(n, last_gps[l])
  BY <1>1, <1>2 DEF Live, OfPast
<1>4. \A n \in Beacons \ Live : OfPast(n)
  BY <1>1, <1>2, OnTimeIsLive DEF Live
<1> QED
  BY <1>1, <1>2, <1>3, <1>4 DEF Beacons

LEMMA MultipleGap ==
  ASSUME NEW p \in Nat \ {0}, NEW a \in Int, NEW b \in Int
  PROVE  /\ a * p \in Int /\ (a + 1) * p = a * p + p /\ (a - 1) * p = a * p - p
         /\ a < b => a * p + p <= b * p
         /\ a * p < b * p => a < b
         /\ a * p = b * p => a = b
<1>1. ASSUME NEW x \in Int, NEW y \in Int, x < y PROVE x * p + p <= y * p
  <2> DEFINE c == y - x - 1
  <2>1. c \in Nat /\ y = x + 1 + c
    BY <1>1
  <2> HIDE DEF c
  <2>2. y * p = x * p + p + c * p
    BY <2>1
  <2>3. c * p \in Nat /\ x * p \in Int
    BY <2>1
  <2> QED
    BY <2>2, <2>3
<1>2. /\ a * p \in Int /\ b * p \in Int
      /\ (a + 1) * p = a * p + p /\ (a - 1) * p = a * p - p
  OBVIOUS
<1>3. a < b => a * p + p <= b * p
  BY <1>1
<1>4. b < a => b * p + p <= a * p
  BY <1>1
<1> QED
  BY <1>2, <1>3, <1>4

\* A promised slot more than a period ahead for each live beacon would be one
\* beacon too many.
LEMMA CountLive ==
  ASSUME NEW near \in Nat, PeriodDelays(near), NEW l \in Loaders,
         PeriodInv(l, near)
  PROVE  /\ IsFiniteSet(Live) /\ Cardinality(Live) \in Nat
         /\ last_gps[l] <= time + PERIOD + Cardinality(Live) * PERIOD
<1> DEFINE q == Cardinality(Live)
           last == last_gps[l]
<1>1. /\ IsFiniteSet(Live) /\ q \in Nat
  <2>1. IsFiniteSet(queue) /\ Live \subseteq queue
    BY DEF PeriodInv, LoadInv, Live, Beacons
  <2> QED
    BY <2>1, FS_Subset, FS_CardinalityType
<1>2. PERIOD \in Nat \ {0} /\ last \in Nat /\ time \in Nat
  BY BeaconAssumption, JitAssumption DEF PeriodInv, TruthInv, TypeInv, TypeOK, GpsTime
<1> HIDE DEF q, last
<1>3. SUFFICES ASSUME last > time + PERIOD + q * PERIOD PROVE FALSE
  <2>1. q * PERIOD \in Nat
    BY <1>1, <1>2
  <2> QED
    BY <1>1, <1>2, <1>3, <2>1 DEF q, last
<1>4. \A k \in 0 .. q : \E n \in Live : n.stamp = last - k * PERIOD
  <2> SUFFICES ASSUME NEW k \in 0 .. q PROVE \E n \in Live : n.stamp = last - k * PERIOD
    OBVIOUS
  <2>1. k \in Nat /\ k \in Int /\ q \in Int /\ k <= q
    BY <1>1
  <2>2. k * PERIOD <= q * PERIOD /\ k * PERIOD \in Int /\ q * PERIOD \in Int
    BY <1>2, <2>1, MultipleGap
  <2>3. last - k * PERIOD > time + PERIOD
    BY <1>2, <1>3, <2>2
  <2> QED
    BY <2>1, <2>3 DEF PeriodInv, ChainInv, last
<1> DEFINE f == [k \in 0 .. q |-> CHOOSE n \in Live : n.stamp = last - k * PERIOD]
<1>5. /\ f \in [0 .. q -> Live]
      /\ \A k \in 0 .. q : f[k].stamp = last - k * PERIOD
  BY <1>4
<1> HIDE DEF f
<1>6. IsFiniteSet(0 .. q) /\ Cardinality(0 .. q) = q + 1
  BY <1>1, FS_Interval
<1>7. PICK x, y \in 0 .. q : x # y /\ f[x] = f[y]
  <2>1. Cardinality(Live) < Cardinality(0 .. q)
    BY <1>1, <1>6 DEF q
  <2> QED
    BY <1>1, <1>5, <1>6, <2>1, FS_PigeonHole
<1>8. x \in Int /\ y \in Int
  OBVIOUS
<1>9. x * PERIOD \in Int /\ y * PERIOD \in Int
  BY <1>2, <1>8
<1>10. x * PERIOD = y * PERIOD
  <2>1. last - x * PERIOD = last - y * PERIOD
    BY <1>5, <1>7
  <2> QED
    BY <1>2, <1>9, <2>1
<1> QED
  BY <1>2, <1>7, <1>8, <1>10, MultipleGap

\* A slot computed now is in the future of the last slot, and at most a full set
\* of beacons and a period ahead: less by one when a beacon is of the past.
LEMMA SlotBounds ==
  ASSUME NEW near \in Nat, PeriodDelays(near), NEW l \in Loaders,
         PeriodInv(l, near), pc[l] = "load",
         NEW ref \in Nat, ref <= time, ref + REF_AGE >= time
  PROVE  /\ NextSlot(l, ref) \in Nat \ {0}
         /\ NextSlot(l, ref) <= time + Span + PERIOD
         /\ Live # Beacons => NextSlot(l, ref) <= time + Span
<1> DEFINE slot == NextSlot(l, ref)
           last == last_gps[l]
           c == Cardinality(Live)
           b == beacon_loop[l]
           skip == retry[l] * PERIOD
           first == PERIOD - (ref % PERIOD)
<1>1. /\ time \in Nat /\ last \in Nat /\ retry[l] \in Nat /\ b \in Nat
  BY BeaconAssumption, JitAssumption DEF PeriodInv, TruthInv, TypeInv, TypeOK, GpsTime
<1>2. /\ PERIOD \in Nat \ {0} /\ Span \in Nat /\ PERIOD <= Span
      /\ JIT_NUM_BEACON_IN_QUEUE \in Nat \ {0} /\ near < PERIOD
      /\ near + PERIOD < PERIOD + PERIOD
  BY PeriodFacts, BeaconAssumption DEF PeriodDelays
<1>3. /\ c \in Nat /\ last <= time + PERIOD + c * PERIOD /\ c * PERIOD \in Nat
      /\ IsFiniteSet(Live)
  BY <1>2, CountLive
<1>4. /\ num_beacon \in Nat
      /\ c <= num_beacon
      /\ Live # Beacons => c + 1 <= num_beacon
      /\ b > 0 /\ num_beacon + b <= JIT_NUM_BEACON_IN_QUEUE
  <2>1. IsFiniteSet(Beacons) /\ Live \subseteq Beacons
    <3>1. IsFiniteSet(queue) /\ Beacons \subseteq queue
      BY DEF PeriodInv, LoadInv, Beacons
    <3> QED
      BY <3>1, FS_Subset DEF Live
  <2>2. /\ Cardinality(Beacons) \in Nat /\ c <= Cardinality(Beacons)
        /\ Cardinality(Beacons) = c => Beacons = Live
    BY <2>1, FS_Subset, FS_CardinalityType
  <2>3. b > 0 /\ num_beacon + b <= JIT_NUM_BEACON_IN_QUEUE
    BY DEF PeriodInv, LoadInv
  <2> HIDE DEF c
  <2> QED
    BY <1>3, <2>2, <2>3 DEF num_beacon
<1>5. /\ c * PERIOD + PERIOD <= Span
      /\ Live # Beacons => /\ c * PERIOD + PERIOD + PERIOD <= Span
                           /\ PERIOD + PERIOD <= Span
  <2> HIDE DEF c, b
  <2> DEFINE N == JIT_NUM_BEACON_IN_QUEUE
  <2>1. c \in Int /\ N \in Int /\ c + 1 \in Int /\ c < N
    BY <1>1, <1>2, <1>3, <1>4
  <2>2. c * PERIOD + PERIOD <= N * PERIOD
    BY <1>2, <2>1, MultipleGap
  <2>3. ASSUME Live # Beacons
        PROVE  c * PERIOD + PERIOD + PERIOD <= N * PERIOD
    <3>1. c + 1 < N
      BY <1>1, <1>2, <1>3, <1>4, <2>3
    <3>2. (c + 1) * PERIOD = c * PERIOD + PERIOD
      BY <1>2, <2>1, MultipleGap
    <3>3. (c + 1) * PERIOD + PERIOD <= N * PERIOD
      BY <1>2, <2>1, <3>1, MultipleGap
    <3> QED
      BY <3>2, <3>3
  <2>4. Span = N * PERIOD
    BY DEF Span
  <2> HIDE DEF N
  <2> QED
    BY <1>2, <1>3, <2>2, <2>3, <2>4
<1>6. slot = (IF last = 0 THEN ref + first ELSE last + PERIOD) + skip
  BY DEF NextSlot
<1>7. /\ skip \in Nat /\ (retry[l] = 0 => skip = 0)
      /\ first \in Nat \ {0}
  BY <1>1, <1>2
<1>8. /\ last # 0 /\ retry[l] # 0 => last + skip <= time + near
      /\ last = 0 => slot <= time + 2 * PERIOD
  BY DEF PeriodInv, RetryInv
<1> HIDE DEF slot, last, c, b, skip, first
<1>9. slot \in Nat \ {0}
  BY <1>1, <1>2, <1>6, <1>7
<1>10. CASE last = 0
  BY <1>1, <1>2, <1>5, <1>8, <1>9, <1>10 DEF slot
<1>11. CASE last # 0 /\ retry[l] # 0
  BY <1>1, <1>2, <1>5, <1>6, <1>7, <1>8, <1>9, <1>11 DEF slot
<1>12. CASE last # 0 /\ retry[l] = 0
  <2> DEFINE cp == c * PERIOD
  <2>1. slot = last + PERIOD /\ cp \in Nat /\ last <= time + PERIOD + cp
    BY <1>1, <1>2, <1>3, <1>6, <1>7, <1>12
  <2>2. cp + PERIOD <= Span /\ (Live # Beacons => cp + PERIOD + PERIOD <= Span)
    BY <1>5
  <2> HIDE DEF cp
  <2> QED
    BY <1>1, <1>2, <1>9, <2>1, <2>2 DEF slot
<1> QED
  BY <1>10, <1>11, <1>12

\* A beacon far enough ahead of a node meets it neither way round the counter.
LEMMA ClearAhead ==
  ASSUME NEW near \in Nat, PeriodDelays(near),
         NEW a \in Nat, NEW x \in Nat, NEW pkt, NEW n,
         pkt.type = "BEACON", pkt.count = a % W, n.count = x % W,
         n.pre \in Nat, n.post \in Nat,
         x + Guard + n.post < a,
         a + n.pre + BEACON_RESERVED + TX_MARGIN_DELAY < x + W
  PROVE  ~CollidesWith(pkt, n)
<1>1. /\ W \in Nat \ {0} /\ Guard \in Nat /\ TX_MARGIN_DELAY \in Nat /\ BEACON_RESERVED \in Nat
      /\ PreDelay("BEACON") \in Nat /\ Guard = PreDelay("BEACON") + TX_MARGIN_DELAY
  BY PeriodFacts
<1>2. x < a /\ a < x + W
  BY <1>1
<1>3. Sub(a % W, x % W) = a - x /\ Sub(x % W, a % W) = x - a + W
  BY <1>1, <1>2, SubInstants
<1>4. TargetPreDelay(pkt, n) = n.pre /\ PostDelay(pkt) = BEACON_RESERVED
  BY DEF TargetPreDelay, PostDelay
<1>5. /\ a - x > PreDelay("BEACON") + n.post + TX_MARGIN_DELAY
      /\ x - a + W > n.pre + BEACON_RESERVED + TX_MARGIN_DELAY
  BY <1>1
<1> HIDE DEF Guard, PreDelay
<1> QED
  BY <1>1, <1>3, <1>4, <1>5 DEF CollidesWith, CollisionTest

\* A slot beyond near is not refused.
LEMMA RefusedIsNear ==
  ASSUME NEW near \in Nat, PeriodDelays(near), NEW l \in Loaders,
         PeriodInv(l, near), RoomForBeacons, pc[l] = "load",
         NEW ref \in Nat, ref <= time, ref + REF_AGE >= time,
         NEW count \in CountsOf(NextSlot(l, ref), ref),
         ~Accepts([type |-> "BEACON", count |-> count, toa |-> 0])
  PROVE  NextSlot(l, ref) <= time + near
<1> DEFINE slot == NextSlot(l, ref)
           pkt == [type |-> "BEACON", count |-> count, toa |-> 0]
<1>1. /\ time \in Nat /\ slot \in Nat
      /\ slot <= time + Span + PERIOD
      /\ Live # Beacons => slot <= time + Span
  BY SlotBounds, BeaconAssumption DEF PeriodInv, TruthInv, TypeInv, TypeOK
<1>2. /\ {W, PERIOD, JIT_NUM_BEACON_IN_QUEUE, TX_JIT_DELAY} \subseteq Nat \ {0}
      /\ {REF_AGE, MaxOutage, TX_START_DELAY, TX_MARGIN_DELAY,
             TX_MAX_ADVANCE_DELAY, BEACON_RESERVED, Guard, Span,
             PreDelay("A"), PreDelay("BEACON")} \subseteq Nat
      /\ PreDelay("A") <= PreDelay("BEACON")
      /\ Guard = PreDelay("BEACON") + TX_MARGIN_DELAY
      /\ TX_START_DELAY + TX_MARGIN_DELAY + TX_JIT_DELAY <= near
  BY PeriodFacts
<1>3. /\ BEACON_RESERVED + Guard <= near
      /\ REF_AGE + near < PERIOD
      /\ Span + PERIOD < TX_MAX_ADVANCE_DELAY
      /\ TX_MAX_ADVANCE_DELAY + near <= W
      /\ MaxOutage + Span + near < W + PERIOD
  BY DEF PeriodDelays
<1> HIDE DEF slot
<1>4. SUFFICES ASSUME slot > time + near PROVE FALSE
  BY <1>1 DEF slot
<1>5. count = slot % W
  BY <1>1, <1>4 DEF CountsOf, slot
<1>6. Cardinality(queue) # JIT_QUEUE_MAX
  <2>1. IsFiniteSet(queue) /\ Beacons \subseteq queue
    BY DEF PeriodInv, LoadInv, Beacons
  <2>2. /\ IsFiniteSet(queue \ Beacons)
        /\ Cardinality(queue \ Beacons) = Cardinality(queue) - Cardinality(queue \cap Beacons)
    BY <2>1, FS_Difference
  <2>3. queue \cap Beacons = Beacons
    BY <2>1
  <2>4. Cardinality(Beacons) < JIT_NUM_BEACON_IN_QUEUE
    <3>1. beacon_loop[l] \in Nat /\ beacon_loop[l] > 0
          /\ num_beacon + beacon_loop[l] <= JIT_NUM_BEACON_IN_QUEUE
      BY DEF PeriodInv, LoadInv
    <3>2. Cardinality(Beacons) \in Nat
      BY <2>1, FS_Subset, FS_CardinalityType
    <3> QED
      BY <1>2, <3>1, <3>2 DEF num_beacon
  <2>5. /\ Cardinality(queue) \in Nat /\ Cardinality(Beacons) \in Nat
        /\ Cardinality(queue \ Beacons) \in Nat
    BY <2>1, <2>2, FS_Subset, FS_CardinalityType
  <2>6. Cardinality(queue \ Beacons) + JIT_NUM_BEACON_IN_QUEUE <= JIT_QUEUE_MAX
    BY DEF RoomForBeacons
  <2>7. JIT_QUEUE_MAX \in Nat
    BY JitAssumption
  <2> DEFINE all == Cardinality(queue)
             beacons == Cardinality(Beacons)
             others == Cardinality(queue \ Beacons)
  <2>8. others = all - beacons
    BY <2>2, <2>3
  <2>9. /\ {all, beacons, others, JIT_QUEUE_MAX, JIT_NUM_BEACON_IN_QUEUE} \subseteq Nat
        /\ others + JIT_NUM_BEACON_IN_QUEUE <= JIT_QUEUE_MAX
        /\ beacons < JIT_NUM_BEACON_IN_QUEUE
    BY <1>2, <2>4, <2>5, <2>6, <2>7
  <2> HIDE DEF all, beacons, others
  <2>10. all # JIT_QUEUE_MAX
    BY <2>8, <2>9
  <2> QED
    BY <2>10 DEF all
<1>7. ~TooLate(Counter, pkt) /\ ~TooEarly(Counter, pkt)
  <2>1. Sub(slot % W, time % W) = slot - time
    <3>1. time <= slot /\ slot < time + W
      BY <1>1, <1>2, <1>3, <1>4
    <3> QED
      BY <1>1, <3>1, SubInstants
  <2>2. slot - time > TX_START_DELAY + TX_MARGIN_DELAY + TX_JIT_DELAY
    BY <1>1, <1>2, <1>4
  <2>3. Sub(pkt.count, Counter) = slot - time
    BY <1>5, <2>1 DEF Counter
  <2>4. ~TooLate(Counter, pkt)
    BY <1>1, <1>2, <2>2, <2>3 DEF TooLate
  <2> QED
    BY <2>4 DEF TooEarly
<1>8. PICK n \in queue : CollidesWith(pkt, n)
  BY <1>6, <1>7 DEF Accepts
<1>9. /\ n.pre \in Nat /\ n.post \in Nat /\ n.stamp \in Nat /\ n.type \in {"A", "BEACON"}
  BY BeaconAssumption, JitAssumption
     DEF PeriodInv, TruthInv, TypeInv, TypeOK, QNode, GpsTime
<1>10. PlaceInv(l, near)
  BY DEF PeriodInv
<1>11. ASSUME NEW x \in Nat, n.count = x % W, x + Guard + n.post < slot,
              slot + n.pre + BEACON_RESERVED + TX_MARGIN_DELAY < x + W
       PROVE  FALSE
  BY <1>1, <1>5, <1>8, <1>9, <1>11, ClearAhead
<1>12. CASE n.type = "A"
  <2>1. PICK e \in Nat : n.count = (time + e) % W /\ e + n.post + Guard <= near
    BY <1>10, <1>12 DEF PlaceInv, NearDownlink
  <2>2. n.pre = PreDelay("A")
    BY <1>10, <1>12 DEF PlaceInv, NearDownlink
  <2> DEFINE x == time + e
  <2>3. x \in Nat /\ n.count = x % W
    BY <1>1, <2>1
  <2>4. x + Guard + n.post < slot
    BY <1>1, <1>2, <1>4, <1>9, <2>1
  <2>5. slot + n.pre + BEACON_RESERVED + TX_MARGIN_DELAY < x + W
    BY <1>1, <1>2, <1>3, <1>9, <2>1, <2>2
  <2> HIDE DEF x
  <2> QED
    BY <1>11, <2>3, <2>4, <2>5
<1>13. CASE n.type = "BEACON"
  <2>1. /\ n.pre = PreDelay("BEACON") /\ n.post = BEACON_RESERVED
        /\ OnTime(n, last_gps[l]) \/ OfPast(n)
        /\ n \in Beacons
    BY <1>10, <1>13 DEF PlaceInv, BeaconInPlace, Beacons
  <2>2. CASE OnTime(n, last_gps[l])
    <3>1. last_gps[l] # 0
      <4>1. time # 0
        BY DEF PeriodInv, AwaitInv
      <4> QED
        BY <1>1, <1>9, <2>2, <4>1 DEF OnTime
    <3>2. last_gps[l] \in Nat /\ retry[l] * PERIOD \in Nat
      <4>1. retry[l] \in Nat /\ last_gps[l] \in Nat
        BY BeaconAssumption, JitAssumption DEF PeriodInv, TruthInv, TypeInv, TypeOK, GpsTime
      <4> QED
        BY <1>2, <4>1
    <3>3. slot >= last_gps[l] + PERIOD
      <4>1. slot = last_gps[l] + PERIOD + retry[l] * PERIOD
        BY <3>1 DEF NextSlot, slot
      <4> QED
        BY <1>2, <3>2, <4>1
    <3>4. /\ n.stamp + Guard + n.post < slot
          /\ slot + n.pre + BEACON_RESERVED + TX_MARGIN_DELAY < n.stamp + W
      BY <1>1, <1>2, <1>3, <1>9, <2>1, <2>2, <3>2, <3>3 DEF OnTime
    <3>5. n.count = n.stamp % W
      BY <2>2 DEF OnTime
    <3> QED
      BY <1>9, <1>11, <3>4, <3>5
  <2>3. CASE OfPast(n)
    <3>1. PICK x \in Nat : /\ n.count = x % W
                           /\ x < time
                           /\ x + MaxOutage >= time + PERIOD \/ x + REF_AGE >= time
      BY <2>3 DEF OfPast
    <3>2. Live # Beacons
      BY <2>1, <2>3 DEF OfPast, Live
    <3>3. slot <= time + Span
      BY <1>1, <3>2
    <3>4. x + Guard + n.post < slot
      BY <1>1, <1>2, <1>3, <1>4, <2>1, <3>1
    <3>5. slot + n.pre + BEACON_RESERVED + TX_MARGIN_DELAY < x + W
      BY <1>1, <1>2, <1>3, <2>1, <3>1, <3>3
    <3> QED
      BY <1>11, <3>1, <3>4, <3>5
  <2> QED
    BY <2>1, <2>2, <2>3
<1> QED
  BY <1>9, <1>12, <1>13

\* A beacon is accepted for a slot of the future, or one of the past.
LEMMA AcceptedInPlace ==
  ASSUME NEW near \in Nat, PeriodDelays(near), NEW l \in Loaders,
         PeriodInv(l, near), pc[l] = "load",
         NEW ref \in Nat, ref <= time, ref + REF_AGE >= time,
         NEW count \in CountsOf(NextSlot(l, ref), ref),
         Accepts([type |-> "BEACON", count |-> count, toa |-> 0])
  PROVE  LET slot == NextSlot(l, ref)
             node == Queued([type |-> "BEACON", count |-> count, toa |-> 0], slot) IN
         /\ BeaconInPlace(node, slot)
         /\ slot > time => OnTime(node, slot)
<1> DEFINE slot == NextSlot(l, ref)
           pkt == [type |-> "BEACON", count |-> count, toa |-> 0]
           node == Queued(pkt, slot)
<1>1. /\ time \in Nat /\ slot \in Nat
      /\ slot <= time + Span + PERIOD
      /\ TypeOK /\ LastInv /\ BeaconDelays
  BY SlotBounds, BeaconAssumption DEF PeriodInv, TruthInv, TypeInv, TypeOK, PeriodDelays
<1>2. /\ {W, PERIOD, TX_JIT_DELAY} \subseteq Nat \ {0}
      /\ {REF_AGE, MaxOutage, TX_START_DELAY, TX_MARGIN_DELAY,
             TX_MAX_ADVANCE_DELAY, Span} \subseteq Nat
      /\ TX_MAX_ADVANCE_DELAY <= W
      /\ Span + PERIOD < TX_MAX_ADVANCE_DELAY
  BY PeriodFacts DEF PeriodDelays
<1>3. /\ node.count = count /\ node.stamp = slot
      /\ node.pre = PreDelay("BEACON") /\ node.post = BEACON_RESERVED
  BY DEF Queued, PostDelay
<1>4. ~TooLate(Counter, pkt)
  BY DEF Accepts
<1>5. count = slot % W \/ (slot < ref /\ count = ref % W)
  BY DEF CountsOf
<1>6. Sub(count, Counter) > 0
  <2>1. Sub(count, Counter) \in Nat
    <3>1. count \in Nat
      BY <1>1, <1>2, <1>5
    <3>2. Counter \in Nat
      BY <1>1, <1>2 DEF Counter
    <3> QED
      BY <1>2, <3>1, <3>2 DEF Sub
  <2>2. ~(Sub(count, Counter) <= TX_START_DELAY + TX_MARGIN_DELAY + TX_JIT_DELAY)
    BY <1>4 DEF TooLate
  <2> QED
    BY <1>2, <2>1, <2>2
<1>7. \A x \in Nat : count = x % W => x # time
  <2>1. Sub(time % W, time % W) = 0
    BY <1>1, <1>2, SubInstants
  <2> QED
    BY <1>6, <2>1 DEF Counter
<1> HIDE DEF slot, node
<1>8. CASE slot > time
  <2>1. count = slot % W
    BY <1>1, <1>5, <1>8
  <2>2. OnTime(node, slot)
    BY <1>1, <1>2, <1>3, <1>8, <2>1 DEF OnTime
  <2> QED
    BY <1>3, <2>2 DEF BeaconInPlace, node, slot
<1>9. CASE slot <= time
  <2>1. PICK x \in Nat : /\ count = x % W /\ x < time /\ slot <= x
                         /\ x = slot \/ x = ref
    BY <1>1, <1>5, <1>7, <1>9
  <2>2. slot < time
    BY <1>1, <2>1
  <2>3. x + MaxOutage >= time + PERIOD \/ x + REF_AGE >= time
    <3>1. CASE x = ref
      BY <3>1
    <3>2. CASE x = slot
      <4>1. last_gps[l] \in Nat /\ retry[l] * PERIOD \in Nat /\ PERIOD - (ref % PERIOD) \in Nat
        <5>1. retry[l] \in Nat /\ last_gps[l] \in Nat
          BY <1>1, BeaconAssumption, JitAssumption DEF TypeOK, GpsTime
        <5> QED
          BY <1>2, <5>1
      <4>2. slot = (IF last_gps[l] = 0 THEN ref + (PERIOD - (ref % PERIOD))
                                       ELSE last_gps[l] + PERIOD) + retry[l] * PERIOD
        BY DEF slot, NextSlot
      <4>3. last_gps[l] # 0 => time <= last_gps[l] + MaxOutage
        BY <1>1 DEF LastInv
      <4> QED
        BY <1>1, <1>2, <3>2, <4>1, <4>2, <4>3
    <3> QED
      BY <2>1, <3>1, <3>2
  <2>4. Sub(count, Counter) >= TX_MAX_ADVANCE_DELAY
    <3>1. Sub(x % W, time % W) = x - time + W
      <4>1. time <= x + W
        BY <1>1, <1>2, <2>1, <2>3 DEF BeaconDelays
      <4> QED
        BY <1>1, <2>1, <4>1, SubInstants
    <3>2. x - time + W >= TX_MAX_ADVANCE_DELAY
      BY <1>1, <1>2, <2>1, <2>3 DEF BeaconDelays
    <3> QED
      BY <2>1, <3>1, <3>2 DEF Counter
  <2>5. OfPast(node)
    BY <1>3, <2>1, <2>2, <2>3, <2>4 DEF OfPast, Outdated
  <2> QED
    BY <1>1, <1>3, <1>9, <2>5 DEF BeaconInPlace, node, slot
<1> QED
  BY <1>1, <1>8, <1>9

LEMMA SubSame ==
  ASSUME NEW t \in Nat
  PROVE  Sub(t % W, t % W) = 0
<1>1. W \in Nat \ {0}
  BY JitAssumption
<1>2. t <= t /\ t < t + W /\ t - t = 0
  BY <1>1
<1> QED
  BY <1>2, SubInstants

\* The first slot after the reference: references within less than a period
\* have the same first slot, or the later one is past the earlier's.
LEMMA FirstSlot ==
  ASSUME NEW r \in Nat, NEW s \in Nat
  PROVE  LET first(t) == t + (PERIOD - (t % PERIOD)) IN
         /\ first(r) \in Nat /\ r < first(r) /\ first(r) <= r + PERIOD
         /\ s < first(r) => first(s) <= first(r)
<1> DEFINE qr == r \div PERIOD
           qs == s \div PERIOD
           mr == r % PERIOD
           ms == s % PERIOD
<1>1. PERIOD \in Nat \ {0} /\ r \in Int /\ s \in Int
  BY BeaconAssumption
<1>2. /\ r = PERIOD * qr + mr /\ mr \in 0 .. (PERIOD - 1) /\ qr \in Int
      /\ s = PERIOD * qs + ms /\ ms \in 0 .. (PERIOD - 1) /\ qs \in Int
  BY <1>1, DivideBy
<1>3. /\ r + (PERIOD - mr) \in Nat /\ r < r + (PERIOD - mr)
      /\ r + (PERIOD - mr) <= r + PERIOD
  BY <1>1, <1>2
<1>4. ASSUME s < r + (PERIOD - mr) PROVE s + (PERIOD - ms) <= r + (PERIOD - mr)
  <2> HIDE DEF qr, qs, mr, ms
  <2>1. /\ PERIOD * qr = qr * PERIOD /\ PERIOD * qs = qs * PERIOD
        /\ qr * PERIOD \in Int /\ qs * PERIOD \in Int
    BY <1>1, <1>2
  <2>2. qs * PERIOD < qr * PERIOD + PERIOD
    BY <1>1, <1>2, <1>4, <2>1
  <2>3. qr < qs => qr * PERIOD + PERIOD <= qs * PERIOD
    BY <1>1, <1>2, MultipleGap
  <2>4. ~(qr < qs)
    BY <1>1, <2>1, <2>2, <2>3
  <2>5. qs = qr \/ qs < qr
    BY <1>2, <2>4
  <2>6. qs < qr => qs * PERIOD + PERIOD <= qr * PERIOD
    BY <1>1, <1>2, MultipleGap
  <2> QED
    BY <1>1, <1>2, <2>1, <2>5, <2>6
<1> QED
  BY <1>3, <1>4

\* No slot of the queue is a turn of the counter ahead.
LEMMA PlaceAhead ==
  ASSUME NEW near \in Nat, PeriodDelays(near), NEW l
  PROVE  TypeOK /\ PlaceInv(l, near) => SlotsAhead
<1> SUFFICES ASSUME TypeOK, PlaceInv(l, near) PROVE SlotsAhead
  OBVIOUS
<1>1. /\ time \in Nat /\ TX_MAX_ADVANCE_DELAY \in Nat /\ W \in Nat \ {0}
      /\ TX_MAX_ADVANCE_DELAY <= W
  BY BeaconAssumption, PeriodFacts DEF TypeOK, PeriodDelays
<1>2. \A n \in Beacons : n.stamp \in Nat /\ (OnTime(n, last_gps[l]) \/ OfPast(n))
  BY LiveBeacons
<1> QED
  BY <1>1, <1>2 DEF SlotsAhead, OnTime, OfPast

\* Whatever was awaited is on time in the queue, or the loader comes back before.
LEMMA InvIsPeriod ==
  ASSUME NEW near \in Nat, PeriodDelays(near), NEW l \in Loaders,
         PeriodInv(l, near)
  PROVE  EveryPeriod /\ SlotsAhead
<1>1. /\ TypeOK /\ PlaceInv(l, near) /\ time \in Nat /\ last_gps[l] \in Nat
      /\ awaited \in Nat /\ idle[l] \in 0 .. RECV_LAG /\ pc[l] \in {"recv", "load"}
  BY BeaconAssumption, JitAssumption DEF PeriodInv, TruthInv, TypeInv, TypeOK, GpsTime
<1>2. /\ PERIOD \in Nat \ {0} /\ RECV_LAG \in Nat /\ RECV_LAG < PERIOD
      /\ TX_MAX_ADVANCE_DELAY \in Nat /\ W \in Nat /\ TX_MAX_ADVANCE_DELAY <= W
  BY PeriodFacts DEF PeriodDelays
<1>3. /\ \A n \in Beacons : n.stamp \in Nat /\ (n \in Live \/ OfPast(n))
      /\ \A n \in Live : OnTime(n, last_gps[l])
  BY <1>1, LiveBeacons
<1>4. SlotsAhead
  BY <1>1, PlaceAhead
<1>5. ASSUME awaited # 0 PROVE time <= awaited
  <2>1. PICK m \in Nat : awaited = last_gps[l] + PERIOD - m * PERIOD
    BY <1>5 DEF PeriodInv, AwaitInv
  <2>2. time <= last_gps[l] + RECV_LAG
    BY <1>1, <1>2, <1>5 DEF PeriodInv, AwaitInv
  <2>3. CASE m = 0
    BY <1>1, <1>2, <2>1, <2>2, <2>3
  <2>4. CASE m # 0
    <3> DEFINE k == m - 1
    <3>1. k \in Nat /\ k \in Int /\ m \in Int
      BY <2>4
    <3>2. awaited = last_gps[l] - k * PERIOD
      <4>1. k * PERIOD = m * PERIOD - PERIOD /\ m * PERIOD \in Int
        BY <1>2, <3>1, MultipleGap
      <4> HIDE DEF k
      <4> QED
        BY <1>1, <1>2, <2>1, <4>1
    <3> HIDE DEF k
    <3>3. PICK n \in Live : n.stamp = awaited
      BY <1>1, <1>5, <3>1, <3>2 DEF PeriodInv, ChainInv
    <3> QED
      BY <1>3, <3>3 DEF OnTime
  <2> QED
    BY <2>3, <2>4
<1> QED
  BY <1>4, <1>5 DEF EveryPeriod

\* What the steps below keep, beside types, the counts and the truth.
Sched(l, near) ==
  PlaceInv(l, near) /\ ChainInv(l) /\ AwaitInv(l) /\ RetryInv(l, near)

LEMMA InitSched ==
  ASSUME NEW near \in Nat, PeriodDelays(near), NEW l \in Loaders, Init
  PROVE  Sched(l, near)
<1>1. /\ queue = {} /\ last_gps[l] = 0 /\ awaited = 0 /\ time = 1 /\ pc[l] = "recv"
  BY DEF Init
<1>2. PERIOD \in Nat
  BY BeaconAssumption
<1>3. \A k \in Nat : k * PERIOD \in Nat /\ ~(0 - k * PERIOD > 1 + PERIOD)
  BY <1>2
<1> QED
  BY <1>1, <1>3 DEF Sched, PlaceInv, ChainInv, AwaitInv, RetryInv

LEMMA TickSched ==
  ASSUME NEW near \in Nat, PeriodDelays(near), NEW l \in Loaders,
         PeriodInv(l, near), Tick
  PROVE  Sched(l, near)'
<1>1. /\ TypeOK /\ PlaceInv(l, near) /\ time \in Nat /\ last_gps[l] \in Nat
      /\ awaited \in Nat /\ idle \in [Loaders -> 0 .. RECV_LAG]
  BY BeaconAssumption, JitAssumption DEF PeriodInv, TruthInv, TypeInv, TypeOK, GpsTime
<1>2. /\ PERIOD \in Nat \ {0} /\ RECV_LAG \in Nat /\ TX_JIT_DELAY \in Nat \ {0}
      /\ TX_MAX_ADVANCE_DELAY \in Nat /\ W \in Nat \ {0} /\ TX_MAX_ADVANCE_DELAY <= W
  BY PeriodFacts DEF PeriodDelays
<1>3. /\ time' = time + 1 /\ idle'[l] = idle[l] + 1 /\ pc[l] = "recv"
      /\ UNCHANGED <<gps, queue, pc, beacon_loop, retry, last_gps, sent, awaited>>
      /\ \A n \in queue : ~Due(n) /\ ~Outdated(n, Counter)
  BY <1>1 DEF Tick
<1>4. Beacons' = Beacons /\ Live = Beacons
  BY <1>3 DEF Beacons, Live
<1>5. /\ \A n \in Live : OnTime(n, last_gps[l]) /\ n.stamp \in Nat
      /\ \A n \in queue : n.type = "BEACON" => n \in Live
  BY <1>1, <1>4, LiveBeacons
<1>6. ASSUME NEW n \in Live PROVE OnTime(n, last_gps[l])'
  <2>1. Sub(n.count, Counter) = n.stamp - time
    BY <1>1, <1>5, OnTimeIsLive
  <2>2. n \in queue
    BY DEF Live, Beacons
  <2>3. time < n.stamp
    BY <1>1, <1>2, <1>3, <1>5, <2>1, <2>2 DEF Due
  <2> QED
    BY <1>1, <1>2, <1>3, <1>5, <2>3 DEF OnTime
<1>7. Live' = Live
  <2>1. ASSUME NEW n \in Live PROVE ~Outdated(n, Counter)'
    <3>1. OnTime(n, last_gps[l])' /\ n.stamp \in Nat /\ time' \in Nat
      BY <1>1, <1>3, <1>5, <1>6
    <3> DEFINE u == time'
    <3>2. u <= n.stamp /\ n.stamp < u + W /\ n.stamp < u + TX_MAX_ADVANCE_DELAY
          /\ n.count = n.stamp % W /\ u \in Nat
      BY <1>2, <3>1 DEF OnTime
    <3>3. Sub(n.stamp % W, u % W) = n.stamp - u
      BY <3>1, <3>2, SubInstants
    <3>4. Counter' = u % W
      BY DEF Counter
    <3> HIDE DEF u
    <3>5. ~(Sub(n.count, u % W) >= TX_MAX_ADVANCE_DELAY)
      BY <1>2, <3>1, <3>2, <3>3
    <3> QED
      BY <3>4, <3>5 DEF Outdated
  <2> QED
    BY <1>4, <2>1 DEF Live
<1>8. PlaceInv(l, near)'
  <2>1. ASSUME NEW n \in queue, n.type = "A" PROVE NearDownlink(n, near)'
    <3>1. NearDownlink(n, near) /\ n.post \in Nat
      BY <1>1, <2>1 DEF PlaceInv, TypeOK, QNode
    <3>2. PICK e \in Nat : n.count = (time + e) % W /\ e + n.post + Guard <= near
      BY <3>1 DEF NearDownlink
    <3>3. e # 0
      <4>1. Sub(time % W, time % W) = 0
        BY <1>1, SubSame
      <4>2. ASSUME e = 0 PROVE FALSE
        <5>1. Sub(n.count, Counter) = 0
          BY <1>1, <3>2, <4>1, <4>2 DEF Counter
        <5> QED
          BY <1>2, <1>3, <5>1 DEF Due
      <4> QED
        BY <4>2
    <3> DEFINE d == e - 1
    <3>4. d \in Nat /\ time' + d = time + e
      BY <1>1, <1>3, <3>3
    <3>5. d + n.post + Guard <= near
      <4>1. Guard \in Nat
        BY PeriodFacts
      <4> QED
        BY <3>1, <3>2, <3>4, <4>1
    <3> HIDE DEF d
    <3>6. n.count = (time' + d) % W
      BY <3>2, <3>4
    <3>7. n.pre = PreDelay("A")
      BY <3>1 DEF NearDownlink
    <3> QED
      BY <3>4, <3>5, <3>6, <3>7 DEF NearDownlink
  <2>2. ASSUME NEW n \in queue, n.type = "BEACON" PROVE BeaconInPlace(n, last_gps[l])'
    <3>1. n \in Live /\ BeaconInPlace(n, last_gps[l])
      BY <1>1, <1>5, <2>2 DEF PlaceInv
    <3> QED
      BY <1>6, <3>1 DEF BeaconInPlace
  <2> QED
    BY <1>3, <2>1, <2>2 DEF PlaceInv
<1>9. ChainInv(l)'
  <2> SUFFICES ASSUME NEW k \in Nat,
                      LET s == last_gps[l] - k * PERIOD IN
                      s > time + 1 + PERIOD \/ (awaited # 0 /\ s >= awaited)
               PROVE  \E n \in Live : n.stamp = last_gps[l] - k * PERIOD
    BY <1>3, <1>7 DEF ChainInv
  <2> DEFINE s == last_gps[l] - k * PERIOD
  <2>1. s \in Int
    <3>1. k * PERIOD \in Int
      BY <1>2
    <3> QED
      BY <1>1, <3>1
  <2>2. ChainInv(l)
    BY DEF PeriodInv
  <2>3. s > time + PERIOD \/ (awaited # 0 /\ s >= awaited)
    <3> HIDE DEF s
    <3>1. s > time + 1 + PERIOD \/ (awaited # 0 /\ s >= awaited)
      BY DEF s
    <3> QED
      BY <1>1, <1>2, <2>1, <3>1
  <2> QED
    BY <2>2, <2>3 DEF ChainInv
<1>10. AwaitInv(l)'
  <2>1. AwaitInv(l)
    BY DEF PeriodInv
  <2>2. idle[l] \in Nat
    BY <1>1
  <2>3. time' # 0
    BY <1>1, <1>3
  <2> SUFFICES ASSUME awaited # 0
               PROVE  /\ gps /\ last_gps[l] # 0
                      /\ \E m \in Nat : awaited = last_gps[l] + PERIOD - m * PERIOD
                      /\ time + 1 <= last_gps[l] + idle'[l]
    BY <1>3, <1>4, <1>7, <2>3 DEF AwaitInv
  <2>4. time <= last_gps[l] + idle[l]
    BY <1>3, <2>1 DEF AwaitInv
  <2>5. time + 1 <= last_gps[l] + idle'[l]
    BY <1>1, <1>3, <2>2, <2>4
  <2> QED
    BY <2>1, <2>5 DEF AwaitInv
<1>11. RetryInv(l, near)'
  BY <1>3 DEF RetryInv
<1> QED
  BY <1>8, <1>9, <1>10, <1>11 DEF Sched

\* Steps that touch neither time nor the loader's chain.
LEMMA QuietSched ==
  ASSUME NEW near \in Nat, PeriodDelays(near), NEW l \in Loaders,
         PeriodInv(l, near), UNCHANGED <<time, last_gps>>, Live' = Live,
         awaited' \in {awaited, 0}
  PROVE  ChainInv(l)'
<1>1. ChainInv(l)
  BY DEF PeriodInv
<1> QED
  BY <1>1 DEF ChainInv

LEMMA PlaceKept ==
  ASSUME NEW near \in Nat, NEW l \in Loaders, PlaceInv(l, near), TypeOK,
         UNCHANGED time, last_gps[l] <= last_gps'[l], last_gps'[l] \in Nat
  PROVE  \A n \in queue : /\ n.type = "A" => NearDownlink(n, near)'
                          /\ n.type = "BEACON" => BeaconInPlace(n, last_gps[l])'
<1>1. last_gps[l] \in Nat /\ \A n \in queue : n.stamp \in Nat
  BY BeaconAssumption, JitAssumption DEF TypeOK, GpsTime, QNode
<1>2. Counter' = Counter
  BY DEF Counter
<1> SUFFICES ASSUME NEW n \in queue
             PROVE  /\ n.type = "A" => NearDownlink(n, near)'
                    /\ n.type = "BEACON" => BeaconInPlace(n, last_gps[l])'
  OBVIOUS
<1>3. n.type = "A" => NearDownlink(n, near)'
  BY DEF PlaceInv, NearDownlink
<1>4. ASSUME n.type = "BEACON" PROVE BeaconInPlace(n, last_gps[l])'
  <2>1. BeaconInPlace(n, last_gps[l])
    BY <1>4 DEF PlaceInv
  <2>2. OnTime(n, last_gps[l]) => OnTime(n, last_gps[l])'
    BY <1>1 DEF OnTime
  <2>3. OfPast(n) => OfPast(n)'
    BY <1>2 DEF OfPast, Outdated
  <2> QED
    BY <2>1, <2>2, <2>3 DEF BeaconInPlace
<1> QED
  BY <1>3, <1>4

LEMMA GpsSched ==
  ASSUME NEW near \in Nat, PeriodDelays(near), NEW l \in Loaders,
         PeriodInv(l, near), GpsChange
  PROVE  Sched(l, near)'
<1>1. UNCHANGED <<time, queue, pc, idle, retry, last_gps>> /\ awaited' = 0
  BY DEF GpsChange, lvars
<1>2. Live' = Live
  BY <1>1 DEF Live, Beacons, Outdated, Counter
<1>3. PlaceInv(l, near)'
  BY <1>1 DEF PeriodInv, PlaceInv, NearDownlink, BeaconInPlace, OnTime, OfPast,
              Outdated, Counter
<1>4. ChainInv(l)'
  BY <1>1, <1>2, QuietSched
<1>5. AwaitInv(l)'
  BY <1>1 DEF PeriodInv, AwaitInv
<1>6. RetryInv(l, near)'
  BY <1>1 DEF PeriodInv, RetryInv, NextSlot
<1> QED
  BY <1>3, <1>4, <1>5, <1>6 DEF Sched

LEMMA DownlinkSched ==
  ASSUME NEW near \in Nat, PeriodDelays(near), NEW l \in Loaders,
         PeriodInv(l, near), Downlink
  PROVE  Sched(l, near)'
<1>1. UNCHANGED <<time, gps, pc, idle, retry, last_gps, awaited>>
  BY DEF Downlink, lvars
<1>2. PICK d \in Advances, toa \in ToA :
        queue' = queue \cup {Queued([type |-> "A", count |-> (time + d) % W,
                                     toa |-> toa], 0)}
  BY DEF Downlink
<1> PICK n : n = Queued([type |-> "A", count |-> (time + d) % W, toa |-> toa], 0)
  OBVIOUS
<1>3. /\ n.type = "A" /\ n.count = (time + d) % W /\ n.pre = PreDelay("A")
      /\ n.post = toa /\ queue' = queue \cup {n}
  BY <1>2 DEF Queued, PostDelay
<1>4. Beacons' = Beacons /\ Counter' = Counter
  BY <1>1, <1>2, <1>3 DEF Beacons, Counter
<1>5. Live' = Live
  BY <1>4 DEF Live, Outdated
<1>6. PlaceInv(l, near)'
  <2>1. NearDownlink(n, near)'
    <3>1. d \in Nat /\ d + toa + Guard <= near
      BY BeaconAssumption DEF PeriodDelays
    <3> QED
      BY <1>1, <1>3, <3>1 DEF NearDownlink
  <2>2. /\ PlaceInv(l, near) /\ TypeOK /\ last_gps[l] \in Nat
    BY BeaconAssumption, JitAssumption DEF PeriodInv, TruthInv, TypeInv, TypeOK, GpsTime
  <2>3. last_gps'[l] = last_gps[l] /\ last_gps[l] <= last_gps[l]
    BY <1>1, <2>2
  <2>4. \A m \in queue : /\ m.type = "A" => NearDownlink(m, near)'
                         /\ m.type = "BEACON" => BeaconInPlace(m, last_gps[l])'
    BY <1>1, <2>2, <2>3, PlaceKept
  <2> QED
    BY <1>2, <1>3, <2>1, <2>4 DEF PlaceInv
<1>7. ChainInv(l)'
  BY <1>1, <1>5, QuietSched
<1>8. AwaitInv(l)'
  BY <1>1, <1>4, <1>5 DEF PeriodInv, AwaitInv
<1>9. RetryInv(l, near)'
  BY <1>1 DEF PeriodInv, RetryInv, NextSlot
<1> QED
  BY <1>6, <1>7, <1>8, <1>9 DEF Sched

LEMMA DropSched ==
  ASSUME NEW near \in Nat, PeriodDelays(near), NEW l \in Loaders,
         PeriodInv(l, near), NEW n \in queue, Drop(n)
  PROVE  Sched(l, near)'
<1>1. /\ UNCHANGED <<time, gps, pc, idle, retry, last_gps, awaited>>
      /\ queue' = queue \ {n} /\ Outdated(n, Counter)
  BY DEF Drop, lvars
<1>2. Live' = Live /\ Beacons' \subseteq Beacons /\ Live \subseteq Beacons
  BY <1>1 DEF Live, Beacons, Outdated, Counter
<1>3. PlaceInv(l, near)'
  BY <1>1 DEF PeriodInv, PlaceInv, NearDownlink, BeaconInPlace, OnTime, OfPast,
              Outdated, Counter
<1>4. ChainInv(l)'
  BY <1>1, <1>2, QuietSched
<1>5. AwaitInv(l)'
  <2>1. Live' # Beacons' => Live # Beacons
    BY <1>2 DEF Live
  <2> QED
    BY <1>1, <2>1 DEF PeriodInv, AwaitInv
<1>6. RetryInv(l, near)'
  BY <1>1 DEF PeriodInv, RetryInv, NextSlot
<1> QED
  BY <1>3, <1>4, <1>5, <1>6 DEF Sched

\* What is sent is the beacon awaited, or one before it, or a downlink.
LEMMA SendSched ==
  ASSUME NEW near \in Nat, PeriodDelays(near), NEW l \in Loaders,
         PeriodInv(l, near), NEW n \in queue, Send(n)
  PROVE  Sched(l, near)'
<1>1. /\ UNCHANGED <<time, gps, pc, idle, retry, last_gps>>
      /\ queue' = queue \ {n} /\ ~Outdated(n, Counter) /\ Due(n)
      /\ \/ /\ n.type = "BEACON"
            /\ awaited' = IF n.stamp = awaited THEN awaited + PERIOD ELSE awaited
         \/ n.type # "BEACON" /\ awaited' = awaited
  BY DEF Send, lvars
<1>2. /\ TypeOK /\ PlaceInv(l, near) /\ ChainInv(l) /\ AwaitInv(l)
      /\ time \in Nat /\ last_gps[l] \in Nat /\ awaited \in Nat /\ time # 0
  BY BeaconAssumption, JitAssumption
     DEF PeriodInv, TruthInv, TypeInv, TypeOK, GpsTime, AwaitInv
<1>3. /\ PERIOD \in Nat \ {0} /\ TX_JIT_DELAY \in Nat /\ TX_JIT_DELAY < PERIOD
  BY PeriodFacts
<1>4. Live' = Live \ {n} /\ Beacons' = Beacons \ {n}
  BY <1>1 DEF Live, Beacons, Outdated, Counter
<1>5. n \in Beacons => n \in Live
  BY <1>1 DEF Live
<1>6. Live # Beacons <=> Live' # Beacons'
  BY <1>4, <1>5 DEF Live
<1>7. /\ \A b \in Live : OnTime(b, last_gps[l]) /\ b.stamp \in Nat
      /\ n.type = "BEACON" => n \in Live
  BY <1>2, <1>5, LiveBeacons
<1>8. ASSUME n.type = "BEACON"
      PROVE  /\ time <= n.stamp /\ n.stamp < time + PERIOD /\ n.stamp <= last_gps[l]
             /\ n.stamp \in Nat
  <2>1. OnTime(n, last_gps[l]) /\ n.stamp \in Nat
    BY <1>7, <1>8
  <2>2. Sub(n.count, Counter) = n.stamp - time
    BY <1>2, <2>1, OnTimeIsLive
  <2> QED
    BY <1>1, <1>2, <1>3, <2>1, <2>2 DEF Due, OnTime
<1>9. PlaceInv(l, near)'
  BY <1>1 DEF PeriodInv, PlaceInv, NearDownlink, BeaconInPlace, OnTime, OfPast,
              Outdated, Counter
<1>10. awaited' # 0 => awaited # 0 /\ awaited' >= awaited
  BY <1>1, <1>2, <1>3, <1>8
<1>11. ASSUME awaited # 0
       PROVE  /\ time <= awaited
              /\ \E m \in Nat : awaited = last_gps[l] + PERIOD - m * PERIOD
  BY <1>2, <1>11, InvIsPeriod DEF AwaitInv, EveryPeriod
<1>12. ChainInv(l)'
  <2> SUFFICES ASSUME NEW k \in Nat,
                      LET s == last_gps[l] - k * PERIOD IN
                      s > time + PERIOD \/ (awaited' # 0 /\ s >= awaited')
               PROVE  \E b \in Live' : b.stamp = last_gps[l] - k * PERIOD
    BY <1>1 DEF ChainInv
  <2> DEFINE s == last_gps[l] - k * PERIOD
  <2>1. s \in Int /\ k \in Int /\ k * PERIOD \in Int
    <3>1. k * PERIOD \in Int
      BY <1>3
    <3> QED
      BY <1>2, <3>1
  <2>2. s > time + PERIOD \/ (awaited' # 0 /\ s >= awaited')
    BY DEF s
  <2>3. \E b \in Live : b.stamp = s
    <3>1. s > time + PERIOD \/ (awaited # 0 /\ s >= awaited)
      <4> HIDE DEF s
      <4>1. awaited' \in Nat
        BY <1>1, <1>2, <1>3
      <4> QED
        BY <1>2, <1>10, <2>1, <2>2, <4>1
    <3> QED
      BY <1>2, <3>1 DEF ChainInv
  <2>4. n.type = "BEACON" => n.stamp # s
    <3> SUFFICES ASSUME n.type = "BEACON", n.stamp = s PROVE FALSE
      OBVIOUS
    <3>1. s < time + PERIOD /\ s >= time
      BY <1>8
    <3>2. awaited' # 0 /\ s >= awaited'
      <4> HIDE DEF s
      <4> QED
        BY <1>2, <1>3, <2>1, <2>2, <3>1
    <3>3. awaited # 0 /\ awaited' >= awaited /\ time <= awaited /\ s # awaited
      <4> HIDE DEF s
      <4> QED
        BY <1>1, <1>2, <1>3, <1>10, <1>11, <3>2
    <3>4. PICK m \in Nat : awaited = last_gps[l] + PERIOD - m * PERIOD
      BY <1>11, <3>3
    <3> DEFINE j == m - 1
    <3>5. j \in Int /\ j * PERIOD = m * PERIOD - PERIOD /\ j * PERIOD \in Int
          /\ m * PERIOD \in Int
      BY <1>3, MultipleGap
    <3>6. awaited = last_gps[l] - j * PERIOD
      <4> HIDE DEF j
      <4> QED
        BY <1>2, <1>3, <3>4, <3>5
    <3> HIDE DEF j
    <3>7. awaited' \in Nat /\ awaited < s
      <4>1. awaited' \in Nat
        BY <1>1, <1>2, <1>3
      <4> HIDE DEF s
      <4> QED
        BY <1>2, <2>1, <3>2, <3>3, <4>1
    <3>8. k * PERIOD < j * PERIOD
      <4> DEFINE kp == k * PERIOD
                 jp == j * PERIOD
      <4>1. last_gps[l] - jp < last_gps[l] - kp /\ kp \in Int /\ jp \in Int
        BY <2>1, <3>5, <3>6, <3>7
      <4> HIDE DEF kp, jp
      <4>2. kp < jp
        BY <1>2, <4>1
      <4> QED
        BY <4>2 DEF kp, jp
    <3>9. k * PERIOD + PERIOD <= j * PERIOD
      BY <1>3, <2>1, <3>5, <3>8, MultipleGap
    <3>10. awaited + PERIOD <= s
      <4> DEFINE kp == k * PERIOD
                 jp == j * PERIOD
      <4>1. kp + PERIOD <= jp /\ kp \in Int /\ jp \in Int
            /\ awaited = last_gps[l] - jp /\ s = last_gps[l] - kp
        BY <2>1, <3>5, <3>6, <3>9
      <4> HIDE DEF kp, jp, s
      <4> QED
        BY <1>2, <1>3, <4>1
    <3> QED
      BY <1>2, <1>3, <2>1, <3>1, <3>3, <3>10
  <2>5. n \in Live => n.type = "BEACON"
    BY DEF Live, Beacons
  <2> HIDE DEF s
  <2>6. \E b \in Live' : b.stamp = s
    BY <1>4, <2>3, <2>4, <2>5
  <2> QED
    BY <2>6 DEF s
<1>13. AwaitInv(l)'
  <2> SUFFICES ASSUME awaited' # 0
               PROVE  /\ gps /\ last_gps[l] # 0
                      /\ \E m \in Nat : awaited' = last_gps[l] + PERIOD - m * PERIOD
                      /\ pc[l] = "recv" => time <= last_gps[l] + idle[l]
                      /\ pc[l] = "load" => time <= last_gps[l] + RECV_LAG /\ retry[l] = 0
                      /\ Live' # Beacons' => time <= last_gps[l]
    BY <1>1, <1>2 DEF AwaitInv
  <2>1. awaited # 0
    BY <1>10
  <2>2. \E m \in Nat : awaited' = last_gps[l] + PERIOD - m * PERIOD
    <3>1. CASE awaited' = awaited
      BY <1>11, <2>1, <3>1
    <3>2. CASE awaited' # awaited
      <4>1. awaited' = awaited + PERIOD /\ awaited = n.stamp /\ n.stamp <= last_gps[l]
        BY <1>1, <1>8, <3>2
      <4>2. PICK m \in Nat : awaited = last_gps[l] + PERIOD - m * PERIOD
        BY <1>11, <2>1
      <4>3. m # 0
        BY <1>2, <1>3, <4>1, <4>2
      <4> DEFINE j == m - 1
      <4>4. j \in Nat /\ j * PERIOD = m * PERIOD - PERIOD /\ m * PERIOD \in Int
        BY <1>3, <4>3, MultipleGap
      <4> HIDE DEF j
      <4>5. awaited' = last_gps[l] + PERIOD - j * PERIOD
        <5> DEFINE mp == m * PERIOD
                   jp == j * PERIOD
        <5>1. /\ jp = mp - PERIOD /\ mp \in Int
              /\ awaited = last_gps[l] + PERIOD - mp
          BY <4>2, <4>4
        <5> HIDE DEF mp, jp
        <5>2. awaited' = last_gps[l] + PERIOD - jp
          BY <1>2, <1>3, <4>1, <5>1
        <5> QED
          BY <5>2 DEF jp
      <4> QED
        BY <4>4, <4>5
    <3> QED
      BY <3>1, <3>2
  <2> QED
    BY <1>2, <1>6, <2>1, <2>2 DEF AwaitInv
<1>14. RetryInv(l, near)'
  BY <1>1 DEF PeriodInv, RetryInv, NextSlot
<1> QED
  BY <1>9, <1>12, <1>13, <1>14 DEF Sched

\* A loader that finds nothing to load leaves a beacon of the future behind it.
LEMMA RecvSched ==
  ASSUME NEW near \in Nat, PeriodDelays(near), NEW l \in Loaders,
         PeriodInv(l, near), Recv(l)
  PROVE  Sched(l, near)'
<1>1. /\ UNCHANGED <<time, gps, queue, last_gps, awaited>>
      /\ pc[l] = "recv" /\ retry'[l] = 0 /\ idle'[l] = 0
      /\ pc'[l] = IF Missing(num_beacon) = 0 THEN "recv" ELSE "load"
  BY DEF Recv, PeriodInv, TruthInv, TypeInv, TypeOK
<1>2. /\ TypeOK /\ PlaceInv(l, near) /\ AwaitInv(l)
      /\ time \in Nat /\ last_gps[l] \in Nat /\ idle[l] \in 0 .. RECV_LAG
  BY BeaconAssumption, JitAssumption
     DEF PeriodInv, TruthInv, TypeInv, TypeOK, GpsTime
<1>3. /\ PERIOD \in Nat \ {0} /\ RECV_LAG \in Nat
  BY PeriodFacts
<1>4. Live' = Live /\ Beacons' = Beacons
  BY <1>1 DEF Live, Beacons, Outdated, Counter
<1>5. PlaceInv(l, near)'
  BY <1>1 DEF PeriodInv, PlaceInv, NearDownlink, BeaconInPlace, OnTime, OfPast,
              Outdated, Counter
<1>6. ChainInv(l)'
  BY <1>1, <1>4, QuietSched
<1>7. ASSUME awaited # 0, Missing(num_beacon) = 0 PROVE time <= last_gps[l]
  <2>1. num_beacon \in Nat /\ num_beacon <= JIT_NUM_BEACON_IN_QUEUE
    BY <1>1, FewerBeacons DEF PeriodInv, LoadInv, AtMostThree
  <2>2. num_beacon # 0
    <3> HIDE DEF num_beacon, Missing
    <3> QED
      BY <1>7, <2>1, MissingIsRoom, BeaconAssumption
  <2>3. PICK n \in Beacons : TRUE
    BY <2>2, FS_EmptySet DEF num_beacon
  <2>4. CASE n \in Live
    <3>1. OnTime(n, last_gps[l]) /\ n.stamp \in Nat
      BY <1>2, <2>4, LiveBeacons
    <3> QED
      BY <1>2, <3>1 DEF OnTime
  <2>5. CASE n \notin Live
    BY <1>2, <1>7, <2>3, <2>5 DEF AwaitInv
  <2> QED
    BY <2>4, <2>5
<1>8. AwaitInv(l)'
  <2>1. time' # 0
    BY <1>1, <1>2 DEF AwaitInv
  <2> SUFFICES ASSUME awaited # 0
               PROVE  /\ gps /\ last_gps[l] # 0
                      /\ \E m \in Nat : awaited = last_gps[l] + PERIOD - m * PERIOD
                      /\ pc'[l] = "recv" => time <= last_gps[l] + idle'[l]
                      /\ pc'[l] = "load" => time <= last_gps[l] + RECV_LAG /\ retry'[l] = 0
                      /\ Live # Beacons => time <= last_gps[l]
    BY <1>1, <1>4, <2>1 DEF AwaitInv
  <2>2. time <= last_gps[l] + idle[l]
    BY <1>1, <1>2 DEF AwaitInv
  <2>3. time <= last_gps[l] + RECV_LAG
    BY <1>2, <1>3, <2>2
  <2>4. pc'[l] = "recv" => time <= last_gps[l] + idle'[l]
    BY <1>1, <1>2, <1>7
  <2> QED
    BY <1>1, <1>2, <2>3, <2>4 DEF AwaitInv
<1>9. RetryInv(l, near)'
  <2>1. ASSUME last_gps[l] = 0, NEW ref \in Nat, ref <= time
        PROVE  NextSlot(l, ref)' <= time + 2 * PERIOD
    <3> DEFINE first == ref + (PERIOD - (ref % PERIOD))
    <3>1. first \in Nat /\ first <= ref + PERIOD
      BY FirstSlot
    <3>2. NextSlot(l, ref)' = first + 0 * PERIOD
      BY <1>1, <2>1 DEF NextSlot
    <3> HIDE DEF first
    <3> QED
      BY <1>2, <1>3, <2>1, <3>1, <3>2
  <2> QED
    BY <1>1, <2>1 DEF RetryInv
<1> QED
  BY <1>5, <1>6, <1>8, <1>9 DEF Sched

LEMMA BreakSched ==
  ASSUME NEW near \in Nat, PeriodDelays(near), NEW l \in Loaders,
         PeriodInv(l, near), Break(l)
  PROVE  Sched(l, near)'
<1>1. /\ UNCHANGED <<time, gps, queue, idle, retry, last_gps, awaited>>
      /\ ~gps /\ pc'[l] = "recv"
  BY DEF Break, PeriodInv, TruthInv, TypeInv, TypeOK
<1>2. Live' = Live
  BY <1>1 DEF Live, Beacons, Outdated, Counter
<1>3. PlaceInv(l, near)'
  BY <1>1 DEF PeriodInv, PlaceInv, NearDownlink, BeaconInPlace, OnTime, OfPast,
              Outdated, Counter
<1>4. ChainInv(l)'
  BY <1>1, <1>2, QuietSched
<1>5. AwaitInv(l)'
  BY <1>1 DEF PeriodInv, AwaitInv
<1>6. RetryInv(l, near)'
  BY <1>1 DEF RetryInv
<1> QED
  BY <1>3, <1>4, <1>5, <1>6 DEF Sched

\* One iteration of the loop, as the invariant sees it.
LEMMA LoadOutcome ==
  ASSUME NEW near \in Nat, PeriodDelays(near), NEW l \in Loaders,
         PeriodInv(l, near), RoomForBeacons, Load(l)
  PROVE  \E ref \in Nat, slot \in Nat \ {0} :
           /\ ref <= time /\ ref + REF_AGE >= time
           /\ slot = NextSlot(l, ref)
           /\ slot <= time + Span + PERIOD
           /\ \/ \E node :
                   /\ queue' = queue \cup {node}
                   /\ node.type = "BEACON" /\ node.stamp = slot
                   /\ BeaconInPlace(node, slot)
                   /\ slot > time => OnTime(node, slot)
                   /\ retry'[l] = 0 /\ last_gps'[l] = slot
                   /\ awaited' = IF awaited = 0 /\ slot > time THEN slot ELSE awaited
              \/ /\ slot <= time + near
                 /\ retry'[l] = retry[l] + 1
                 /\ UNCHANGED <<queue, beacon_loop, last_gps, pc, awaited>>
<1>1. PICK ref \in {r \in 0 .. time : r + REF_AGE >= time} :
        \E count \in CountsOf(NextSlot(l, ref), ref) :
          LET pkt == [type |-> "BEACON", count |-> count, toa |-> 0] IN
          \/ /\ Accepts(pkt)
             /\ queue' = queue \cup {Queued(pkt, NextSlot(l, ref))}
             /\ retry' = [retry EXCEPT ![l] = Retried(@)]
             /\ last_gps' = [last_gps EXCEPT ![l] = NextSlot(l, ref)]
             /\ awaited' = IF awaited = 0 /\ NextSlot(l, ref) > time
                             THEN NextSlot(l, ref) ELSE awaited
          \/ /\ ~Accepts(pkt)
             /\ retry' = [retry EXCEPT ![l] = @ + 1]
             /\ UNCHANGED <<queue, beacon_loop, last_gps, pc, awaited>>
  BY DEF Load
<1>2. PICK count \in CountsOf(NextSlot(l, ref), ref) :
        LET pkt == [type |-> "BEACON", count |-> count, toa |-> 0] IN
        \/ /\ Accepts(pkt)
           /\ queue' = queue \cup {Queued(pkt, NextSlot(l, ref))}
           /\ retry' = [retry EXCEPT ![l] = Retried(@)]
           /\ last_gps' = [last_gps EXCEPT ![l] = NextSlot(l, ref)]
           /\ awaited' = IF awaited = 0 /\ NextSlot(l, ref) > time
                           THEN NextSlot(l, ref) ELSE awaited
        \/ /\ ~Accepts(pkt)
           /\ retry' = [retry EXCEPT ![l] = @ + 1]
           /\ UNCHANGED <<queue, beacon_loop, last_gps, pc, awaited>>
  BY <1>1
<1>3. /\ TypeOK /\ pc[l] = "load" /\ time \in Nat
      /\ retry \in [Loaders -> Nat] /\ last_gps \in [Loaders -> GpsTime]
  BY BeaconAssumption DEF PeriodInv, TruthInv, TypeInv, TypeOK, Load
<1>4. ref \in Nat /\ ref <= time /\ ref + REF_AGE >= time
  BY <1>1, <1>3
<1> DEFINE slot == NextSlot(l, ref)
           pkt == [type |-> "BEACON", count |-> count, toa |-> 0]
           node == Queued(pkt, slot)
<1>5. slot \in Nat \ {0} /\ slot <= time + Span + PERIOD
  BY <1>3, <1>4, SlotBounds
<1>6. CASE Accepts(pkt)
  <2>1. /\ BeaconInPlace(node, slot)
        /\ slot > time => OnTime(node, slot)
    BY <1>3, <1>4, <1>6, AcceptedInPlace
  <2>2. node.type = "BEACON" /\ node.stamp = slot
    BY DEF Queued
  <2>3. /\ queue' = queue \cup {node}
        /\ retry'[l] = 0 /\ last_gps'[l] = slot
        /\ awaited' = IF awaited = 0 /\ slot > time THEN slot ELSE awaited
    BY <1>2, <1>3, <1>6 DEF Retried
  <2> HIDE DEF slot, node
  <2>4. slot = NextSlot(l, ref)
    BY DEF slot
  <2> QED
    BY <1>4, <1>5, <2>1, <2>2, <2>3, <2>4
<1>7. CASE ~Accepts(pkt)
  <2>1. slot <= time + near
    BY <1>3, <1>4, <1>7, RefusedIsNear
  <2>2. /\ retry'[l] = retry[l] + 1
        /\ UNCHANGED <<queue, beacon_loop, last_gps, pc, awaited>>
    BY <1>2, <1>3, <1>7
  <2> HIDE DEF slot
  <2>4. slot = NextSlot(l, ref)
    BY DEF slot
  <2> QED
    BY <1>4, <1>5, <2>1, <2>2, <2>4
<1> QED
  BY <1>6, <1>7

\* A slot that was refused is not awaited; the next one is at most a period
\* behind it, or two behind the reference.
LEMMA RefusedSched ==
  ASSUME NEW near \in Nat, PeriodDelays(near), NEW l \in Loaders,
         PeriodInv(l, near), pc[l] = "load", UNCHANGED <<time, gps, idle>>,
         NEW ref \in Nat, ref <= time, ref + REF_AGE >= time,
         NextSlot(l, ref) <= time + near,
         retry'[l] = retry[l] + 1,
         UNCHANGED <<queue, beacon_loop, last_gps, pc, awaited>>
  PROVE  Sched(l, near)'
<1>1. /\ TypeOK /\ PlaceInv(l, near) /\ AwaitInv(l)
      /\ time \in Nat /\ last_gps[l] \in Nat /\ retry[l] \in Nat
  BY BeaconAssumption, JitAssumption
     DEF PeriodInv, TruthInv, TypeInv, TypeOK, GpsTime
<1>2. /\ PERIOD \in Nat \ {0} /\ RECV_LAG \in Nat /\ REF_AGE \in Nat
      /\ REF_AGE + near < PERIOD /\ RECV_LAG + near < PERIOD
  BY PeriodFacts DEF PeriodDelays
<1> DEFINE skip == retry[l] * PERIOD
           first(r) == r + (PERIOD - (r % PERIOD))
<1>3. /\ skip \in Nat /\ retry'[l] * PERIOD = skip + PERIOD
      /\ retry[l] = 0 => skip = 0
      /\ retry[l] # 0 => skip >= PERIOD
  <2>1. (retry[l] + 1) * PERIOD = retry[l] * PERIOD + PERIOD
    BY <1>1, <1>2, MultipleGap
  <2>2. skip \in Nat /\ (retry[l] = 0 => skip = 0)
    BY <1>1, <1>2
  <2>3. ASSUME retry[l] # 0 PROVE skip >= PERIOD
    <3>1. 0 \in Int /\ retry[l] \in Int /\ 0 < retry[l]
      BY <1>1, <2>3
    <3>2. 0 * PERIOD + PERIOD <= retry[l] * PERIOD
      BY <1>2, <3>1, MultipleGap
    <3> QED
      BY <1>2, <3>2
  <2> QED
    BY <2>1, <2>2, <2>3
<1>4. /\ NextSlot(l, ref) = (IF last_gps[l] = 0 THEN first(ref)
                                                ELSE last_gps[l] + PERIOD) + skip
      /\ \A r : NextSlot(l, r)' = (IF last_gps[l] = 0 THEN first(r)
                                     ELSE last_gps[l] + PERIOD) + retry'[l] * PERIOD
  BY DEF NextSlot
<1>5. Live' = Live /\ Beacons' = Beacons
  BY DEF Live, Beacons, Outdated, Counter
<1>6. PlaceInv(l, near)'
  BY DEF PeriodInv, PlaceInv, NearDownlink, BeaconInPlace, OnTime, OfPast,
         Outdated, Counter
<1>7. ChainInv(l)'
  BY <1>5, QuietSched
<1> HIDE DEF skip
<1>8. awaited = 0
  <2> SUFFICES ASSUME awaited # 0 PROVE FALSE
    OBVIOUS
  <2>1. time <= last_gps[l] + RECV_LAG /\ last_gps[l] # 0
    BY <1>1 DEF AwaitInv
  <2>2. last_gps[l] + PERIOD + skip <= time + near
    BY <1>4, <2>1
  <2> QED
    BY <1>1, <1>2, <1>3, <2>1, <2>2
<1>9. AwaitInv(l)'
  BY <1>1, <1>8 DEF AwaitInv
<1>10. RetryInv(l, near)'
  <2>1. ASSUME last_gps[l] # 0
        PROVE  last_gps[l] + retry'[l] * PERIOD <= time + near
    <3>1. last_gps[l] + PERIOD + skip <= time + near
      BY <1>4, <2>1
    <3> QED
      BY <1>1, <1>2, <1>3, <3>1
  <2>2. ASSUME last_gps[l] = 0, NEW r \in Nat, r <= time, r + REF_AGE >= time
        PROVE  NextSlot(l, r)' <= time + 2 * PERIOD
    <3>1. /\ first(ref) \in Nat /\ ref < first(ref)
          /\ first(r) \in Nat /\ first(r) <= r + PERIOD
          /\ r < first(ref) => first(r) <= first(ref)
      <4>1. \A a, b \in Nat : /\ first(a) \in Nat /\ a < first(a) /\ first(a) <= a + PERIOD
                              /\ b < first(a) => first(b) <= first(a)
        BY FirstSlot
      <4> HIDE DEF first
      <4> QED
        BY <4>1
    <3>2. /\ first(ref) + skip <= time + near
          /\ NextSlot(l, r)' = first(r) + skip + PERIOD
      <4>1. NextSlot(l, ref) = first(ref) + skip /\ NextSlot(l, r)' = first(r) + retry'[l] * PERIOD
        BY <1>4, <2>2
      <4> HIDE DEF first
      <4> QED
        BY <1>2, <1>3, <3>1, <4>1
    <3> HIDE DEF first
    <3>3. CASE r < first(ref)
      BY <1>1, <1>2, <1>3, <2>2, <3>1, <3>2, <3>3
    <3>4. CASE ~(r < first(ref))
      <4>1. first(ref) <= r /\ retry[l] = 0
        BY <1>1, <1>2, <1>3, <2>2, <3>1, <3>2, <3>4
      <4> QED
        BY <1>1, <1>2, <1>3, <2>2, <3>1, <3>2, <4>1
    <3> QED
      BY <3>3, <3>4
  <2> QED
    BY <2>1, <2>2 DEF RetryInv
<1> QED
  BY <1>6, <1>7, <1>9, <1>10 DEF Sched

\* An accepted slot of the future continues the chain, or begins it anew within
\* two periods.
LEMMA AcceptedSched ==
  ASSUME NEW near \in Nat, PeriodDelays(near), NEW l \in Loaders,
         PeriodInv(l, near), pc[l] = "load", UNCHANGED <<time, gps, idle>>, gps,
         pc'[l] \in {"recv", "load"},
         NEW ref \in Nat, ref <= time, ref + REF_AGE >= time,
         NEW slot \in Nat \ {0}, slot = NextSlot(l, ref),
         slot <= time + Span + PERIOD, NEW node,
         queue' = queue \cup {node},
         node.type = "BEACON", node.stamp = slot,
         BeaconInPlace(node, slot), slot > time => OnTime(node, slot),
         retry'[l] = 0, last_gps'[l] = slot,
         awaited' = IF awaited = 0 /\ slot > time THEN slot ELSE awaited
  PROVE  Sched(l, near)'
<1> DEFINE last == last_gps[l]
           skip == retry[l] * PERIOD
<1>1. /\ TypeOK /\ PlaceInv(l, near) /\ AwaitInv(l) /\ ChainInv(l) /\ RetryInv(l, near)
      /\ time \in Nat /\ last \in Nat /\ retry[l] \in Nat /\ awaited \in Nat
      /\ idle[l] \in Nat
  BY BeaconAssumption, JitAssumption
     DEF PeriodInv, TruthInv, TypeInv, TypeOK, GpsTime
<1>2. /\ PERIOD \in Nat \ {0} /\ RECV_LAG \in Nat /\ RECV_LAG < PERIOD /\ near < PERIOD
  BY PeriodFacts DEF PeriodDelays
<1>3. /\ skip \in Nat /\ (retry[l] = 0 => skip = 0)
      /\ last # 0 => slot = last + PERIOD + skip
      /\ last # 0 /\ retry[l] # 0 => last + skip <= time + near
      /\ last = 0 => slot <= time + 2 * PERIOD
  BY <1>1, <1>2 DEF NextSlot, RetryInv
<1>4. last <= slot
  BY <1>1, <1>2, <1>3
<1> HIDE DEF skip
<1>5. Counter' = Counter /\ Beacons' = Beacons \cup {node} /\ time' = time
  BY DEF Counter, Beacons
<1>6. Live \subseteq Live' /\ Live' \subseteq Live \cup {node}
  BY <1>5 DEF Live, Outdated
<1>7. slot > time => node \in Live'
  <2> SUFFICES ASSUME slot > time PROVE node \in Live'
    OBVIOUS
  <2>1. ~Outdated(node, Counter)
    <3>1. node.stamp \in Nat /\ OnTime(node, slot)
      OBVIOUS
    <3> QED
      BY <1>1, <3>1, OnTimeIsLive
  <2> QED
    BY <1>5, <2>1 DEF Live, Outdated
<1>8. awaited # 0 => /\ time <= last + RECV_LAG /\ retry[l] = 0 /\ last # 0
                     /\ slot = last + PERIOD /\ slot > time
  BY <1>1, <1>2, <1>3 DEF AwaitInv
<1>9. PlaceInv(l, near)'
  <2>1. \A n \in queue : /\ n.type = "A" => NearDownlink(n, near)'
                         /\ n.type = "BEACON" => BeaconInPlace(n, last_gps[l])'
    <3>1. last_gps[l] <= last_gps'[l] /\ last_gps'[l] \in Nat
      BY <1>4
    <3> QED
      BY <1>1, <3>1, PlaceKept
  <2>2. BeaconInPlace(node, last_gps[l])'
    BY <1>5 DEF BeaconInPlace, OnTime, OfPast, Outdated
  <2> QED
    BY <2>1, <2>2 DEF PlaceInv
<1>10. ASSUME NEW k \in Nat,
              LET s == slot - k * PERIOD IN
              s > time + PERIOD \/ (awaited' # 0 /\ s >= awaited')
       PROVE  \E n \in Live' : n.stamp = slot - k * PERIOD
  <2> DEFINE kp == k * PERIOD
             s  == slot - kp
  <2>1. kp \in Nat /\ s \in Int
    <3>1. kp \in Nat
      BY <1>2
    <3> QED
      BY <3>1
  <2>2. s > time + PERIOD \/ (awaited' # 0 /\ s >= awaited')
    BY <1>10
  <2>3. CASE k = 0
    <3>1. s = slot
      <4>1. kp = 0
        BY <1>2, <2>3
      <4> HIDE DEF kp
      <4> QED
        BY <4>1
    <3>2. slot > time
      <4> HIDE DEF s
      <4> QED
        BY <1>1, <1>2, <1>8, <2>2, <3>1
    <3> QED
      BY <1>7, <3>1, <3>2
  <2>4. CASE k # 0
    <3> DEFINE j == k - 1
               jp == j * PERIOD
    <3>1. j \in Nat /\ jp \in Nat /\ kp = jp + PERIOD
      <4>1. j \in Nat /\ k = j + 1
        BY <2>4
      <4> HIDE DEF j
      <4> QED
        BY <1>2, <4>1, MultipleGap
    <3> HIDE DEF kp, jp, j
    <3>2. s <= slot - PERIOD
      BY <1>2, <2>1, <3>1
    <3>3. CASE last # 0 /\ retry[l] = 0
      <4>1. s = last - jp /\ slot = last + PERIOD
        BY <1>1, <1>2, <1>3, <2>1, <3>1, <3>3
      <4>2. s > time + PERIOD \/ (awaited # 0 /\ s >= awaited)
        <5> HIDE DEF s
        <5> QED
          BY <1>1, <1>2, <2>1, <2>2, <3>2
      <4>3. \E n \in Live : n.stamp = last - jp
        <5>1. last - j * PERIOD > time + PERIOD \/ (awaited # 0 /\ last - j * PERIOD >= awaited)
          BY <4>1, <4>2 DEF jp
        <5> QED
          BY <1>1, <3>1, <5>1 DEF ChainInv, jp
      <4> QED
        BY <1>6, <4>1, <4>3 DEF kp
    <3>4. CASE last = 0 \/ retry[l] # 0
      <4>1. awaited = 0 /\ slot <= time + 2 * PERIOD
        BY <1>1, <1>2, <1>3, <1>8, <3>4
      <4> HIDE DEF s
      <4> QED
        BY <1>1, <1>2, <2>1, <2>2, <3>2, <4>1
    <3> QED
      BY <3>3, <3>4
  <2> QED
    BY <2>3, <2>4
<1>11. ChainInv(l)'
  BY <1>5, <1>10 DEF ChainInv
<1>12. AwaitInv(l)'
  <2>1. time' # 0
    BY <1>1 DEF AwaitInv
  <2> SUFFICES ASSUME awaited' # 0
               PROVE  /\ slot > time
                      /\ \E m \in Nat : awaited' = slot + PERIOD - m * PERIOD
    BY <1>1, <1>2, <2>1 DEF AwaitInv
  <2>2. CASE awaited = 0
    <3>1. slot > time /\ awaited' = slot
      BY <2>2
    <3>2. slot = slot + PERIOD - 1 * PERIOD
      BY <1>2
    <3> QED
      BY <3>1, <3>2
  <2>3. CASE awaited # 0
    <3>1. PICK m \in Nat : awaited = last + PERIOD - m * PERIOD
      BY <1>1, <2>3 DEF AwaitInv
    <3> DEFINE mp == m * PERIOD
               j == m + 1
               jp == j * PERIOD
    <3>2. j \in Nat /\ mp \in Int /\ jp = mp + PERIOD
      BY <1>2, MultipleGap
    <3>3. awaited = last + PERIOD - mp /\ slot = last + PERIOD /\ slot > time
          /\ awaited' = awaited
      BY <1>8, <2>3, <3>1
    <3> HIDE DEF mp, jp, j, last
    <3>4. awaited' = slot + PERIOD - jp
      BY <1>1, <1>2, <3>2, <3>3
    <3> QED
      BY <3>2, <3>3, <3>4 DEF jp
  <2> QED
    BY <2>2, <2>3
<1>13. RetryInv(l, near)'
  BY DEF RetryInv
<1> QED
  BY <1>9, <1>11, <1>12, <1>13 DEF Sched

LEMMA LoadSched ==
  ASSUME NEW near \in Nat, PeriodDelays(near), NEW l \in Loaders,
         PeriodInv(l, near), RoomForBeacons, Load(l), TypeOK'
  PROVE  Sched(l, near)'
<1>1. /\ UNCHANGED <<time, gps, idle>> /\ pc[l] = "load" /\ gps
      /\ pc'[l] \in {"recv", "load"}
  BY DEF Load, TypeOK
<1>2. PICK ref \in Nat, slot \in Nat \ {0} :
        /\ ref <= time /\ ref + REF_AGE >= time
        /\ slot = NextSlot(l, ref)
        /\ slot <= time + Span + PERIOD
        /\ \/ \E node :
                /\ queue' = queue \cup {node}
                /\ node.type = "BEACON" /\ node.stamp = slot
                /\ BeaconInPlace(node, slot)
                /\ slot > time => OnTime(node, slot)
                /\ retry'[l] = 0 /\ last_gps'[l] = slot
                /\ awaited' = IF awaited = 0 /\ slot > time THEN slot ELSE awaited
           \/ /\ slot <= time + near
              /\ retry'[l] = retry[l] + 1
              /\ UNCHANGED <<queue, beacon_loop, last_gps, pc, awaited>>
  BY LoadOutcome
<1>3. CASE /\ slot <= time + near
           /\ retry'[l] = retry[l] + 1
           /\ UNCHANGED <<queue, beacon_loop, last_gps, pc, awaited>>
  BY <1>1, <1>2, <1>3, RefusedSched
<1>4. ASSUME NEW node,
             /\ queue' = queue \cup {node}
             /\ node.type = "BEACON" /\ node.stamp = slot
             /\ BeaconInPlace(node, slot)
             /\ slot > time => OnTime(node, slot)
             /\ retry'[l] = 0 /\ last_gps'[l] = slot
             /\ awaited' = IF awaited = 0 /\ slot > time THEN slot ELSE awaited
      PROVE  Sched(l, near)'
  BY <1>1, <1>2, <1>4, AcceptedSched
<1> QED
  BY <1>2, <1>3, <1>4

LEMMA NextPeriod ==
  ASSUME NEW near \in Nat, PeriodDelays(near), NEW l, Loaders = {l},
         PeriodInv(l, near), RoomForBeacons, [Next]_vars
  PROVE  TypeInv' /\ LoadInv' /\ Sched(l, near)'
<1>1. l \in Loaders /\ \A j, k \in Loaders : j = k
  OBVIOUS
<1>2. LoadInv /\ TypeInv
  BY DEF PeriodInv, TruthInv
<1>3. LoadInv' /\ TypeInv'
  BY <1>1, <1>2, NextLoad, NextTypes
<1>4. Sched(l, near)'
  <2>1. CASE Tick
    BY <1>1, <2>1, TickSched
  <2>2. CASE GpsChange
    BY <1>1, <2>2, GpsSched
  <2>3. CASE Downlink
    BY <1>1, <2>3, DownlinkSched
  <2>4. ASSUME NEW n \in queue, Drop(n) PROVE Sched(l, near)'
    BY <1>1, <2>4, DropSched
  <2>5. ASSUME NEW n \in queue, Send(n) PROVE Sched(l, near)'
    BY <1>1, <2>5, SendSched
  <2>6. CASE Recv(l)
    BY <1>1, <2>6, RecvSched
  <2>7. CASE Break(l)
    BY <1>1, <2>7, BreakSched
  <2>8. CASE Load(l)
    BY <1>1, <1>3, <2>8, LoadSched DEF TypeInv
  <2>9. CASE UNCHANGED vars
    BY <2>9 DEF vars, lvars, PeriodInv, Sched, PlaceInv, ChainInv, AwaitInv, RetryInv,
                NearDownlink, BeaconInPlace, OnTime, OfPast, Live, Beacons, Outdated,
                Counter, NextSlot
  <2> QED
    BY <2>1, <2>2, <2>3, <2>4, <2>5, <2>6, <2>7, <2>8, <2>9 DEF Next
<1> QED
  BY <1>3, <1>4

\* With one service and room for the beacons in the queue, every period from the
\* first beacon loaded under a reference that lasts has its beacon, no slot
\* is ever a turn of the counter ahead, and beacons are emitted at the
\* time they carry: whatever the losses of the GPS before, the age of the
\* references, and the downlinks asked for shortly before their departure.
THEOREM NoPeriodSkipped ==
  ASSUME NEW near \in Nat, PeriodDelays(near), NEW l, Loaders = {l}
  PROVE  Spec /\ []RoomForBeacons => [](EveryPeriod /\ SlotsAhead /\ Truthful)
<1>1. Init => PeriodInv(l, near)
  <2> SUFFICES ASSUME Init PROVE PeriodInv(l, near)
    OBVIOUS
  <2>1. TruthInv
    BY InitTypes DEF Init, TruthInv, LastInv, Truthful, Beacons
  <2>2. LoadInv /\ Sched(l, near)
    BY InitLoad, InitSched
  <2> QED
    BY <2>1, <2>2 DEF PeriodInv, Sched
<1>2. PeriodInv(l, near) /\ RoomForBeacons /\ [Next]_vars
        => TypeInv' /\ LoadInv' /\ Sched(l, near)'
  BY NextPeriod
<1>3. TypeInv /\ Sched(l, near) => SlotsAhead
  BY PlaceAhead DEF Sched, TypeInv
<1>4. TruthInv /\ SlotsAhead' /\ [Next]_vars => TruthInv'
  BY NextTruth DEF PeriodDelays
<1>5. PeriodInv(l, near) <=> TruthInv /\ LoadInv /\ Sched(l, near)
  BY DEF PeriodInv, Sched
<1>6. PeriodInv(l, near) => EveryPeriod /\ SlotsAhead /\ Truthful
  BY InvIsPeriod DEF PeriodInv, TruthInv
<1> QED
  BY <1>1, <1>2, <1>3, <1>4, <1>5, <1>6, PTL DEF Spec
=============================================================================
