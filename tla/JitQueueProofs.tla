--------------------------- MODULE JitQueueProofs ---------------------------
(***************************************************************************)
(* What holds of the just-in-time queue for every number of threads, every *)
(* size of the queue, every counter width and every choice of the delays:  *)
(* its types, the absence of overlap between queued packets and the room   *)
(* to program each one; with a single enqueueing thread the bound of the   *)
(* array; for threads fast enough for the delays (Timely) and packets      *)
(* asked for within reach (InReach), that every packet is peeked and       *)
(* handed to the radio in its window, and that the queue implements        *)
(* DownlinkPlan; and, while the queue stays within half the counter's      *)
(* range, as it then does, the count of its beacons and the slot of an     *)
(* immediate downlink.                                                     *)
(***************************************************************************)
EXTENDS JitQueue, FiniteSetTheorems, TLAPS

CONSTANT
  REACH        \* how far ahead of its counter value a thread may ask

-----------------------------------------------------------------------------
(* The operators of JitOps. *)

LEMMA ModType ==
  ASSUME NEW a \in Int
  PROVE  a % W \in Time
BY JitAssumption DEF Time

LEMMA SubType ==
  ASSUME NEW a \in Int, NEW b \in Int
  PROVE  Sub(a, b) \in Time
BY JitAssumption DEF Sub, Time

LEMMA BelowW ==
  ASSUME NEW x \in Nat, x < W
  PROVE  x \in Time
BY JitAssumption DEF Time

\* Arithmetic that several proofs use.
LEMMA HalfOf ==
  ASSUME NEW a \in Nat, NEW b \in Nat, a <= b, 2 * b < W
  PROVE  2 * a < W
BY JitAssumption

LEMMA GapOf ==
  ASSUME NEW a \in Nat, NEW b \in Nat, NEW r \in Nat, NEW g \in Nat, NEW m \in Nat,
         ~(b - a <= g + r + m)
  PROVE  b > a + r + g + m
OBVIOUS

LEMMA ZeroNodeType == ZeroNode \in Node /\ 0 \in Time
<1>1. 0 \in Time
  BY JitAssumption DEF Time
<1> QED
  BY <1>1 DEF ZeroNode, Node, PktType, Downlinks

LEMMA DelayType ==
  ASSUME NEW pkt \in Packet \cup {ZeroPacket}
  PROVE  /\ PreDelay(pkt.type) \in Nat
         /\ PostDelay(pkt) \in Nat
         /\ NodeOf(pkt) \in Node
<1>1. /\ pkt.type \in PktType /\ pkt.count \in Time /\ pkt.toa \in Nat
  <2>1. CASE pkt \in Packet
    BY <2>1, JitAssumption DEF Packet
  <2>2. CASE pkt = ZeroPacket
    BY <2>2, JitAssumption DEF ZeroPacket, PktType, Downlinks, Time
  <2> QED
    BY <2>1, <2>2
<1>2. PreDelay(pkt.type) \in Nat
  BY JitAssumption DEF PreDelay
<1>3. PostDelay(pkt) \in Nat
  BY <1>1, JitAssumption DEF PostDelay
<1> QED
  BY <1>1, <1>2, <1>3 DEF NodeOf, Node

\* Sorting permutes the nodes.
LEMMA SortedType ==
  ASSUME NEW q \in Seq(Node), NEW s \in Sorted(q)
  PROVE  /\ s \in Seq(Node)
         /\ Len(s) = Len(q)
         /\ \E p \in Perms(Len(q)) : \A i \in DOMAIN s : s[i] = q[p[i]]
<1>1. PICK p \in Perms(Len(q)) : s = [i \in 1 .. Len(q) |-> q[p[i]]]
  BY DEF Sorted
<1>2. \A i \in 1 .. Len(q) : q[p[i]] \in Node
  BY <1>1 DEF Perms
<1>3. s \in Seq(Node) /\ Len(s) = Len(q)
  BY <1>1, <1>2
<1> QED
  BY <1>1, <1>3

\* Taking a node out leaves the others, one node shorter.
LEMMA TakeOutType ==
  ASSUME NEW q \in Seq(Node), q # <<>>, NEW i \in Nat
  PROVE  /\ TakeOut(q, i) \in Seq(Node)
         /\ Len(TakeOut(q, i)) = Len(q) - 1
BY DEF TakeOut

LEMMA NodeAtType ==
  ASSUME NEW q \in Seq(Node), NEW i \in Nat
  PROVE  NodeAt(q, i) \in Node
BY ZeroNodeType DEF NodeAt

LEMMA AsapStartType ==
  ASSUME NEW t \in Time
  PROVE  AsapStart(t) \subseteq Time
<1>1. t \in Nat /\ W \in Nat \ {0} /\ ASAP_DELAY \in Nat /\ W - 1 \in Time
  BY JitAssumption DEF Time
<1>2. t + ASAP_DELAY < W => t + ASAP_DELAY \in Time
  BY <1>1, BelowW
<1>3. (t + ASAP_DELAY) % W \in Time
  <2>1. t + ASAP_DELAY \in Int
    BY <1>1
  <2> QED
    BY <2>1, ModType
<1> QED
  BY <1>1, <1>2, <1>3 DEF AsapStart

\* The slot of an immediate downlink is a counter value.
LEMMA ScheduledType ==
  ASSUME NEW q \in Seq(Node), NEW t \in Time,
         NEW pkt \in Packet \cup {ZeroPacket},
         NEW s \in Scheduled(q, t, pkt)
  PROVE  s \in Packet \cup {ZeroPacket}
<1>1. AsapStart(t) \subseteq Time
  BY AsapStartType
<1>2. PreDelay(pkt.type) \in Nat /\ PostDelay(pkt) \in Nat
  BY DelayType
<1>3. ASSUME NEW i \in DOMAIN q
      PROVE  SlotAfter(q, i, PreDelay(pkt.type)) \in Time
  <2>1. q[i].count \in Int /\ q[i].post \in Int
    <3>1. q[i] \in Node
      BY <1>3
    <3> QED
      BY <3>1, JitAssumption DEF Node, Time
  <2>2. TX_JIT_DELAY \in Int /\ TX_MARGIN_DELAY \in Int
    BY JitAssumption
  <2>3. PreDelay(pkt.type) \in Int
    BY <1>2
  <2>4. q[i].count + q[i].post + PreDelay(pkt.type) + TX_JIT_DELAY
          + TX_MARGIN_DELAY \in Int
    BY <2>1, <2>2, <2>3
  <2> QED
    BY <2>4, ModType DEF SlotAfter
<1>4. ASSUME NEW asap \in AsapStart(t)
      PROVE  AsapSlots(q, asap, PreDelay(pkt.type), PostDelay(pkt)) \subseteq Time
  BY <1>1, <1>3 DEF AsapSlots
<1>5. CASE pkt.type = "C"
  <2>1. PICK slot \in Time : s = [pkt EXCEPT !.count = slot]
    BY <1>4, <1>5 DEF Scheduled
  <2>2. pkt \in Packet
    BY <1>5 DEF ZeroPacket
  <2> QED
    BY <2>1, <2>2 DEF Packet
<1>6. CASE pkt.type # "C"
  BY <1>6 DEF Scheduled
<1> QED
  BY <1>5, <1>6

LEMMA VerdictType ==
  ASSUME NEW q, NEW t, NEW pkt
  PROVE  Verdict(q, t, pkt) \in JitError
BY DEF Verdict, JitError

LEMMA UncountType ==
  ASSUME num_beacon \in 0 .. 255, NEW node, Uncount(node)
  PROVE  num_beacon' \in 0 .. 255
BY DEF Uncount

-----------------------------------------------------------------------------
(* Types. *)

LEMMA InitType == Init => TypeOK
<1> SUFFICES ASSUME Init PROVE TypeOK
  OBVIOUS
<1>1. Start \in Time
  BY JitQueueAssumption
<1>2. ZeroNode \in Node /\ 0 \in Time
  BY ZeroNodeType
<1>3. Silent \in [on : BOOLEAN, count : Time, toa : Nat]
  BY <1>2 DEF Silent
<1> QED
  BY <1>1, <1>2, <1>3 DEF Init, TypeOK, JitError

\* Every step keeps the types: what is put into the queue is a node with a
\* counter value for departure, the sort only permutes, and the index kept by
\* jit_peek may have become stale without reaching anything but a node.
LEMMA NextType == TypeOK /\ [Next]_vars => TypeOK'
<1> SUFFICES ASSUME TypeOK, [Next]_vars PROVE TypeOK'
  OBVIOUS
<1> USE DEF TypeOK
<1>1. CASE Tick
  <2>1. now' \in Time
    <3>1. now + 1 \in Int
      BY DEF Time
    <3> QED
      BY <1>1, <3>1, ModType DEF Tick
  <2>2. radio' \in [on : BOOLEAN, count : Time, toa : Nat]
    <3>1. Silent \in [on : BOOLEAN, count : Time, toa : Nat]
      BY JitAssumption DEF Silent, Time
    <3> QED
      BY <1>1, <3>1 DEF Tick
  <2> QED
    BY <1>1, <2>1, <2>2 DEF Tick, evars, jvars
<1>2. ASSUME NEW e \in Enqueuers, Request(e) PROVE TypeOK'
  <2>1. PICK type \in Types, count \in Departures \cup BeaconSlots, toa \in ToA :
          epkt' = [epkt EXCEPT ![e] = [type |-> type, count |-> count, toa |-> toa]]
    BY <1>2 DEF Request
  <2>2. [type |-> type, count |-> count, toa |-> toa] \in Packet
    BY JitQueueAssumption DEF Packet
  <2>3. epkt' \in [Enqueuers -> Packet \cup {ZeroPacket}]
    BY <2>1, <2>2
  <2> QED
    BY <1>2, <2>3 DEF Request, jvars
<1>3. ASSUME NEW e \in Enqueuers, CheckFull(e) PROVE TypeOK'
  BY <1>3 DEF CheckFull, Answer, jvars, JitError
<1>4. ASSUME NEW e \in Enqueuers, Insert(e) PROVE TypeOK'
  <2>1. PICK pkt \in Scheduled(nodes, etime[e], epkt[e]) :
          LET err == Verdict(nodes, etime[e], pkt) IN
          /\ epkt' = [epkt EXCEPT ![e] = pkt]
          /\ Answer(e, err)
          /\ \/ /\ err = "OK"
                /\ nodes' \in Sorted(Append(nodes, NodeOf(pkt)))
                /\ num_beacon' = IF pkt.type = "BEACON" THEN (num_beacon + 1) % 256
                                                        ELSE num_beacon
             \/ /\ err # "OK"
                /\ UNCHANGED <<nodes, num_beacon>>
    BY <1>4 DEF Insert
  <2>2. pkt \in Packet \cup {ZeroPacket}
    BY <2>1, ScheduledType
  <2>3. Verdict(nodes, etime[e], pkt) \in JitError
    BY VerdictType
  <2>4. epkt' \in [Enqueuers -> Packet \cup {ZeroPacket}]
    BY <2>1, <2>2
  <2>5. /\ eres' \in [Enqueuers -> JitError]
        /\ epc' \in [Enqueuers -> {"idle", "check", "insert", "answer"}]
        /\ etime' \in [Enqueuers -> Time]
    BY <2>1, <2>3 DEF Answer
  <2>6. nodes' \in Seq(Node)
    <3>1. Append(nodes, NodeOf(pkt)) \in Seq(Node)
      BY <2>2, DelayType
    <3> QED
      BY <2>1, <3>1, SortedType
  <2>7. num_beacon' \in 0 .. 255
    <3>1. num_beacon' \in {num_beacon, (num_beacon + 1) % 256}
      BY <2>1
    <3>2. (num_beacon + 1) % 256 \in 0 .. 255
      BY DEF TypeOK
    <3> QED
      BY <3>1, <3>2
  <2> QED
    BY <1>4, <2>4, <2>5, <2>6, <2>7 DEF Insert, jvars
<1>5. ASSUME NEW e \in Enqueuers, Return(e) PROVE TypeOK'
  BY <1>5, JitQueueAssumption DEF Return, jvars, JitError
<1>6. CASE JitTime
  BY <1>6 DEF JitTime, evars
<1>7. CASE PeekBegin
  BY <1>7 DEF PeekBegin, evars
<1>8. CASE PeekDrop
  <2>1. nodes # <<>>
    BY <1>8 DEF PeekDrop
  <2>2. TakeOut(nodes, scan) \in Seq(Node)
    BY <2>1, TakeOutType
  <2>3. nodes' \in Seq(Node)
    BY <1>8, <2>2, SortedType DEF PeekDrop
  <2>4. num_beacon' \in 0 .. 255
    BY <1>8, UncountType DEF PeekDrop
  <2> QED
    BY <1>8, <2>3, <2>4 DEF PeekDrop, evars
<1>9. CASE PeekScan
  BY <1>9 DEF PeekScan, evars
<1>10. CASE PeekEnd
  BY <1>10 DEF PeekEnd, evars
<1>11. CASE JitDequeue
  <2>1. CASE best > JIT_QUEUE_MAX \/ nodes = <<>>
    BY <1>11, <2>1 DEF JitDequeue, evars
  <2>2. CASE ~(best > JIT_QUEUE_MAX \/ nodes = <<>>)
    <3>1. TakeOut(nodes, best) \in Seq(Node)
      BY <2>2, TakeOutType
    <3>2. nodes' \in Seq(Node)
      BY <1>11, <2>2, <3>1, SortedType DEF JitDequeue
    <3>3. jpkt' \in Node
      BY <1>11, <2>2, NodeAtType DEF JitDequeue
    <3>4. num_beacon' \in 0 .. 255
      BY <1>11, <2>2, UncountType DEF JitDequeue
    <3> QED
      BY <1>11, <2>2, <3>2, <3>3, <3>4 DEF JitDequeue, evars
  <2> QED
    BY <2>1, <2>2
<1>12. CASE JitStatus
  <2>1. ZeroNode \in Node
    BY ZeroNodeType
  <2> QED
    BY <1>12, <2>1 DEF JitStatus, evars
<1>13. CASE JitSend
  <2>1. ZeroNode \in Node
    BY ZeroNodeType
  <2>2. [on |-> TRUE, count |-> jpkt.count, toa |-> jpkt.post]
          \in [on : BOOLEAN, count : Time, toa : Nat]
    BY DEF Node
  <2> QED
    BY <1>13, <2>1, <2>2 DEF JitSend, evars
<1>14. CASE UNCHANGED vars
  BY <1>14 DEF vars, evars, jvars
<1> QED
  BY <1>1, <1>2, <1>3, <1>4, <1>5, <1>6, <1>7, <1>8, <1>9, <1>10, <1>11,
     <1>12, <1>13, <1>14 DEF Next, Enqueue, Jit

\* The queue only ever holds nodes with a valid type, departure and reserved
\* delays, and the 8-bit beacon counter, the threads and the radio keep their
\* types, whatever the threads do.
THEOREM TypeCorrect == Spec => []TypeOK
<1>1. Init => TypeOK
  BY InitType
<1>2. TypeOK /\ [Next]_vars => TypeOK'
  BY NextType
<1> QED
  BY <1>1, <1>2, PTL DEF Spec

-----------------------------------------------------------------------------
(* No overlap. *)

\* NoOverlap of an arbitrary sequence of nodes.
Apart(q) == \A i, j \in DOMAIN q : i # j => Clear(q[i], q[j])

LEMMA ClearSymmetric ==
  ASSUME NEW p \in Node, NEW q \in Node, Clear(p, q)
  PROVE  Clear(q, p)
BY DEF Clear, CollisionTest

\* A packet that passes criterion 3 against a node is clear of it: the code
\* tests with the full pre-delay of the new packet and the same exception for
\* the guard time of a queued beacon.
LEMMA AcceptedIsClear ==
  ASSUME NEW pkt \in Packet \cup {ZeroPacket}, NEW n \in Node,
         ~CollidesWith(pkt, n)
  PROVE  Clear(NodeOf(pkt), n)
<1> DEFINE p == NodeOf(pkt)
<1>1. /\ p.type = pkt.type /\ p.count = pkt.count
      /\ p.pre = PreDelay(pkt.type) /\ p.post = PostDelay(pkt)
  BY DEF NodeOf
<1>2. /\ p \in Node /\ p.pre \in Nat /\ p.post \in Nat /\ p.count \in Int
      /\ n.pre \in Nat /\ n.post \in Nat /\ n.count \in Int
  <2>1. p \in Node
    BY DelayType
  <2> QED
    BY <2>1 DEF Node, Time
<1>3. GuardedPre(n, p) = TargetPreDelay(pkt, n)
  BY <1>1 DEF GuardedPre, TargetPreDelay
<1>4. GuardedPre(n, p) \in Nat /\ GuardedPre(p, n) \in Nat
  BY <1>2, JitAssumption DEF GuardedPre
<1>5. GuardedPre(p, n) <= PreDelay(pkt.type)
  <2>1. CASE p.type = "BEACON" /\ n.type \in {"A", "C"}
    <3>1. GuardedPre(p, n) = TX_START_DELAY
      BY <2>1 DEF GuardedPre
    <3>2. PreDelay(pkt.type) = TX_START_DELAY + BEACON_GUARD + TX_JIT_DELAY
      BY <1>1, <2>1 DEF PreDelay
    <3> QED
      BY <3>1, <3>2, JitAssumption
  <2>2. CASE ~(p.type = "BEACON" /\ n.type \in {"A", "C"})
    BY <1>1, <1>2, <2>2 DEF GuardedPre
  <2> QED
    BY <2>1, <2>2
<1>6. Sub(p.count, n.count) \in Nat /\ Sub(n.count, p.count) \in Nat
  <2>1. Sub(p.count, n.count) \in Time /\ Sub(n.count, p.count) \in Time
    BY <1>2, SubType
  <2> QED
    BY <2>1, JitAssumption DEF Time
<1>7. /\ ~(Sub(p.count, n.count) <= p.pre + n.post + TX_MARGIN_DELAY)
      /\ ~(Sub(n.count, p.count) <= GuardedPre(n, p) + p.post + TX_MARGIN_DELAY)
  BY <1>1, <1>3 DEF CollidesWith, CollisionTest
<1>8. TX_MARGIN_DELAY \in Nat
  BY JitAssumption
<1>9. ~(Sub(p.count, n.count) <= GuardedPre(p, n) + n.post + TX_MARGIN_DELAY)
  BY <1>1, <1>2, <1>4, <1>5, <1>6, <1>7, <1>8
<1> QED
  BY <1>7, <1>9 DEF Clear, CollisionTest

LEMMA AcceptedVerdict ==
  ASSUME NEW q, NEW t, NEW pkt, Verdict(q, t, pkt) = "OK"
  PROVE  \A i \in DOMAIN q : ~CollidesWith(pkt, q[i])
BY DEF Verdict

LEMMA AppendApart ==
  ASSUME NEW q \in Seq(Node), NEW n \in Node, Apart(q),
         \A i \in DOMAIN q : Clear(n, q[i])
  PROVE  Apart(Append(q, n))
<1> DEFINE r == Append(q, n)
<1> SUFFICES ASSUME NEW i \in DOMAIN r, NEW j \in DOMAIN r, i # j
             PROVE  Clear(r[i], r[j])
  BY DEF Apart
<1>1. CASE i \in DOMAIN q /\ j \in DOMAIN q
  BY <1>1 DEF Apart
<1>2. CASE i \notin DOMAIN q
  <2>1. r[i] = n /\ j \in DOMAIN q /\ r[j] = q[j]
    BY <1>2
  <2> QED
    BY <2>1
<1>3. CASE j \notin DOMAIN q
  <2>1. r[j] = n /\ i \in DOMAIN q /\ r[i] = q[i]
    BY <1>3
  <2> QED
    BY <2>1, ClearSymmetric
<1> QED
  BY <1>1, <1>2, <1>3

LEMMA SortedApart ==
  ASSUME NEW q \in Seq(Node), NEW s \in Sorted(q), Apart(q)
  PROVE  Apart(s)
<1>1. PICK p \in Perms(Len(q)) : \A i \in DOMAIN s : s[i] = q[p[i]]
  BY SortedType
<1>2. DOMAIN s = 1 .. Len(q) /\ DOMAIN q = 1 .. Len(q)
  BY SortedType
<1> SUFFICES ASSUME NEW i \in DOMAIN s, NEW j \in DOMAIN s, i # j
             PROVE  Clear(s[i], s[j])
  BY DEF Apart
<1>3. p[i] \in DOMAIN q /\ p[j] \in DOMAIN q /\ p[i] # p[j]
  BY <1>2 DEF Perms
<1> QED
  BY <1>1, <1>3 DEF Apart

LEMMA TakeOutApart ==
  ASSUME NEW q \in Seq(Node), q # <<>>, NEW n \in Nat, Apart(q)
  PROVE  Apart(TakeOut(q, n))
<1> DEFINE r == TakeOut(q, n)
           from(i) == IF i = n THEN Len(q) ELSE i
<1>1. DOMAIN r = 1 .. (Len(q) - 1) /\ DOMAIN q = 1 .. Len(q) /\ Len(q) \in Nat \ {0}
  BY DEF TakeOut
<1> SUFFICES ASSUME NEW i \in DOMAIN r, NEW j \in DOMAIN r, i # j
             PROVE  Clear(r[i], r[j])
  BY DEF Apart
<1>2. r[i] = q[from(i)] /\ r[j] = q[from(j)]
  BY DEF TakeOut
<1>3. from(i) \in DOMAIN q /\ from(j) \in DOMAIN q /\ from(i) # from(j)
  BY <1>1
<1> QED
  BY <1>2, <1>3 DEF Apart

LEMMA NextNoOverlap == TypeOK /\ NoOverlap /\ [Next]_vars => NoOverlap'
<1> SUFFICES ASSUME TypeOK, Apart(nodes), [Next]_vars
             PROVE  Apart(nodes')
  BY DEF NoOverlap, Apart
<1>1. nodes \in Seq(Node) /\ scan \in Nat /\ best \in Nat
  BY DEF TypeOK
<1>2. ASSUME NEW e \in Enqueuers, Insert(e) PROVE Apart(nodes')
  <2>1. PICK pkt \in Scheduled(nodes, etime[e], epkt[e]) :
          \/ /\ Verdict(nodes, etime[e], pkt) = "OK"
             /\ nodes' \in Sorted(Append(nodes, NodeOf(pkt)))
          \/ UNCHANGED nodes
    BY <1>2 DEF Insert
  <2>2. CASE UNCHANGED nodes
    BY <2>2
  <2>3. CASE /\ Verdict(nodes, etime[e], pkt) = "OK"
             /\ nodes' \in Sorted(Append(nodes, NodeOf(pkt)))
    <3>1. pkt \in Packet \cup {ZeroPacket}
      BY ScheduledType DEF TypeOK
    <3>2. NodeOf(pkt) \in Node
      BY <3>1, DelayType
    <3>3. \A i \in DOMAIN nodes : Clear(NodeOf(pkt), nodes[i])
      <4>1. ASSUME NEW i \in DOMAIN nodes
            PROVE  Clear(NodeOf(pkt), nodes[i])
        <5>1. nodes[i] \in Node
          BY <1>1
        <5>2. ~CollidesWith(pkt, nodes[i])
          BY <2>3, AcceptedVerdict
        <5> QED
          BY <3>1, <5>1, <5>2, AcceptedIsClear
      <4> QED
        BY <4>1
    <3>4. Apart(Append(nodes, NodeOf(pkt)))
      BY <1>1, <3>2, <3>3, AppendApart
    <3>5. Append(nodes, NodeOf(pkt)) \in Seq(Node)
      BY <1>1, <3>2
    <3> QED
      BY <2>3, <3>4, <3>5, SortedApart
  <2> QED
    BY <2>1, <2>2, <2>3
<1>3. CASE PeekDrop
  <2>1. nodes # <<>>
    BY <1>3 DEF PeekDrop
  <2>2. TakeOut(nodes, scan) \in Seq(Node) /\ Apart(TakeOut(nodes, scan))
    BY <1>1, <2>1, TakeOutType, TakeOutApart
  <2> QED
    BY <1>3, <2>2, SortedApart DEF PeekDrop
<1>4. CASE JitDequeue
  <2>1. CASE best > JIT_QUEUE_MAX \/ nodes = <<>>
    BY <1>4, <2>1 DEF JitDequeue
  <2>2. CASE ~(best > JIT_QUEUE_MAX \/ nodes = <<>>)
    <3>1. TakeOut(nodes, best) \in Seq(Node) /\ Apart(TakeOut(nodes, best))
      BY <1>1, <2>2, TakeOutType, TakeOutApart
    <3> QED
      BY <1>4, <2>2, <3>1, SortedApart DEF JitDequeue
  <2> QED
    BY <2>1, <2>2
<1>5. CASE \/ Tick \/ JitTime \/ PeekBegin \/ PeekScan \/ PeekEnd
           \/ JitStatus \/ JitSend \/ UNCHANGED vars
           \/ \E e \in Enqueuers : Request(e) \/ CheckFull(e) \/ Return(e)
  <2>1. UNCHANGED nodes
    BY <1>5 DEF Tick, JitTime, PeekBegin, PeekScan, PeekEnd, JitStatus,
                JitSend, vars, Request, CheckFull, Return
  <2> QED
    BY <2>1
<1> QED
  BY <1>2, <1>3, <1>4, <1>5 DEF Next, Enqueue, Jit

\* No two queued packets ever overlap on the air, for any number of
\* downstream threads with counter values of any age, any packets, any delays
\* and any counter width: jit_enqueue's criterion 3 is kept by the sort, by
\* jit_dequeue and by the drops of jit_peek.
THEOREM NeverOverlapping == Spec => []NoOverlap
<1>1. Init => TypeOK /\ NoOverlap
  <2>1. Init => NoOverlap
    BY DEF Init, NoOverlap
  <2> QED
    BY <2>1, InitType
<1>2. TypeOK /\ NoOverlap /\ [Next]_vars => (TypeOK /\ NoOverlap)'
  BY NextType, NextNoOverlap
<1> QED
  BY <1>1, <1>2, PTL DEF Spec

-----------------------------------------------------------------------------
(* The bound of the array, with a single enqueueing thread. *)

\* Why a node is still free when the one thread inserts: nothing was inserted
\* since it found the queue not full.
CapInv ==
  /\ Len(nodes) <= JIT_QUEUE_MAX
  /\ \A e \in Enqueuers : epc[e] = "insert" => Len(nodes) < JIT_QUEUE_MAX

LEMMA NextCap ==
  ASSUME \A e, f \in Enqueuers : e = f
  PROVE  TypeOK /\ CapInv /\ [Next]_vars => CapInv'
<1> SUFFICES ASSUME TypeOK, CapInv, [Next]_vars PROVE CapInv'
  OBVIOUS
<1>1. /\ nodes \in Seq(Node) /\ Len(nodes) \in Nat /\ JIT_QUEUE_MAX \in Nat
      /\ scan \in Nat /\ best \in Nat
      /\ epc \in [Enqueuers -> {"idle", "check", "insert", "answer"}]
  BY JitAssumption DEF TypeOK
<1>2. ASSUME NEW e \in Enqueuers, CheckFull(e) PROVE CapInv'
  <2>1. UNCHANGED nodes
    BY <1>2 DEF CheckFull
  <2>2. \/ epc' = [epc EXCEPT ![e] = "answer"]
        \/ ~IsFull /\ epc' = [epc EXCEPT ![e] = "insert"]
    BY <1>2 DEF CheckFull, Answer
  <2> QED
    BY <1>1, <2>1, <2>2 DEF CapInv, IsFull
<1>3. ASSUME NEW e \in Enqueuers, Insert(e) PROVE CapInv'
  <2>1. epc[e] = "insert" /\ epc' = [epc EXCEPT ![e] = "answer"]
    BY <1>3 DEF Insert, Answer
  <2>2. Len(nodes') <= Len(nodes) + 1
    <3>1. PICK pkt \in Scheduled(nodes, etime[e], epkt[e]) :
            \/ nodes' \in Sorted(Append(nodes, NodeOf(pkt)))
            \/ UNCHANGED nodes
      BY <1>3 DEF Insert
    <3>2. NodeOf(pkt) \in Node
      BY ScheduledType, DelayType DEF TypeOK
    <3>3. /\ Append(nodes, NodeOf(pkt)) \in Seq(Node)
          /\ Len(Append(nodes, NodeOf(pkt))) = Len(nodes) + 1
      BY <1>1, <3>2
    <3>4. CASE nodes' \in Sorted(Append(nodes, NodeOf(pkt)))
      <4>1. Len(nodes') = Len(nodes) + 1
        BY <3>3, <3>4, SortedType
      <4> QED
        BY <1>1, <4>1
    <3>5. CASE UNCHANGED nodes
      BY <1>1, <3>5
    <3> QED
      BY <3>1, <3>4, <3>5
  <2>3. Len(nodes) + 1 <= JIT_QUEUE_MAX
    BY <1>1, <2>1 DEF CapInv
  <2>4. Len(nodes') \in Nat
    BY NextType DEF TypeOK
  <2>5. Len(nodes') <= JIT_QUEUE_MAX
    BY <1>1, <2>2, <2>3, <2>4
  <2>6. \A f \in Enqueuers : epc'[f] # "insert"
    BY <1>1, <2>1
  <2> QED
    BY <2>5, <2>6 DEF CapInv
<1>4. CASE PeekDrop
  <2>1. nodes # <<>>
    BY <1>4 DEF PeekDrop
  <2>2. /\ TakeOut(nodes, scan) \in Seq(Node)
        /\ Len(TakeOut(nodes, scan)) = Len(nodes) - 1
    BY <1>1, <2>1, TakeOutType
  <2>3. Len(nodes') = Len(nodes) - 1 /\ UNCHANGED epc
    BY <1>4, <2>2, SortedType DEF PeekDrop, evars
  <2> QED
    BY <1>1, <2>3 DEF CapInv
<1>5. CASE JitDequeue
  <2>1. UNCHANGED epc
    BY <1>5 DEF JitDequeue, evars
  <2>2. CASE best > JIT_QUEUE_MAX \/ nodes = <<>>
    BY <1>5, <2>1, <2>2 DEF JitDequeue, CapInv
  <2>3. CASE ~(best > JIT_QUEUE_MAX \/ nodes = <<>>)
    <3>1. /\ TakeOut(nodes, best) \in Seq(Node)
          /\ Len(TakeOut(nodes, best)) = Len(nodes) - 1
      BY <1>1, <2>3, TakeOutType
    <3>2. Len(nodes') = Len(nodes) - 1
      BY <1>5, <2>3, <3>1, SortedType DEF JitDequeue
    <3> QED
      BY <1>1, <2>1, <3>2 DEF CapInv
  <2> QED
    BY <2>2, <2>3
<1>6. CASE \/ Tick \/ JitTime \/ PeekBegin \/ PeekScan \/ PeekEnd
           \/ JitStatus \/ JitSend \/ UNCHANGED vars
  <2>1. UNCHANGED <<nodes, epc>>
    BY <1>6 DEF Tick, JitTime, PeekBegin, PeekScan, PeekEnd, JitStatus,
                JitSend, vars, evars
  <2> QED
    BY <2>1 DEF CapInv
<1>7. ASSUME NEW e \in Enqueuers, Request(e) \/ Return(e) PROVE CapInv'
  <2>1. UNCHANGED nodes
    BY <1>7 DEF Request, Return
  <2>2. epc' = [epc EXCEPT ![e] = "check"] \/ epc' = [epc EXCEPT ![e] = "idle"]
    BY <1>7 DEF Request, Return
  <2> QED
    BY <1>1, <2>1, <2>2 DEF CapInv
<1> QED
  BY <1>2, <1>3, <1>4, <1>5, <1>6, <1>7 DEF Next, Enqueue, Jit

\* With a single downstream thread the array is never exceeded, although
\* jit_enqueue tests it outside the critical section: the test is only ever
\* stale in the safe direction.  (With two threads it is exceeded.)
THEOREM SingleThreadCapacity ==
  ASSUME \A e, f \in Enqueuers : e = f
  PROVE  Spec => []QueueCapacity
<1>1. Init => TypeOK /\ CapInv
  <2>1. Init => CapInv
    BY JitAssumption DEF Init, CapInv
  <2> QED
    BY <2>1, InitType
<1>2. TypeOK /\ CapInv /\ [Next]_vars => (TypeOK /\ CapInv)'
  BY NextType, NextCap
<1>3. CapInv => QueueCapacity
  BY DEF CapInv, QueueCapacity
<1> QED
  BY <1>1, <1>2, <1>3, PTL DEF Spec

-----------------------------------------------------------------------------
(* Counter arithmetic: times seen from one instant. *)

LEMMA SubValue ==
  ASSUME NEW a \in Time, NEW b \in Time
  PROVE  /\ Sub(a, b) = IF a >= b THEN a - b ELSE a - b + W
         /\ Sub(a, b) \in Nat /\ Sub(a, b) < W
<1>1. /\ W \in Nat \ {0} /\ a \in Nat /\ b \in Nat /\ a < W /\ b < W
  BY JitAssumption DEF Time
<1>2. CASE a >= b
  <2>1. a - b \in 0 .. (W - 1)
    BY <1>1, <1>2
  <2>2. (a - b) % W = a - b
    BY <1>1, <2>1
  <2> QED
    BY <1>1, <1>2, <2>1, <2>2 DEF Sub
<1>3. CASE a < b
  <2> DEFINE r == a - b + W
  <2>1. r \in 0 .. (W - 1) /\ a - b = (0 - 1) * W + r
    BY <1>1, <1>3
  <2>2. (a - b) % W = r
    BY <1>1, <2>1
  <2> QED
    BY <1>1, <1>3, <2>1, <2>2 DEF Sub
<1> QED
  BY <1>1, <1>2, <1>3

LEMMA SubSelf ==
  ASSUME NEW c \in Time
  PROVE  Sub(c, c) = 0
BY SubValue, JitAssumption DEF Time

\* A departure seen from a later instant is nearer by the time between.
LEMMA SubLater ==
  ASSUME NEW c \in Time, NEW a \in Time, NEW b \in Time
  PROVE  /\ Sub(c, b) + Sub(b, a) < W => Sub(c, a) = Sub(c, b) + Sub(b, a)
         /\ Sub(b, a) <= Sub(c, a) => Sub(c, b) = Sub(c, a) - Sub(b, a)
         /\ Sub(b, a) > Sub(c, a) => Sub(c, b) = Sub(c, a) - Sub(b, a) + W
<1>1. /\ W \in Nat \ {0} /\ a \in Nat /\ b \in Nat /\ c \in Nat /\ a < W /\ b < W /\ c < W
  BY JitAssumption DEF Time
<1>2. /\ Sub(c, a) = IF c >= a THEN c - a ELSE c - a + W
      /\ Sub(c, b) = IF c >= b THEN c - b ELSE c - b + W
      /\ Sub(b, a) = IF b >= a THEN b - a ELSE b - a + W
  BY SubValue
<1> QED
  BY <1>1, <1>2

LEMMA SubFrom ==
  ASSUME NEW c \in Time, NEW d \in Time, NEW t \in Time
  PROVE  Sub(c, d) = IF Sub(c, t) >= Sub(d, t) THEN Sub(c, t) - Sub(d, t)
                                               ELSE Sub(c, t) - Sub(d, t) + W
<1>1. Sub(c, t) \in Nat /\ Sub(d, t) \in Nat
  BY SubValue
<1>2. CASE Sub(d, t) <= Sub(c, t)
  BY <1>1, <1>2, SubLater
<1>3. CASE Sub(d, t) > Sub(c, t)
  BY <1>1, <1>3, SubLater
<1> QED
  BY <1>1, <1>2, <1>3

LEMMA SubShift ==
  ASSUME NEW c \in Time, NEW t \in Time, NEW d \in Nat, Sub(c, t) + d < W
  PROVE  /\ (c + d) % W \in Time
         /\ Sub((c + d) % W, t) = Sub(c, t) + d
<1> DEFINE u == (c + d) % W
           x == Sub(c, t)
<1>1. /\ W \in Nat \ {0} /\ c \in Nat /\ t \in Nat /\ c < W /\ t < W /\ d \in Nat
  BY JitAssumption DEF Time
<1>2. /\ x = IF c >= t THEN c - t ELSE c - t + W
      /\ x \in Nat /\ x + d < W
  BY SubValue
<1> HIDE DEF x
<1>3. d < W /\ c + d < 2 * W
  BY <1>1, <1>2
<1>4. u = IF c + d < W THEN c + d ELSE c + d - W
  <2>1. CASE c + d < W
    <3>1. c + d \in 0 .. (W - 1)
      BY <1>1, <2>1
    <3> QED
      BY <1>1, <2>1, <3>1
  <2>2. CASE ~(c + d < W)
    <3> DEFINE r == c + d - W
    <3>1. r \in 0 .. (W - 1) /\ c + d = 1 * W + r
      BY <1>1, <1>3, <2>2
    <3>2. (c + d) % W = r
      BY <1>1, <3>1
    <3> QED
      BY <2>2, <3>2
  <2> QED
    BY <2>1, <2>2
<1> HIDE DEF u
<1>5. u \in Time
  BY <1>1, <1>3, <1>4 DEF Time
<1>6. Sub(u, t) = IF u >= t THEN u - t ELSE u - t + W
  BY <1>5, SubValue
<1>7. Sub(u, t) = x + d
  <2>1. CASE c >= t /\ c + d < W
    BY <1>1, <1>2, <1>4, <1>6, <2>1
  <2>2. CASE c >= t /\ ~(c + d < W)
    <3>1. ~(u >= t)
      BY <1>1, <1>2, <1>4, <2>2
    <3> QED
      BY <1>1, <1>2, <1>4, <1>6, <2>2, <3>1
  <2>3. CASE ~(c >= t) /\ c + d < W
    <3>1. ~(u >= t)
      BY <1>1, <1>2, <1>4, <2>3
    <3> QED
      BY <1>1, <1>2, <1>4, <1>6, <2>3, <3>1
  <2>4. CASE ~(c >= t) /\ ~(c + d < W)
    <3>1. c - t + W + d < W /\ c + d >= W
      BY <1>1, <1>2, <2>4
    <3>2. ~(u >= t)
      BY <1>1, <1>4, <2>4, <3>1
    <3> QED
      BY <1>1, <1>2, <1>4, <1>6, <2>4, <3>1, <3>2
  <2> QED
    BY <2>1, <2>2, <2>3, <2>4
<1> QED
  BY <1>5, <1>7 DEF u, x

LEMMA SubTick ==
  ASSUME NEW a \in Time, NEW t \in Time
  PROVE  /\ (t + 1) % W \in Time
         /\ Sub((t + 1) % W, a) \in {0, Sub(t, a) + 1}
<1>1. /\ W \in Nat \ {0} /\ a \in Nat /\ t \in Nat /\ a < W /\ t < W
  BY JitAssumption DEF Time
<1> DEFINE u == (t + 1) % W
<1>2. u = IF t + 1 = W THEN 0 ELSE t + 1
  <2>1. CASE t + 1 = W
    BY <1>1, <2>1
  <2>2. CASE t + 1 # W
    <3>1. t + 1 \in 0 .. (W - 1)
      BY <1>1, <2>2
    <3> QED
      BY <1>1, <2>2, <3>1
  <2> QED
    BY <2>1, <2>2
<1>3. u \in Time
  BY <1>1, <1>2 DEF Time
<1> HIDE DEF u
<1>4. /\ Sub(u, a) = IF u >= a THEN u - a ELSE u - a + W
      /\ Sub(t, a) = IF t >= a THEN t - a ELSE t - a + W
  BY <1>3, SubValue
<1>5. Sub(u, a) \in {0, Sub(t, a) + 1}
  BY <1>1, <1>2, <1>4
<1> QED
  BY <1>3, <1>5 DEF u

LEMMA LeastNatural ==
  ASSUME NEW T \in SUBSET Nat, T # {}
  PROVE  \E n \in T : \A m \in T : n <= m
<1>1. IsWellFoundedOn(OpToRel(<, Nat), Nat)
  BY NatLessThanWellFounded
<1>2. PICK n \in T : \A m \in T : <<m, n>> \notin OpToRel(<, Nat)
  BY <1>1, WFMin
<1>3. \A m \in T : ~(m < n)
  BY <1>2 DEF OpToRel
<1> QED
  BY <1>3

\* The sort moves every node to one place.
LEMMA SortedPlaces ==
  ASSUME NEW q \in Seq(Node), NEW s \in Sorted(q)
  PROVE  \E p \in [DOMAIN s -> DOMAIN q] :
           /\ \A i \in DOMAIN s : s[i] = q[p[i]]
           /\ \A i, j \in DOMAIN s : p[i] = p[j] => i = j
           /\ \A k \in DOMAIN q : \E i \in DOMAIN s : p[i] = k
<1>1. s \in Seq(Node) /\ Len(s) = Len(q)
  BY SortedType
<1>2. PICK p \in Perms(Len(q)) : \A i \in DOMAIN s : s[i] = q[p[i]]
  BY SortedType
<1>3. /\ DOMAIN s = 1 .. Len(q) /\ DOMAIN q = 1 .. Len(q) /\ Len(q) \in Nat
  BY <1>1
<1>4. /\ p \in [1 .. Len(q) -> 1 .. Len(q)]
      /\ \A i, j \in 1 .. Len(q) : p[i] = p[j] => i = j
  BY DEF Perms
<1>5. p \in Surjection(1 .. Len(q), 1 .. Len(q))
  <2> DEFINE S == 1 .. Len(q)
  <2>1. IsFiniteSet(S)
    <3>1. 1 \in Int /\ Len(q) \in Int
      BY <1>3
    <3> QED
      BY <3>1, FS_Interval
  <2>2. p \in Injection(S, S)
    BY <1>4 DEF Injection, IsInjective
  <2> HIDE DEF S
  <2>3. p \in Surjection(S, S)
    BY <2>1, <2>2, FS_Injection
  <2> QED
    BY <2>3 DEF S
<1>6. \A k \in 1 .. Len(q) : \E i \in 1 .. Len(q) : p[i] = k
  BY <1>5 DEF Surjection
<1>7. /\ p \in [DOMAIN s -> DOMAIN q]
      /\ \A i, j \in DOMAIN s : p[i] = p[j] => i = j
      /\ \A k \in DOMAIN q : \E i \in DOMAIN s : p[i] = k
  BY <1>3, <1>4, <1>6
<1> QED
  BY <1>2, <1>7

\* compare() orders departures less than half the counter's range after one
\* instant as that instant sees them, and neighbours in order are all in order.
Within(q, t) == \A i \in DOMAIN q : 2 * Sub(q[i].count, t) < W

InOrder(q, t) ==
  \A i, j \in DOMAIN q : i < j => Sub(q[i].count, t) <= Sub(q[j].count, t)

LEMMA SortedAscending ==
  ASSUME NEW q \in Seq(Node), NEW s \in Sorted(q), NEW t \in Time, Within(q, t)
  PROVE  InOrder(s, t)
<1> DEFINE a(i) == Sub(s[i].count, t)
<1>1. s \in Seq(Node) /\ Len(s) = Len(q) /\ Len(s) \in Nat /\ DOMAIN s = 1 .. Len(s)
  BY SortedType
<1>2. \A i \in DOMAIN s : a(i) \in Nat /\ 2 * a(i) < W /\ s[i].count \in Time
  <2> SUFFICES ASSUME NEW i \in DOMAIN s
               PROVE  a(i) \in Nat /\ 2 * a(i) < W /\ s[i].count \in Time
    OBVIOUS
  <2>1. s[i].count \in Time
    <3>1. s[i] \in Node
      BY <1>1
    <3> QED
      BY <3>1 DEF Node
  <2>2. PICK k \in DOMAIN q : s[i] = q[k]
    BY SortedPlaces
  <2> QED
    BY <2>1, <2>2, SubValue DEF Within
<1>3. ASSUME NEW i \in 1 .. (Len(s) - 1) PROVE a(i) <= a(i + 1)
  <2>1. i \in DOMAIN s /\ i + 1 \in DOMAIN s
    BY <1>1
  <2>2. NotAfter(s[i], s[i + 1])
    BY <1>1 DEF Sorted
  <2>3. /\ a(i) \in Nat /\ a(i + 1) \in Nat /\ 2 * a(i) < W /\ W \in Nat
        /\ s[i].count \in Time /\ s[i + 1].count \in Time
    BY <1>2, <2>1, JitAssumption
  <2>4. a(i + 1) <= a(i) => Sub(s[i].count, s[i + 1].count) = a(i) - a(i + 1)
    BY <2>3, SubLater
  <2> HIDE DEF a
  <2>5. a(i) > a(i + 1) => FALSE
    BY <2>2, <2>3, <2>4 DEF NotAfter
  <2> QED
    BY <2>3, <2>5
<1> HIDE DEF a
<1> SUFFICES ASSUME NEW i \in DOMAIN s PROVE \A j \in DOMAIN s : i < j => a(i) <= a(j)
  BY DEF a, InOrder
<1> DEFINE T == {j \in DOMAIN s : i < j /\ ~(a(i) <= a(j))}
<1> SUFFICES ASSUME T # {} PROVE FALSE
  OBVIOUS
<1>4. PICK j \in T : \A m \in T : j <= m
  <2>1. T \in SUBSET Nat
    BY <1>1
  <2> HIDE DEF T
  <2> QED
    BY <2>1, LeastNatural
<1>5. i \in Nat /\ j \in Nat /\ j - 1 \in 1 .. (Len(s) - 1) /\ (j - 1) + 1 = j /\ j - 1 >= i
  BY <1>1, <1>4
<1>6. a(j - 1) <= a(j)
  <2>1. a(j - 1) <= a((j - 1) + 1)
    BY <1>3, <1>5
  <2> QED
    BY <1>5, <2>1
<1>7. a(i) <= a(j - 1)
  <2>1. CASE j - 1 = i
    <3>1. a(i) \in Nat
      BY <1>2
    <3> QED
      BY <2>1, <3>1
  <2>2. CASE j - 1 # i
    <3>1. j - 1 \in DOMAIN s /\ j - 1 > i /\ j - 1 \notin T
      BY <1>1, <1>4, <1>5, <2>2
    <3> QED
      BY <3>1
  <2> QED
    BY <2>1, <2>2
<1>8. j \in DOMAIN s /\ ~(a(i) <= a(j))
  BY <1>4
<1>9. j - 1 \in DOMAIN s
  BY <1>1, <1>5
<1>10. a(i) \in Nat /\ a(j - 1) \in Nat /\ a(j) \in Nat
  BY <1>2, <1>8, <1>9
<1> QED
  BY <1>6, <1>7, <1>8, <1>10

LEMMA TakeOutPlaces ==
  ASSUME NEW q \in Seq(Node), NEW n \in DOMAIN q
  PROVE  /\ \A i \in DOMAIN TakeOut(q, n) : \E k \in DOMAIN q : k # n /\ TakeOut(q, n)[i] = q[k]
         /\ \A k \in DOMAIN q : k # n => \E i \in DOMAIN TakeOut(q, n) : TakeOut(q, n)[i] = q[k]
<1>1. /\ DOMAIN q = 1 .. Len(q) /\ Len(q) \in Nat /\ n \in 1 .. Len(q)
      /\ DOMAIN TakeOut(q, n) = 1 .. (Len(q) - 1)
      /\ \A i \in 1 .. (Len(q) - 1) : TakeOut(q, n)[i] = IF i = n THEN q[Len(q)] ELSE q[i]
  BY DEF TakeOut
<1>2. ASSUME NEW i \in 1 .. (Len(q) - 1)
      PROVE  \E k \in 1 .. Len(q) : k # n /\ TakeOut(q, n)[i] = q[k]
  <2>1. CASE i = n
    <3>1. Len(q) # n /\ Len(q) \in 1 .. Len(q)
      BY <1>1, <2>1
    <3> QED
      BY <1>1, <2>1, <3>1
  <2>2. CASE i # n
    BY <1>1, <2>2
  <2> QED
    BY <2>1, <2>2
<1>3. ASSUME NEW k \in 1 .. Len(q), k # n
      PROVE  \E i \in 1 .. (Len(q) - 1) : TakeOut(q, n)[i] = q[k]
  <2>1. CASE k = Len(q)
    <3>1. n \in 1 .. (Len(q) - 1)
      BY <1>1, <1>3, <2>1
    <3>2. TakeOut(q, n)[n] = q[k]
      BY <1>1, <2>1, <3>1
    <3> QED
      BY <3>1, <3>2
  <2>2. CASE k # Len(q)
    <3>1. k \in 1 .. (Len(q) - 1)
      <4> DEFINE L == Len(q)
      <4>1. L \in Nat /\ k \in 1 .. L /\ k # L
        BY <1>1, <2>2
      <4> HIDE DEF L
      <4>2. k \in 1 .. (L - 1)
        BY <4>1
      <4> QED
        BY <4>2 DEF L
    <3>2. TakeOut(q, n)[k] = q[k]
      BY <1>1, <1>3, <3>1
    <3> QED
      BY <3>1, <3>2
  <2> QED
    BY <2>1, <2>2
<1> QED
  BY <1>1, <1>2, <1>3

\* The only node due stays the first one through the sort.
LEMMA DueStaysFirst ==
  ASSUME NEW q \in Seq(Node), NEW s \in Sorted(q), NEW t \in Time, NEW k \in DOMAIN q,
         NEW D \in Nat, Sub(q[k].count, t) < D,
         \A i \in DOMAIN q : i # k => Sub(q[i].count, t) >= D,
         \A i, j \in DOMAIN s : i < j => Sub(s[i].count, t) <= Sub(s[j].count, t)
  PROVE  /\ 1 \in DOMAIN s /\ s[1] = q[k]
         /\ \A i \in DOMAIN s : i # 1 => Sub(s[i].count, t) >= D
<1>1. PICK p \in [DOMAIN s -> DOMAIN q] :
           /\ \A i \in DOMAIN s : s[i] = q[p[i]]
           /\ \A i, j \in DOMAIN s : p[i] = p[j] => i = j
           /\ \A j \in DOMAIN q : \E i \in DOMAIN s : p[i] = j
  BY SortedPlaces
<1>2. s \in Seq(Node)
  BY SortedType
<1>3. \A i \in DOMAIN s : Sub(s[i].count, t) \in Nat
  <2> TAKE i \in DOMAIN s
  <2>1. s[i] \in Node
    BY <1>2
  <2>2. s[i].count \in Time
    BY <2>1 DEF Node
  <2> QED
    BY <2>2, SubValue
<1>4. PICK i \in DOMAIN s : p[i] = k
  BY <1>1
<1>5. 1 \in DOMAIN s /\ i \in Nat /\ (i = 1 \/ 1 < i)
  BY <1>2
<1>6. i = 1
  <2> SUFFICES ASSUME 1 < i PROVE FALSE
    BY <1>5
  <2>1. Sub(s[1].count, t) <= Sub(s[i].count, t)
    BY <1>5
  <2>2. Sub(s[i].count, t) < D
    BY <1>1, <1>4
  <2>3. Sub(s[1].count, t) < D
    BY <1>3, <1>5, <2>1, <2>2
  <2>4. p[1] = k
    <3>1. s[1] = q[p[1]] /\ p[1] \in DOMAIN q
      BY <1>1, <1>5
    <3>2. ~(Sub(s[1].count, t) >= D)
      BY <1>3, <1>5, <2>3
    <3> QED
      BY <3>1, <3>2
  <2> QED
    BY <1>1, <1>4, <1>5, <2>4
<1>7. \A j \in DOMAIN s : j # 1 => p[j] # k
  BY <1>1, <1>4, <1>6
<1>8. \A j \in DOMAIN s : j # 1 => Sub(s[j].count, t) >= D
  BY <1>1, <1>7
<1> QED
  BY <1>1, <1>4, <1>6, <1>8

-----------------------------------------------------------------------------
(* Where the nodes of the queue come from. *)

\* The nodes after a step were there before it, or are the packet that an
\* enqueuer in its critical section has just had accepted.
LEMMA NodesFrom ==
  ASSUME TypeOK, [Next]_vars, NEW i \in DOMAIN nodes'
  PROVE  \/ \E k \in DOMAIN nodes : nodes'[i] = nodes[k]
         \/ \E e \in Enqueuers : \E pkt \in Scheduled(nodes, etime[e], epkt[e]) :
              /\ epc[e] = "insert"
              /\ Verdict(nodes, etime[e], pkt) = "OK"
              /\ nodes'[i] = NodeOf(pkt)
<1> DEFINE Old == \E k \in DOMAIN nodes : nodes'[i] = nodes[k]
<1>1. nodes \in Seq(Node) /\ scan \in Nat /\ best \in Nat
  BY DEF TypeOK
<1>2. ASSUME NEW e \in Enqueuers, Insert(e)
      PROVE  \/ Old
             \/ \E pkt \in Scheduled(nodes, etime[e], epkt[e]) :
                  /\ epc[e] = "insert"
                  /\ Verdict(nodes, etime[e], pkt) = "OK"
                  /\ nodes'[i] = NodeOf(pkt)
  <2>1. PICK pkt \in Scheduled(nodes, etime[e], epkt[e]) :
          \/ /\ Verdict(nodes, etime[e], pkt) = "OK"
             /\ nodes' \in Sorted(Append(nodes, NodeOf(pkt)))
          \/ UNCHANGED nodes
    BY <1>2 DEF Insert
  <2>2. CASE UNCHANGED nodes
    BY <2>2
  <2>3. CASE /\ Verdict(nodes, etime[e], pkt) = "OK"
             /\ nodes' \in Sorted(Append(nodes, NodeOf(pkt)))
    <3> DEFINE n == NodeOf(pkt)
               q == Append(nodes, n)
    <3>1. n \in Node
      BY ScheduledType, DelayType DEF TypeOK
    <3>2. q \in Seq(Node)
      BY <1>1, <3>1
    <3>3. PICK k \in DOMAIN q : nodes'[i] = q[k]
      <4>1. nodes' \in Sorted(q)
        BY <2>3
      <4> HIDE DEF q
      <4> QED
        BY <3>2, <4>1, SortedPlaces
    <3>4. q[k] = n \/ (k \in DOMAIN nodes /\ q[k] = nodes[k])
      BY <1>1, <3>1
    <3>5. epc[e] = "insert"
      BY <1>2 DEF Insert
    <3> QED
      BY <2>3, <3>3, <3>4, <3>5
  <2> QED
    BY <2>1, <2>2, <2>3
<1>3. ASSUME NEW m \in DOMAIN nodes, nodes' \in Sorted(TakeOut(nodes, m))
      PROVE  Old
  <2>1. TakeOut(nodes, m) \in Seq(Node)
    <3>1. nodes # <<>> /\ m \in Nat
      BY <1>1
    <3> QED
      BY <1>1, <3>1, TakeOutType
  <2>2. PICK j \in DOMAIN TakeOut(nodes, m) : nodes'[i] = TakeOut(nodes, m)[j]
    BY <1>3, <2>1, SortedPlaces
  <2> QED
    BY <1>1, <2>2, TakeOutPlaces
<1>4. CASE PeekDrop
  BY <1>3, <1>4 DEF PeekDrop
<1>5. CASE JitDequeue
  <2>1. CASE UNCHANGED nodes
    BY <2>1
  <2>2. CASE nodes # <<>> /\ nodes' \in Sorted(TakeOut(nodes, best))
    <3>1. CASE best \in DOMAIN nodes
      BY <1>3, <2>2, <3>1
    <3>2. CASE best \notin DOMAIN nodes
      <4>1. TakeOut(nodes, best) \in Seq(Node)
        BY <1>1, <2>2, TakeOutType
      <4>2. PICK j \in DOMAIN TakeOut(nodes, best) : nodes'[i] = TakeOut(nodes, best)[j]
        BY <2>2, <4>1, SortedPlaces
      <4>3. j \in DOMAIN nodes /\ TakeOut(nodes, best)[j] = nodes[j]
        <5>1. j \in 1 .. (Len(nodes) - 1) /\ DOMAIN nodes = 1 .. Len(nodes)
          BY <1>1 DEF TakeOut
        <5>2. j \in DOMAIN nodes
          BY <1>1, <5>1
        <5> QED
          BY <3>2, <5>1, <5>2 DEF TakeOut
      <4> QED
        BY <4>2, <4>3
    <3> QED
      BY <3>1, <3>2
  <2> QED
    BY <1>5, <2>1, <2>2 DEF JitDequeue
<1>6. CASE \/ Tick \/ JitTime \/ PeekBegin \/ PeekScan \/ PeekEnd
           \/ JitStatus \/ JitSend \/ UNCHANGED vars
           \/ \E e \in Enqueuers : Request(e) \/ CheckFull(e) \/ Return(e)
  <2>1. UNCHANGED nodes
    BY <1>6 DEF Tick, JitTime, PeekBegin, PeekScan, PeekEnd, JitStatus,
                JitSend, vars, Request, CheckFull, Return
  <2> QED
    BY <2>1
<1> QED
  BY <1>2, <1>4, <1>5, <1>6 DEF Next, Enqueue, Jit

\* The kinds of nodes: only types that were requested, each with the delays
\* reserved for its type and its time on air.
OfKind(n) ==
  /\ n.type \in Types
  /\ n.pre = PreDelay(n.type)
  /\ n.type = "BEACON" => n.post = BEACON_RESERVED
  /\ n.type # "BEACON" => n.post \in ToA

KindInv ==
  /\ \A i \in DOMAIN nodes : OfKind(nodes[i])
  /\ \A e \in Enqueuers :
       epc[e] \in {"check", "insert"} => epkt[e].type \in Types /\ epkt[e].toa \in ToA

LEMMA ScheduledKind ==
  ASSUME NEW q \in Seq(Node), NEW t \in Time,
         NEW pkt \in Packet \cup {ZeroPacket}, NEW s \in Scheduled(q, t, pkt)
  PROVE  s.type = pkt.type /\ s.toa = pkt.toa
<1>1. CASE pkt.type = "C"
  <2>1. pkt \in Packet
    BY <1>1 DEF ZeroPacket
  <2>2. PICK slot : s = [pkt EXCEPT !.count = slot]
    BY <1>1 DEF Scheduled
  <2> QED
    BY <2>1, <2>2 DEF Packet
<1>2. CASE pkt.type # "C"
  BY <1>2 DEF Scheduled
<1> QED
  BY <1>1, <1>2

LEMMA NextKind == TypeOK /\ KindInv /\ [Next]_vars => KindInv'
<1> SUFFICES ASSUME TypeOK, KindInv, [Next]_vars PROVE KindInv'
  OBVIOUS
<1>0. /\ nodes \in Seq(Node) /\ etime \in [Enqueuers -> Time]
      /\ epkt \in [Enqueuers -> Packet \cup {ZeroPacket}]
      /\ epc \in [Enqueuers -> {"idle", "check", "insert", "answer"}]
  BY DEF TypeOK
<1>1. ASSUME NEW i \in DOMAIN nodes'
      PROVE  OfKind(nodes'[i])
  <2>1. CASE \E k \in DOMAIN nodes : nodes'[i] = nodes[k]
    BY <2>1 DEF KindInv
  <2>2. ASSUME NEW e \in Enqueuers, NEW pkt \in Scheduled(nodes, etime[e], epkt[e]),
               epc[e] = "insert", nodes'[i] = NodeOf(pkt)
        PROVE  OfKind(nodes'[i])
    <3>1. pkt.type = epkt[e].type /\ pkt.toa = epkt[e].toa
      BY <1>0, ScheduledKind
    <3>2. epkt[e].type \in Types /\ epkt[e].toa \in ToA
      BY <2>2 DEF KindInv
    <3> QED
      BY <2>2, <3>1, <3>2 DEF NodeOf, PostDelay, OfKind
  <2> QED
    BY <2>1, <2>2, NodesFrom
<1>2. ASSUME NEW e \in Enqueuers, epc'[e] \in {"check", "insert"}
      PROVE  epkt'[e].type \in Types /\ epkt'[e].toa \in ToA
  <2>1. ASSUME NEW f \in Enqueuers, Request(f)
        PROVE  epkt'[e].type \in Types /\ epkt'[e].toa \in ToA
    <3>1. PICK type \in Types, count \in Departures \cup BeaconSlots, toa \in ToA :
            epkt' = [epkt EXCEPT ![f] = [type |-> type, count |-> count, toa |-> toa]]
      BY <2>1 DEF Request
    <3>2. epc' = [epc EXCEPT ![f] = "check"]
      BY <2>1 DEF Request
    <3> QED
      BY <1>0, <1>2, <3>1, <3>2 DEF KindInv
  <2>2. ASSUME NEW f \in Enqueuers, CheckFull(f)
        PROVE  epkt'[e].type \in Types /\ epkt'[e].toa \in ToA
    <3>1. epkt' = epkt /\ epc[f] = "check"
      BY <2>2 DEF CheckFull, Answer
    <3>2. epc' = [epc EXCEPT ![f] = "answer"] \/ epc' = [epc EXCEPT ![f] = "insert"]
      BY <2>2 DEF CheckFull, Answer
    <3> QED
      BY <1>0, <1>2, <3>1, <3>2 DEF KindInv
  <2>3. ASSUME NEW f \in Enqueuers, Insert(f) \/ Return(f)
        PROVE  epkt'[e].type \in Types /\ epkt'[e].toa \in ToA
    <3>1. PICK pkt : epkt' = [epkt EXCEPT ![f] = pkt]
      BY <2>3 DEF Insert, Return
    <3>2. epc' = [epc EXCEPT ![f] = "answer"] \/ epc' = [epc EXCEPT ![f] = "idle"]
      BY <2>3 DEF Insert, Return, Answer
    <3> QED
      BY <1>0, <1>2, <3>1, <3>2 DEF KindInv
  <2>4. CASE Tick \/ Jit \/ UNCHANGED vars
    <3>1. UNCHANGED <<epc, epkt>>
      BY <2>4 DEF Tick, Jit, JitTime, PeekBegin, PeekDrop, PeekScan, PeekEnd,
                  JitDequeue, JitStatus, JitSend, vars, evars
    <3> QED
      BY <1>2, <3>1 DEF KindInv
  <2> QED
    BY <2>1, <2>2, <2>3, <2>4 DEF Next, Enqueue
<1> QED
  BY <1>1, <1>2 DEF KindInv

\* The distance between two packets covers the first one's time on air and the
\* time to program the second, whose pre-delay contains TX_JIT_DELAY whatever
\* its type: only a class A or C downlink in front of a beacon is tested
\* against a shorter one.
THEOREM DownlinksHaveRoom == Spec => []RoomToProgram
<1>1. Init => TypeOK /\ NoOverlap /\ KindInv
  <2>1. Init => NoOverlap /\ KindInv
    BY DEF Init, NoOverlap, KindInv
  <2> QED
    BY <2>1, InitType
<1>2. TypeOK /\ NoOverlap /\ KindInv /\ [Next]_vars => (TypeOK /\ NoOverlap /\ KindInv)'
  BY NextType, NextNoOverlap, NextKind
<1>3. TypeOK /\ NoOverlap /\ KindInv => RoomToProgram
  <2> SUFFICES ASSUME TypeOK, NoOverlap, KindInv,
                      NEW i \in DOMAIN nodes, NEW j \in DOMAIN nodes, i # j,
                      ~(nodes[j].type = "BEACON" /\ nodes[i].type \in {"A", "C"})
               PROVE  Sub(nodes[j].count, nodes[i].count) > nodes[i].post + TX_JIT_DELAY
    BY DEF RoomToProgram
  <2>1. nodes[i] \in Node /\ nodes[j] \in Node
    BY DEF TypeOK
  <2>2. /\ nodes[i].count \in Time /\ nodes[j].count \in Time
        /\ nodes[i].post \in Nat /\ nodes[j].post \in Nat
    BY <2>1 DEF Node
  <2>3. GuardedPre(nodes[j], nodes[i]) = PreDelay(nodes[j].type)
    BY DEF KindInv, OfKind, GuardedPre
  <2>4. PreDelay(nodes[j].type) \in Nat /\ PreDelay(nodes[j].type) >= TX_START_DELAY + TX_JIT_DELAY
    BY JitAssumption DEF PreDelay
  <2>5. Clear(nodes[i], nodes[j])
    BY DEF NoOverlap
  <2>6. ~(Sub(nodes[j].count, nodes[i].count)
            <= PreDelay(nodes[j].type) + nodes[i].post + TX_MARGIN_DELAY)
    BY <2>3, <2>5 DEF Clear, CollisionTest
  <2>7. Sub(nodes[j].count, nodes[i].count) \in Nat
    BY <2>2, SubValue
  <2> QED
    BY <2>2, <2>4, <2>6, <2>7, JitAssumption
<1> QED
  BY <1>1, <1>2, <1>3, PTL DEF Spec

-----------------------------------------------------------------------------
(* How far ahead the search of jit_enqueue may put an immediate downlink.   *)

LEMMA TimesNat ==
  ASSUME NEW a \in Nat, NEW b \in Nat, NEW h \in Nat, a <= b
  PROVE  /\ a * h \in Nat /\ b * h \in Nat /\ a * h <= b * h
         /\ (a + 1) * h = a * h + h /\ 1 * h = h
<1>1. (a + 1) * h = a * h + h /\ 1 * h = h /\ a * h \in Nat
  OBVIOUS
<1>2. PICK d \in Nat : b = a + d
  <2>1. b - a \in Nat /\ b = a + (b - a)
    OBVIOUS
  <2> QED
    BY <2>1
<1>3. b * h = a * h + d * h /\ d * h \in Nat
  BY <1>2
<1> QED
  BY <1>1, <1>3

\* The search for the slot of an immediate downlink goes from node to node: it
\* stops at most hop behind its start for each node of the queue.
LEMMA SlotNear ==
  ASSUME NEW q \in Seq(Node), NEW t \in Time, NEW toa \in Nat, NEW hop \in Nat,
         NEW asap \in Time, Sub(asap, t) <= ASAP_DELAY, InOrder(q, t),
         \A i \in DOMAIN q :
           Sub(q[i].count, t) + q[i].post + PreDelay("C") + TX_JIT_DELAY
             + TX_MARGIN_DELAY < W,
         \A i, j \in DOMAIN q :
           q[i].post + PreDelay("C") + TX_JIT_DELAY + TX_MARGIN_DELAY
             + q[j].pre + toa + TX_MARGIN_DELAY <= hop,
         NEW slot \in AsapSlots(q, asap, PreDelay("C"), toa)
  PROVE  slot \in Time /\ Sub(slot, t) <= ASAP_DELAY + Len(q) * hop
<1> DEFINE P == PreDelay("C")
           M == TX_MARGIN_DELAY
           D(i) == q[i].post + P + TX_JIT_DELAY + M
           x(i) == Sub(q[i].count, t)
           y(i) == x(i) + D(i)
           z == Sub(asap, t)
<1>1. /\ P \in Nat /\ M \in Nat /\ TX_JIT_DELAY \in Nat /\ ASAP_DELAY \in Nat
      /\ W \in Nat /\ z \in Nat /\ z <= ASAP_DELAY
      /\ Len(q) \in Nat /\ DOMAIN q = 1 .. Len(q)
  BY SubValue, JitAssumption DEF PreDelay
<1>2. ASSUME NEW i \in DOMAIN q
      PROVE  /\ q[i].count \in Time /\ q[i].post \in Nat /\ q[i].pre \in Nat
             /\ x(i) \in Nat /\ D(i) \in Nat /\ y(i) \in Nat /\ y(i) < W
  <2>1. q[i] \in Node
    OBVIOUS
  <2>2. q[i].count \in Time /\ q[i].post \in Nat /\ q[i].pre \in Nat
    BY <2>1 DEF Node
  <2>3. x(i) \in Nat
    BY <2>2, SubValue
  <2>4. D(i) \in Nat
    <3> DEFINE r == q[i].post
               J == TX_JIT_DELAY
    <3>1. r \in Nat /\ P \in Nat /\ J \in Nat /\ M \in Nat
      BY <1>1, <2>2
    <3> HIDE DEF P, M, r, J
    <3>2. r + P + J + M \in Nat
      BY <3>1
    <3> QED
      BY <3>2 DEF r, J
  <2>5. x(i) + q[i].post + P + TX_JIT_DELAY + M < W
    OBVIOUS
  <2>6. y(i) \in Nat /\ y(i) < W
    <3> DEFINE r == q[i].post
               u == x(i)
    <3>1. u \in Nat /\ r \in Nat /\ u + r + P + TX_JIT_DELAY + M < W
      BY <2>2, <2>3, <2>5
    <3> HIDE DEF u, r, P
    <3>2. /\ u + (r + P + TX_JIT_DELAY + M) \in Nat
          /\ u + (r + P + TX_JIT_DELAY + M) < W
      BY <1>1, <3>1
    <3> QED
      BY <3>2 DEF u, r
  <2> QED
    BY <2>2, <2>3, <2>4, <2>6
<1>3. ASSUME NEW i \in DOMAIN q, NEW j \in DOMAIN q
      PROVE  D(i) + q[j].pre + toa + M <= hop
  OBVIOUS
<1>4. ASSUME NEW i \in DOMAIN q
      PROVE  SlotAfter(q, i, P) \in Time /\ Sub(SlotAfter(q, i, P), t) = y(i)
  <2> DEFINE d == D(i)
             c == q[i].count
  <2>1. c \in Time /\ d \in Nat /\ Sub(c, t) + d < W
    BY <1>2
  <2>2. SlotAfter(q, i, P) = (c + d) % W
    <3> DEFINE r == q[i].post
    <3>1. c \in Nat /\ r \in Nat
      BY <1>1, <1>2 DEF Time
    <3> HIDE DEF P, c, r
    <3>2. c + (r + P + TX_JIT_DELAY + M) = c + r + P + TX_JIT_DELAY + M
      BY <1>1, <3>1
    <3> QED
      BY <3>2 DEF SlotAfter, c, r
  <2> HIDE DEF c, d
  <2>3. (c + d) % W \in Time /\ Sub((c + d) % W, t) = Sub(c, t) + d
    BY <2>1, SubShift
  <2> QED
    BY <2>2, <2>3 DEF c, d
\* A node that the search collides with begins soon behind it.
<1>5. ASSUME NEW i \in DOMAIN q, NEW c \in Time, AsapCollides(q, c, P, toa, i)
      PROVE  x(i) <= Sub(c, t) + q[i].pre + toa + M
  <2> DEFINE u == Sub(c, t)
             v == x(i)
             r == q[i].post
             p == q[i].pre
  <2>1. Sub(c, q[i].count) <= P + r + M \/ Sub(q[i].count, c) <= p + toa + M
    BY <1>5 DEF AsapCollides, CollisionTest
  <2>2. /\ Sub(c, q[i].count) = IF u >= v THEN u - v ELSE u - v + W
        /\ Sub(q[i].count, c) = IF v >= u THEN v - u ELSE v - u + W
    BY <1>2, SubFrom
  <2>3. /\ u \in Nat /\ v \in Nat /\ r \in Nat /\ p \in Nat
        /\ v + r + P + TX_JIT_DELAY + M < W
    <3>1. u \in Nat
      BY SubValue
    <3> QED
      BY <1>2, <3>1
  <2> HIDE DEF u, v, r, p, P
  <2>4. v <= u + p + toa + M
    <3>1. CASE u >= v
      BY <1>1, <2>3, <3>1
    <3>2. CASE ~(u >= v)
      <4>1. ~(u - v + W <= P + r + M)
        BY <1>1, <2>3
      <4>2. v - u <= p + toa + M
        BY <1>1, <2>1, <2>2, <2>3, <3>2, <4>1
      <4> QED
        BY <1>1, <2>3, <4>2
    <3> QED
      BY <3>1, <3>2
  <2> QED
    BY <2>4 DEF u, v, p
<1>6. CASE \A i \in DOMAIN q : ~AsapCollides(q, asap, P, toa, i)
  <2>1. slot = asap
    BY <1>6 DEF AsapSlots
  <2>2. Len(q) * hop \in Nat
    BY <1>1, TimesNat
  <2> HIDE DEF P
  <2> QED
    BY <1>1, <2>1, <2>2
<1>7. CASE ~\A i \in DOMAIN q : ~AsapCollides(q, asap, P, toa, i)
  <2>1. PICK j \in DOMAIN q : AsapCollides(q, asap, P, toa, j)
    BY <1>7
  <2>2. PICK k \in DOMAIN q : /\ slot = SlotAfter(q, k, P)
                              /\ \A i \in 1 .. (k - 1) : ~SlotFits(q, i, P, toa)
    BY <1>7 DEF AsapSlots
  <2>3. slot \in Time /\ Sub(slot, t) = y(k)
    BY <1>4, <2>2
  <2>4. x(j) <= z + q[j].pre + toa + M
    BY <1>5, <2>1
  <2>5. j \in Nat /\ k \in Nat /\ 1 <= j /\ 1 <= k /\ k <= Len(q)
    BY <1>1
  <2>6. ASSUME NEW i \in DOMAIN q, i <= j
        PROVE  y(i) <= ASAP_DELAY + hop
    <3>1. x(i) <= x(j)
      <4>1. i \in Nat /\ (i = j \/ i < j)
        BY <1>1, <2>5, <2>6
      <4>2. CASE i < j
        BY <4>2 DEF InOrder
      <4>3. CASE i = j
        BY <1>2, <4>3
      <4> QED
        BY <4>1, <4>2, <4>3
    <3>2. D(i) + q[j].pre + toa + M <= hop
      BY <1>3
    <3> DEFINE xi == x(i)
               xj == x(j)
               di == D(i)
               pj == q[j].pre
    <3>3. /\ xi \in Nat /\ xj \in Nat /\ di \in Nat /\ pj \in Nat
          /\ xi <= xj /\ xj <= z + pj + toa + M /\ di + pj + toa + M <= hop
      BY <1>2, <2>4, <3>1, <3>2
    <3> HIDE DEF xi, xj, di, pj, z
    <3>4. xi + di <= ASAP_DELAY + hop
      BY <1>1, <3>3
    <3> QED
      BY <3>4 DEF xi, di
  <2>7. ASSUME NEW i \in DOMAIN q, i < k
        PROVE  i + 1 \in DOMAIN q /\ y(i + 1) <= y(i) + hop
    <3>1. i + 1 \in DOMAIN q /\ i \in 1 .. (k - 1) /\ i # Len(q)
      BY <1>1, <2>5, <2>7
    <3>2. AsapCollides(q, SlotAfter(q, i, P), P, toa, i + 1)
      BY <2>2, <3>1 DEF SlotFits
    <3>3. x(i + 1) <= y(i) + q[i + 1].pre + toa + M
      BY <1>4, <1>5, <3>1, <3>2
    <3>4. D(i + 1) + q[i + 1].pre + toa + M <= hop
      BY <1>3, <3>1
    <3> DEFINE a == x(i + 1)
               b == y(i)
               d == D(i + 1)
               p == q[i + 1].pre
    <3>5. /\ a \in Nat /\ b \in Nat /\ d \in Nat /\ p \in Nat
          /\ a <= b + p + toa + M /\ d + p + toa + M <= hop
      BY <1>2, <3>1, <3>3, <3>4
    <3> HIDE DEF a, b, d, p
    <3>6. a + d <= b + hop
      BY <1>1, <3>5
    <3> QED
      BY <3>1, <3>6 DEF a, b, d
  <2> HIDE DEF x, y, z, D, P
  <2>8. y(k) <= ASAP_DELAY + k * hop
    <3> DEFINE T == {i \in DOMAIN q : i <= k /\ ~(y(i) <= ASAP_DELAY + i * hop)}
    <3> SUFFICES ASSUME T # {} PROVE FALSE
      BY <2>5
    <3>1. T \in SUBSET Nat
      BY <1>1
    <3> HIDE DEF T
    <3>2. PICK n \in T : \A m \in T : n <= m
      BY <3>1, LeastNatural
    <3>3. /\ n \in DOMAIN q /\ n \in Nat /\ 1 <= n /\ n <= k
          /\ ~(y(n) <= ASAP_DELAY + n * hop)
      BY <1>1, <3>2 DEF T
    <3>4. n * hop \in Nat /\ hop <= n * hop
      BY <3>3, TimesNat
    <3>5. y(n) \in Nat
      BY <1>2, <3>3
    <3>6. ~(n <= j)
      <4> SUFFICES ASSUME n <= j PROVE FALSE
        OBVIOUS
      <4>1. y(n) <= ASAP_DELAY + hop
        BY <2>6, <3>3
      <4> DEFINE a == y(n)
                 f == n * hop
      <4>2. a \in Nat /\ f \in Nat /\ hop <= f
        BY <3>4, <3>5
      <4>3. a <= ASAP_DELAY + hop /\ ~(a <= ASAP_DELAY + f)
        BY <3>3, <4>1
      <4>4. ASAP_DELAY \in Nat
        BY <1>1
      <4> HIDE DEF a, f
      <4> QED
        BY <4>2, <4>3, <4>4
    <3> DEFINE m == n - 1
    <3>7. m \in Nat /\ m \in DOMAIN q /\ m < k /\ m + 1 = n /\ ~(n <= m)
      <4>1. n \in Nat /\ j < n /\ n <= k
        BY <2>5, <3>3, <3>6
      <4>2. m \in Nat /\ 1 <= m /\ m <= Len(q)
        BY <1>1, <2>5, <4>1
      <4>3. m \in DOMAIN q
        BY <1>1, <4>2
      <4> QED
        BY <2>5, <4>1, <4>2, <4>3
    <3> HIDE DEF m
    <3>8. y(m) <= ASAP_DELAY + m * hop
      <4>1. m <= k
        BY <2>5, <3>7
      <4>2. m \notin T
        BY <3>2, <3>7
      <4>3. m \in DOMAIN q
        BY <3>7
      <4> QED
        BY <4>1, <4>2, <4>3, Zenon DEF T
    <3>9. y(n) <= y(m) + hop
      BY <2>7, <3>7
    <3>10. n * hop = m * hop + hop /\ m * hop \in Nat
      BY <3>7, TimesNat
    <3>11. y(m) \in Nat
      BY <1>2, <3>7
    <3> DEFINE a == y(m)
               b == y(n)
               f == m * hop
               g == n * hop
    <3>12. a \in Nat /\ b \in Nat
      BY <3>5, <3>11
    <3>13. f \in Nat /\ g = f + hop
      BY <3>10
    <3>14. a <= ASAP_DELAY + f
      BY <3>8
    <3>15. b <= a + hop
      BY <3>9
    <3>16. ~(b <= ASAP_DELAY + g)
      BY <3>3
    <3> HIDE DEF a, b, f, g
    <3> QED
      BY <1>1, <3>12, <3>13, <3>14, <3>15, <3>16
  <2>9. k * hop <= Len(q) * hop /\ k * hop \in Nat /\ Len(q) * hop \in Nat
    BY <1>1, <2>5, TimesNat
  <2> DEFINE b == y(k)
             f == k * hop
             g == Len(q) * hop
  <2>10. b \in Nat
    BY <1>2
  <2>11. f \in Nat /\ g \in Nat /\ f <= g
    BY <2>9
  <2>12. b <= ASAP_DELAY + f
    BY <2>8
  <2>13. ASAP_DELAY \in Nat
    BY <1>1
  <2> HIDE DEF b, f, g
  <2>14. b <= ASAP_DELAY + g
    BY <2>10, <2>11, <2>12, <2>13
  <2> QED
    BY <2>3, <2>14 DEF b, g
<1> QED
  BY <1>6, <1>7

-----------------------------------------------------------------------------
(* Accepted packets are sent in their window.                              *)
(*                                                                         *)
(* What the delays must satisfy: thread_jit is fast enough to read the     *)
(* counter twice between the peek and the latest moment of programming, an *)
(* enqueuer inserts before its counter value is older than the margin      *)
(* criterion 1 leaves, and whatever is queued departs within half the      *)
(* counter's range.  Class A and B downlinks are within it by criterion 2, *)
(* class C ones because the search of their slot starts a second ahead and *)
(* takes a bounded step for each node.  A beacon may depart sooner after a *)
(* class A or C downlink than thread_jit reserves for programming (its     *)
(* guard time does not count then): two readings of the counter must fit   *)
(* in the time on air of that downlink.                                    *)

\* The slot of an immediate downlink lies at most hop behind a node, and at
\* most hop behind the slot of the node before, when that meets the next one.
HopDelays(hop) ==
  \A t1, t2 \in Types, air, toa \in ToA :
    PostDelay([type |-> t1, count |-> 0, toa |-> air]) + PreDelay("C") + TX_JIT_DELAY
      + TX_MARGIN_DELAY + PreDelay(t2) + toa + TX_MARGIN_DELAY <= hop

Timely ==
  /\ TX_START_DELAY + 2 * POLL_LAG <= TX_JIT_DELAY
  /\ TX_START_DELAY + TX_MARGIN_DELAY + TX_JIT_DELAY <= TX_MAX_ADVANCE_DELAY
  /\ ENQ_LAG <= TX_START_DELAY + TX_MARGIN_DELAY
  /\ REACH \in Nat /\ TX_MAX_ADVANCE_DELAY <= REACH /\ 2 * (REACH + POLL_LAG) < W
  /\ "BEACON" \in Types =>
       \A toa \in ToA : POLL_LAG <= TX_START_DELAY + TX_MARGIN_DELAY + toa
  /\ "C" \in Types =>
       \E hop \in Nat : /\ HopDelays(hop)
                        /\ ASAP_DELAY + (JIT_QUEUE_MAX - 1) * hop <= REACH

\* Beacons are asked for within reach, as semtech_pull_down does with a time
\* reference that is not outdated; and class C downlinks find no more nodes
\* than the array has.  True of any behaviour with class A and B downlinks
\* only (DownlinksInReach).
InReach ==
  /\ \A e \in Enqueuers :
       epc[e] = "insert" /\ epkt[e].type = "BEACON"
         => Sub(epkt[e].count, etime[e]) <= REACH
  /\ "C" \in Types => QueueCapacity

\* A departure as thread_jit sees it from its last counter read.
Ahead(node) == Sub(node.count, jtime)

\* Nobody's counter value is older than the speed of the threads allows.
ClockInv ==
  /\ Sub(now, jtime) <= POLL_LAG
  /\ \A e \in Enqueuers :
       epc[e] \in {"check", "insert"} => Sub(now, etime[e]) <= ENQ_LAG

\* Every queued departure lies ahead, in the order of the queue.
QueueInv ==
  /\ \A i \in DOMAIN nodes : /\ Ahead(nodes[i]) >= TX_JIT_DELAY - POLL_LAG
                             /\ Ahead(nodes[i]) <= REACH + POLL_LAG
  /\ \A i, j \in DOMAIN nodes : i < j => Ahead(nodes[i]) <= Ahead(nodes[j])

\* jit_peek finds the first node or none, whatever it drops or skips, and
\* jit_dequeue finds it still there: the only one that is due.
JitInv ==
  /\ jpc \in {"sleep", "status", "send"} =>
       \A i \in DOMAIN nodes : Ahead(nodes[i]) >= TX_JIT_DELAY
  /\ jpc = "scan" =>
       /\ scan >= 1
       /\ \/ best = 1 /\ 1 \in DOMAIN nodes /\ ~Outdated(nodes[1], jtime)
          \/ best = 0 /\ (scan >= 2 => \A i \in DOMAIN nodes : Outdated(nodes[i], jtime))
  /\ jpc = "dequeue" =>
       /\ best = 1 /\ 1 \in DOMAIN nodes /\ Ahead(nodes[1]) < TX_JIT_DELAY
       /\ \A i \in DOMAIN nodes : i # 1 => Ahead(nodes[i]) >= TX_JIT_DELAY
  /\ jpc \in {"status", "send"} =>
       /\ Ahead(jpkt) >= TX_JIT_DELAY - POLL_LAG
       /\ Ahead(jpkt) < TX_JIT_DELAY

LEMMA TimelyDelays ==
  ASSUME Timely
  PROVE  /\ TX_START_DELAY \in Nat /\ TX_MARGIN_DELAY \in Nat /\ TX_JIT_DELAY \in Nat
         /\ TX_MAX_ADVANCE_DELAY \in Nat /\ POLL_LAG \in Nat /\ ENQ_LAG \in Nat
         /\ W \in Nat \ {0}
         /\ TX_START_DELAY + 2 * POLL_LAG <= TX_JIT_DELAY
         /\ TX_START_DELAY + TX_MARGIN_DELAY + TX_JIT_DELAY <= TX_MAX_ADVANCE_DELAY
         /\ TX_JIT_DELAY <= TX_MAX_ADVANCE_DELAY
         /\ ENQ_LAG <= TX_START_DELAY + TX_MARGIN_DELAY
         /\ REACH \in Nat /\ TX_MAX_ADVANCE_DELAY <= REACH
         /\ 2 * (REACH + POLL_LAG) < W
BY JitAssumption, JitQueueAssumption DEF Timely

LEMMA AheadType ==
  ASSUME TypeOK
  PROVE  /\ \A i \in DOMAIN nodes : /\ nodes[i] \in Node
                                    /\ nodes[i].count \in Time
                                    /\ Ahead(nodes[i]) \in Nat
         /\ jpkt.count \in Time /\ Ahead(jpkt) \in Nat
<1>1. \A i \in DOMAIN nodes : nodes[i] \in Node
  BY DEF TypeOK
<1>2. \A n \in Node : n.count \in Time
  BY DEF Node
<1>3. jpkt \in Node /\ jtime \in Time
  BY DEF TypeOK
<1> QED
  BY <1>1, <1>2, <1>3, SubValue DEF Ahead

\* A packet accepted with a counter value at most ENQ_LAG old departs after
\* the window of thread_jit has opened, and within reach.
LEMMA AcceptedAhead ==
  ASSUME Timely, NEW t \in Time, NEW pkt, pkt.count \in Time, Sub(pkt.count, t) <= REACH,
         NEW q, Verdict(q, t, pkt) = "OK", now \in Time, jtime \in Time,
         Sub(now, t) <= ENQ_LAG, Sub(now, jtime) <= POLL_LAG
  PROVE  /\ Sub(pkt.count, jtime) >= TX_JIT_DELAY
         /\ Sub(pkt.count, jtime) <= REACH + POLL_LAG
         /\ Sub(pkt.count, now) > TX_JIT_DELAY
         /\ pkt.type \in {"A", "B"} => Sub(pkt.count, now) <= TX_MAX_ADVANCE_DELAY
<1>1. ~TooLate(t, pkt) /\ ~TooEarly(t, pkt)
  BY DEF Verdict
<1>2. /\ Sub(pkt.count, t) \in Nat /\ Sub(pkt.count, now) \in Nat
      /\ Sub(now, t) \in Nat /\ Sub(now, jtime) \in Nat
  BY SubValue
<1>3. /\ Sub(pkt.count, t) > TX_START_DELAY + TX_MARGIN_DELAY + TX_JIT_DELAY
      /\ pkt.type \in {"A", "B"} => Sub(pkt.count, t) <= TX_MAX_ADVANCE_DELAY
  BY <1>1, <1>2, TimelyDelays DEF TooLate, TooEarly
<1>4. Sub(pkt.count, now) = Sub(pkt.count, t) - Sub(now, t)
  <2>1. Sub(now, t) <= Sub(pkt.count, t)
    BY <1>2, <1>3, TimelyDelays
  <2> QED
    BY <2>1, SubLater
<1>5. /\ Sub(pkt.count, now) > TX_JIT_DELAY /\ Sub(pkt.count, now) <= REACH
      /\ pkt.type \in {"A", "B"} => Sub(pkt.count, now) <= TX_MAX_ADVANCE_DELAY
  BY <1>2, <1>3, <1>4, TimelyDelays
<1>6. Sub(pkt.count, jtime) = Sub(pkt.count, now) + Sub(now, jtime)
  <2>1. Sub(pkt.count, now) + Sub(now, jtime) < W
    BY <1>2, <1>5, TimelyDelays
  <2> QED
    BY <2>1, SubLater
<1> QED
  BY <1>2, <1>5, <1>6, TimelyDelays

\* Seen from a counter read at most POLL_LAG after the last one, a departure
\* at least that far ahead is nearer by the time between.
LEMMA Nearer ==
  ASSUME Timely, NEW c \in Time, now \in Time, jtime \in Time,
         Sub(now, jtime) <= POLL_LAG, Sub(c, jtime) >= TX_JIT_DELAY - POLL_LAG
  PROVE  Sub(c, now) = Sub(c, jtime) - Sub(now, jtime)
<1>1. Sub(now, jtime) \in Nat /\ Sub(c, jtime) \in Nat
  BY SubValue
<1>2. Sub(now, jtime) <= Sub(c, jtime)
  BY <1>1, TimelyDelays
<1> QED
  BY <1>2, SubLater

LEMMA NextClock == TypeOK /\ ClockInv /\ [Next]_vars => ClockInv'
<1> SUFFICES ASSUME TypeOK, ClockInv, [Next]_vars PROVE ClockInv'
  OBVIOUS
<1>0. /\ etime \in [Enqueuers -> Time] /\ now \in Time /\ jtime \in Time
      /\ epc \in [Enqueuers -> {"idle", "check", "insert", "answer"}]
      /\ POLL_LAG \in Nat /\ ENQ_LAG \in Nat
  BY JitQueueAssumption DEF TypeOK
<1>1. Sub(now, now) = 0
  BY <1>0, SubValue, JitAssumption DEF Time
<1>2. CASE Tick
  <2>1. /\ now' = (now + 1) % W
        /\ Sub(now, jtime) < POLL_LAG
        /\ \A e \in Enqueuers : epc[e] \in {"check", "insert"} => Sub(now, etime[e]) < ENQ_LAG
        /\ UNCHANGED <<epc, etime, jtime>>
    BY <1>2 DEF Tick, evars, jvars
  <2>2. ASSUME NEW a \in Time, NEW d \in Nat, Sub(now, a) < d
        PROVE  Sub(now', a) <= d
    <3>1. Sub(now, a) \in Nat
      BY <1>0, SubValue
    <3>2. Sub(now', a) \in {0, Sub(now, a) + 1}
      BY <1>0, <2>1, SubTick
    <3> QED
      BY <2>2, <3>1, <3>2
  <2>3. Sub(now', jtime) <= POLL_LAG
    BY <1>0, <2>1, <2>2
  <2>4. \A e \in Enqueuers : epc[e] \in {"check", "insert"} => Sub(now', etime[e]) <= ENQ_LAG
    BY <1>0, <2>1, <2>2
  <2> QED
    BY <2>1, <2>3, <2>4 DEF ClockInv
<1>3. ASSUME NEW e \in Enqueuers, Enqueue(e) PROVE ClockInv'
  <2>1. UNCHANGED <<now, jtime>>
    BY <1>3 DEF Enqueue, Request, CheckFull, Insert, Return, jvars
  <2>2. CASE Request(e)
    <3>1. /\ epc' = [epc EXCEPT ![e] = "check"]
          /\ etime' = [etime EXCEPT ![e] = now]
      BY <2>2 DEF Request
    <3>2. ASSUME NEW f \in Enqueuers, epc'[f] \in {"check", "insert"}
          PROVE  Sub(now, etime'[f]) <= ENQ_LAG
      <4>1. CASE f = e
        <5>1. etime'[f] = now
          BY <1>0, <3>1, <4>1
        <5>2. 0 <= ENQ_LAG
          BY <1>0
        <5> QED
          BY <1>1, <5>1, <5>2
      <4>2. CASE f # e
        BY <1>0, <3>1, <3>2, <4>2 DEF ClockInv
      <4> QED
        BY <4>1, <4>2
    <3> QED
      BY <2>1, <3>2 DEF ClockInv
  <2>3. CASE CheckFull(e)
    <3>1. epc[e] = "check" /\ etime' = etime
      BY <2>3 DEF CheckFull, Answer
    <3>2. epc' = [epc EXCEPT ![e] = "answer"] \/ epc' = [epc EXCEPT ![e] = "insert"]
      BY <2>3 DEF CheckFull, Answer
    <3> QED
      BY <1>0, <2>1, <3>1, <3>2 DEF ClockInv
  <2>4. CASE Insert(e) \/ Return(e)
    <3>1. PICK t : etime' = [etime EXCEPT ![e] = t]
      BY <1>0, <2>4 DEF Insert, Return, Answer
    <3>2. epc' = [epc EXCEPT ![e] = "answer"] \/ epc' = [epc EXCEPT ![e] = "idle"]
      BY <2>4 DEF Insert, Return, Answer
    <3> QED
      BY <1>0, <2>1, <3>1, <3>2 DEF ClockInv
  <2> QED
    BY <1>3, <2>2, <2>3, <2>4 DEF Enqueue
<1>4. CASE JitTime
  <2>1. jtime' = now /\ UNCHANGED <<now, epc, etime>>
    BY <1>4 DEF JitTime, evars
  <2>2. 0 <= POLL_LAG
    BY <1>0
  <2> QED
    BY <1>1, <2>1, <2>2 DEF ClockInv
<1>5. CASE \/ PeekBegin \/ PeekDrop \/ PeekScan \/ PeekEnd \/ JitDequeue
           \/ JitStatus \/ JitSend \/ UNCHANGED vars
  <2>1. UNCHANGED <<now, epc, etime, jtime>>
    BY <1>5 DEF PeekBegin, PeekDrop, PeekScan, PeekEnd, JitDequeue, JitStatus,
                JitSend, vars, evars, jvars
  <2> QED
    BY <2>1 DEF ClockInv
<1> QED
  BY <1>2, <1>3, <1>4, <1>5 DEF Next, Jit

TimeInv ==
  TypeOK /\ NoOverlap /\ KindInv /\ ClockInv /\ QueueInv /\ JitInv

\* QueueInv of the queue that a sort leaves, at an unchanged counter read.
LEMMA SortedQueue ==
  ASSUME Timely, jtime \in Time, NEW q \in Seq(Node), nodes' \in Sorted(q), jtime' = jtime,
         \A i \in DOMAIN q : /\ Ahead(q[i]) >= TX_JIT_DELAY - POLL_LAG
                             /\ Ahead(q[i]) <= REACH + POLL_LAG
  PROVE  /\ QueueInv'
         /\ \A i, j \in DOMAIN nodes' : i < j => Ahead(nodes'[i]) <= Ahead(nodes'[j])
         /\ \A i \in DOMAIN nodes' : \E k \in DOMAIN q : nodes'[i] = q[k]
<1>1. \A i, j \in DOMAIN nodes' : i < j => Ahead(nodes'[i]) <= Ahead(nodes'[j])
  <2>1. Within(q, jtime)
    <3> SUFFICES ASSUME NEW i \in DOMAIN q PROVE 2 * Sub(q[i].count, jtime) < W
      BY DEF Within
    <3>1. q[i] \in Node
      OBVIOUS
    <3>2. q[i].count \in Time
      BY <3>1 DEF Node
    <3>3. Sub(q[i].count, jtime) \in Nat
      BY <3>2, SubValue
    <3>4. Sub(q[i].count, jtime) <= REACH + POLL_LAG
      BY DEF Ahead
    <3> DEFINE a == Sub(q[i].count, jtime)
               b == REACH + POLL_LAG
    <3>5. b \in Nat /\ 2 * b < W
      <4>1. REACH \in Nat /\ POLL_LAG \in Nat
        BY TimelyDelays
      <4>2. 2 * (REACH + POLL_LAG) < W
        BY TimelyDelays
      <4> QED
        BY <4>1, <4>2
    <3>6. a \in Nat /\ a <= b
      BY <3>3, <3>4
    <3> HIDE DEF a, b
    <3>7. 2 * a < W
      BY <3>5, <3>6, HalfOf
    <3> QED
      BY <3>7 DEF a
  <2>2. InOrder(nodes', jtime)
    BY <2>1, SortedAscending
  <2> QED
    BY <2>2 DEF Ahead, InOrder
<1>2. \A i \in DOMAIN nodes' : \E k \in DOMAIN q : nodes'[i] = q[k]
  BY SortedPlaces
<1>3. \A i \in DOMAIN nodes' : /\ Ahead(nodes'[i]) >= TX_JIT_DELAY - POLL_LAG
                               /\ Ahead(nodes'[i]) <= REACH + POLL_LAG
  BY <1>2
<1> QED
  BY <1>1, <1>2, <1>3 DEF QueueInv, Ahead

\* A node taken out: the queue keeps QueueInv and all its other nodes.
LEMMA TakenQueue ==
  ASSUME Timely, TypeOK, QueueInv, NEW n \in DOMAIN nodes,
         nodes' \in Sorted(TakeOut(nodes, n)), jtime' = jtime
  PROVE  /\ QueueInv'
         /\ \A i, j \in DOMAIN nodes' : i < j => Ahead(nodes'[i]) <= Ahead(nodes'[j])
         /\ \A i \in DOMAIN nodes' : \E k \in DOMAIN nodes : k # n /\ nodes'[i] = nodes[k]
         /\ \A k \in DOMAIN nodes : k # n => \E i \in DOMAIN nodes' : nodes'[i] = nodes[k]
<1> DEFINE q == TakeOut(nodes, n)
<1>1. nodes \in Seq(Node) /\ jtime \in Time
  BY DEF TypeOK
<1>2. q \in Seq(Node)
  <2>1. nodes # <<>> /\ n \in Nat
    BY <1>1
  <2> QED
    BY <1>1, <2>1, TakeOutType
<1>3. \A i \in DOMAIN q : \E k \in DOMAIN nodes : k # n /\ q[i] = nodes[k]
  BY <1>1, TakeOutPlaces
<1>4. \A k \in DOMAIN nodes : k # n => \E i \in DOMAIN q : q[i] = nodes[k]
  BY <1>1, TakeOutPlaces
<1>5. nodes' \in Sorted(q)
  OBVIOUS
<1> HIDE DEF q
<1>6. \A i \in DOMAIN q : /\ Ahead(q[i]) >= TX_JIT_DELAY - POLL_LAG
                          /\ Ahead(q[i]) <= REACH + POLL_LAG
  BY <1>3 DEF QueueInv
<1>7. /\ QueueInv'
      /\ \A i, j \in DOMAIN nodes' : i < j => Ahead(nodes'[i]) <= Ahead(nodes'[j])
      /\ \A i \in DOMAIN nodes' : \E k \in DOMAIN q : nodes'[i] = q[k]
  BY <1>1, <1>2, <1>5, <1>6, SortedQueue
<1>8. \A k \in DOMAIN q : \E i \in DOMAIN nodes' : nodes'[i] = q[k]
  BY <1>2, <1>5, SortedPlaces
<1> QED
  BY <1>3, <1>4, <1>7, <1>8

LEMMA AsapNear ==
  ASSUME NEW t \in Time, NEW asap \in AsapStart(t), ASAP_DELAY < W
  PROVE  asap \in Time /\ Sub(asap, t) <= ASAP_DELAY
<1>1. /\ W \in Nat \ {0} /\ ASAP_DELAY \in Nat /\ t \in Nat /\ t < W
  BY JitAssumption DEF Time
<1>2. CASE t + ASAP_DELAY < W
  <2>1. asap = t + ASAP_DELAY /\ asap \in Time
    BY <1>1, <1>2 DEF AsapStart, Time
  <2>2. Sub(asap, t) = asap - t
    BY <1>1, <2>1, SubValue
  <2> QED
    BY <1>1, <2>1, <2>2
<1>3. CASE ~(t + ASAP_DELAY < W) /\ asap = W - 1
  <2>1. asap \in Time /\ asap >= t
    BY <1>1, <1>3 DEF Time
  <2>2. Sub(asap, t) = asap - t
    BY <2>1, SubValue
  <2> QED
    BY <1>1, <1>3, <2>1, <2>2
<1>4. CASE ~(t + ASAP_DELAY < W) /\ asap = (t + ASAP_DELAY) % W
  <2>1. Sub(t, t) = 0
    BY SubSelf
  <2>2. Sub(t, t) + ASAP_DELAY < W
    BY <1>1, <2>1
  <2>3. asap \in Time /\ Sub(asap, t) = Sub(t, t) + ASAP_DELAY
    BY <1>1, <1>4, <2>2, SubShift
  <2> QED
    BY <1>1, <2>1, <2>3
<1> QED
  BY <1>2, <1>3, <1>4 DEF AsapStart

\* From the counter value of an enqueuer the queue looks as from the one of
\* thread_jit: in order, and at most a little further ahead.
LEMMA SeenByEnqueuer ==
  ASSUME Timely, TimeInv, NEW t \in Time, Sub(now, t) <= ENQ_LAG
  PROVE  /\ InOrder(nodes, t)
         /\ \A i \in DOMAIN nodes : Sub(nodes[i].count, t) <= REACH + POLL_LAG + ENQ_LAG
<1>1. /\ TypeOK /\ QueueInv /\ now \in Time /\ jtime \in Time
      /\ Sub(now, jtime) \in Nat /\ Sub(now, jtime) <= POLL_LAG
      /\ Sub(now, t) \in Nat
  BY SubValue DEF TimeInv, TypeOK, ClockInv
<1>2. ASSUME NEW i \in DOMAIN nodes
      PROVE  /\ Ahead(nodes[i]) \in Nat /\ Ahead(nodes[i]) <= REACH + POLL_LAG
             /\ Sub(nodes[i].count, t) = Ahead(nodes[i]) - Sub(now, jtime) + Sub(now, t)
  <2>1. /\ nodes[i].count \in Time /\ Ahead(nodes[i]) \in Nat
        /\ Ahead(nodes[i]) >= TX_JIT_DELAY - POLL_LAG
        /\ Ahead(nodes[i]) <= REACH + POLL_LAG
    BY <1>1, AheadType DEF QueueInv
  <2>2. Sub(nodes[i].count, now) = Ahead(nodes[i]) - Sub(now, jtime)
    BY <1>1, <2>1, Nearer DEF Ahead
  <2> DEFINE a == Ahead(nodes[i])
             b == Sub(now, jtime)
             c == Sub(now, t)
             d == Sub(nodes[i].count, now)
  <2>3. /\ a \in Nat /\ b \in Nat /\ c \in Nat /\ d = a - b /\ d \in Nat
        /\ a <= REACH + POLL_LAG /\ c <= ENQ_LAG
    BY <1>1, <2>1, <2>2, SubValue
  <2>4. d + c < W
    <3> HIDE DEF a, b, c, d
    <3> QED
      BY <2>3, TimelyDelays
  <2>5. Sub(nodes[i].count, t) = d + c
    BY <1>1, <2>1, <2>4, SubLater
  <2> HIDE DEF a, b, c, d
  <2>6. d + c = a - b + c
    BY <2>3
  <2> QED
    BY <2>1, <2>5, <2>6 DEF a, b, c, d
<1>3. InOrder(nodes, t)
  <2> SUFFICES ASSUME NEW i \in DOMAIN nodes, NEW j \in DOMAIN nodes, i < j
               PROVE  Sub(nodes[i].count, t) <= Sub(nodes[j].count, t)
    BY DEF InOrder
  <2>1. Ahead(nodes[i]) <= Ahead(nodes[j])
    BY <1>1 DEF QueueInv
  <2> QED
    BY <1>1, <1>2, <2>1
<1>4. ASSUME NEW i \in DOMAIN nodes
      PROVE  Sub(nodes[i].count, t) <= REACH + POLL_LAG + ENQ_LAG
  BY <1>1, <1>2, <1>4, TimelyDelays
<1> QED
  BY <1>3, <1>4

\* The slot of an immediate downlink lies within reach.
LEMMA ImmediateReach ==
  ASSUME Timely, TimeInv, NEW t \in Time, Sub(now, t) <= ENQ_LAG,
         NEW pkt \in Packet, pkt.type = "C", "C" \in Types, pkt.toa \in ToA,
         Len(nodes) < JIT_QUEUE_MAX, NEW s \in Scheduled(nodes, t, pkt)
  PROVE  Sub(s.count, t) <= REACH
<1> DEFINE P == PreDelay("C")
           M == TX_MARGIN_DELAY
           J == TX_JIT_DELAY
           toa == pkt.toa
<1>1. /\ nodes \in Seq(Node) /\ KindInv /\ Len(nodes) \in Nat
      /\ DOMAIN nodes = 1 .. Len(nodes)
  BY DEF TimeInv, TypeOK
<1>2. /\ toa \in Nat /\ P \in Nat /\ M \in Nat /\ J \in Nat /\ W \in Nat
      /\ ASAP_DELAY \in Nat /\ JIT_QUEUE_MAX \in Nat \ {0} /\ BEACON_GUARD \in Nat
      /\ TX_START_DELAY \in Nat /\ BEACON_RESERVED \in Nat
  <2>1. P = TX_START_DELAY + TX_JIT_DELAY
    BY DEF PreDelay
  <2>2. toa \in Nat
    BY JitAssumption
  <2> HIDE DEF P, toa
  <2> QED
    BY <2>1, <2>2, JitAssumption
<1>3. PICK hop \in Nat : HopDelays(hop) /\ ASAP_DELAY + (JIT_QUEUE_MAX - 1) * hop <= REACH
  BY DEF Timely
<1>4. /\ Len(nodes) * hop \in Nat /\ (JIT_QUEUE_MAX - 1) * hop \in Nat
      /\ Len(nodes) * hop <= (JIT_QUEUE_MAX - 1) * hop
  <2>1. JIT_QUEUE_MAX - 1 \in Nat /\ Len(nodes) <= JIT_QUEUE_MAX - 1
    BY <1>1, <1>2
  <2> QED
    BY <1>1, <2>1, TimesNat
<1>5. /\ ASAP_DELAY < W
      /\ ASAP_DELAY + Len(nodes) * hop <= REACH
  <2> DEFINE f == Len(nodes) * hop
             g == (JIT_QUEUE_MAX - 1) * hop
  <2>1. f \in Nat /\ g \in Nat /\ f <= g
    BY <1>4
  <2>4. ASAP_DELAY + g <= REACH
    BY <1>3
  <2> HIDE DEF f, g
  <2> HIDE DEF P, toa, M, J
  <2>2. REACH \in Nat /\ REACH < W /\ W \in Nat /\ ASAP_DELAY \in Nat
    <3>1. REACH \in Nat /\ POLL_LAG \in Nat /\ W \in Nat /\ 2 * (REACH + POLL_LAG) < W
      BY TimelyDelays
    <3>2. REACH < W
      BY <3>1
    <3>3. ASAP_DELAY \in Nat
      BY <1>2
    <3> QED
      BY <3>1, <3>2, <3>3
  <2>3. ASAP_DELAY < W /\ ASAP_DELAY + f <= REACH
    BY <2>1, <2>2, <2>4
  <2> QED
    BY <2>3 DEF f
<1>6. ASSUME NEW i \in DOMAIN nodes
      PROVE  /\ nodes[i].type \in Types
             /\ nodes[i].pre = PreDelay(nodes[i].type)
             /\ nodes[i].pre \in Nat /\ nodes[i].pre >= TX_START_DELAY + J
             /\ nodes[i].post \in Nat
             /\ \E air \in ToA : nodes[i].post = PostDelay([type |-> nodes[i].type,
                                                            count |-> 0, toa |-> air])
  <2>1. OfKind(nodes[i]) /\ nodes[i] \in Node
    BY <1>1 DEF KindInv
  <2>2. nodes[i].pre \in Nat /\ nodes[i].pre >= TX_START_DELAY + J
    BY <1>2, <2>1 DEF OfKind, PreDelay
  <2>3. \E air \in ToA : nodes[i].post = PostDelay([type |-> nodes[i].type,
                                                    count |-> 0, toa |-> air])
    BY <2>1 DEF OfKind, PostDelay
  <2> QED
    BY <2>1, <2>2, <2>3 DEF OfKind, Node
<1>7. ASSUME NEW i \in DOMAIN nodes, NEW j \in DOMAIN nodes
      PROVE  nodes[i].post + P + J + M + nodes[j].pre + toa + M <= hop
  <2>1. PICK air \in ToA : nodes[i].post = PostDelay([type |-> nodes[i].type,
                                                      count |-> 0, toa |-> air])
    BY <1>6
  <2>2. nodes[i].type \in Types /\ nodes[j].type \in Types
        /\ nodes[j].pre = PreDelay(nodes[j].type)
    BY <1>6
  <2> QED
    BY <1>3, <2>1, <2>2 DEF HopDelays
<1>8. ASSUME NEW i \in DOMAIN nodes
      PROVE  Sub(nodes[i].count, t) + nodes[i].post + P + J + M < W
  <2>1. hop <= REACH
    <3>1. 1 <= JIT_QUEUE_MAX - 1 /\ JIT_QUEUE_MAX - 1 \in Nat
      BY <1>1, <1>2
    <3>2. 1 * hop <= (JIT_QUEUE_MAX - 1) * hop /\ 1 * hop = hop
      BY <3>1, TimesNat
    <3> DEFINE g == (JIT_QUEUE_MAX - 1) * hop
    <3>3. g \in Nat /\ hop <= g /\ ASAP_DELAY + g <= REACH
      BY <1>3, <1>4, <3>2
    <3> HIDE DEF g
    <3> QED
      BY <1>2, <3>3, TimelyDelays
  <2> DEFINE x == Sub(nodes[i].count, t)
             r == nodes[i].post
             p == nodes[i].pre
  <2>2. /\ x \in Nat /\ r \in Nat /\ p \in Nat /\ p >= TX_START_DELAY + J
        /\ x <= REACH + POLL_LAG + ENQ_LAG
        /\ r + P + J + M + p + toa + M <= hop
    <3>1. nodes[i] \in Node
      BY <1>1
    <3>2. nodes[i].count \in Time
      BY <3>1 DEF Node
    <3>3. x \in Nat
      BY <3>2, SubValue
    <3>4. x <= REACH + POLL_LAG + ENQ_LAG
      BY SeenByEnqueuer
    <3> QED
      BY <1>6, <1>7, <3>3, <3>4
  <2> HIDE DEF x, r, p, P, toa, J, M
  <2>3. x + r + P + J + M < W
    <3> DEFINE b == r + P + J + M
    <3>1. b \in Nat /\ x + r + P + J + M = x + b
      BY <1>2, <2>2
    <3>2. b + p + toa + M <= hop
      BY <1>2, <2>2
    <3> HIDE DEF b
    <3>3. ENQ_LAG \in Nat /\ POLL_LAG \in Nat /\ REACH \in Nat /\ ENQ_LAG <= p + M
      BY <1>2, <2>2, TimelyDelays DEF J, M
    <3>4. b + ENQ_LAG <= REACH
      BY <1>2, <2>1, <2>2, <3>1, <3>2, <3>3
    <3>5. x + b <= REACH + POLL_LAG + REACH
      BY <2>2, <3>1, <3>3, <3>4
    <3>6. REACH + POLL_LAG + REACH < W
      BY <3>3, TimelyDelays
    <3> QED
      BY <1>2, <2>2, <3>1, <3>3, <3>5, <3>6
  <2> QED
    BY <2>3 DEF x, r
<1>9. PICK asap \in AsapStart(t) :
        \E slot \in AsapSlots(nodes, asap, P, toa) : s = [pkt EXCEPT !.count = slot]
  BY DEF Scheduled, PostDelay
<1>10. PICK slot \in AsapSlots(nodes, asap, P, toa) : s.count = slot
  BY <1>9 DEF Packet
<1>11. asap \in Time /\ Sub(asap, t) <= ASAP_DELAY
  BY <1>5, <1>9, AsapNear
<1>12. InOrder(nodes, t)
  BY SeenByEnqueuer
<1>13. slot \in Time /\ Sub(slot, t) <= ASAP_DELAY + Len(nodes) * hop
  BY <1>1, <1>2, <1>7, <1>8, <1>9, <1>11, <1>12, SlotNear
<1>14. Sub(slot, t) \in Nat
  BY <1>13, SubValue
<1> DEFINE f == Len(nodes) * hop
           z == Sub(slot, t)
<1>15. f \in Nat /\ z \in Nat /\ z <= ASAP_DELAY + f /\ ASAP_DELAY + f <= REACH
  BY <1>4, <1>5, <1>13, <1>14
<1> HIDE DEF f, z
<1>16. z <= REACH
  BY <1>2, <1>15, TimelyDelays
<1> QED
  BY <1>10, <1>16 DEF z

\* Every packet that jit_enqueue accepts lies within reach of its enqueuer.
LEMMA RequestReach ==
  ASSUME Timely, TimeInv, InReach, InReach', NEW e \in Enqueuers, Insert(e),
         NEW pkt \in Scheduled(nodes, etime[e], epkt[e]),
         Verdict(nodes, etime[e], pkt) = "OK",
         nodes' \in Sorted(Append(nodes, NodeOf(pkt)))
  PROVE  Sub(pkt.count, etime[e]) <= REACH
<1>1. /\ epc[e] = "insert" /\ nodes \in Seq(Node) /\ etime[e] \in Time
      /\ epkt[e] \in Packet \cup {ZeroPacket} /\ KindInv /\ Sub(now, etime[e]) <= ENQ_LAG
  BY DEF Insert, TimeInv, TypeOK, ClockInv
<1>2. /\ pkt.type = epkt[e].type /\ epkt[e].type \in Types /\ epkt[e].toa \in ToA
      /\ pkt \in Packet \cup {ZeroPacket}
  BY <1>1, ScheduledKind, ScheduledType DEF KindInv
<1>3. pkt.type \in {"A", "B", "C", "BEACON"} /\ pkt.count \in Time
  <2>1. CASE pkt \in Packet
    BY <2>1 DEF Packet, PktType, Downlinks
  <2>2. CASE pkt = ZeroPacket
    BY <2>2, ZeroNodeType DEF ZeroPacket
  <2> QED
    BY <1>2, <2>1, <2>2
<1>4. CASE pkt.type \in {"A", "B"}
  <2>1. ~TooLate(etime[e], pkt) /\ ~TooEarly(etime[e], pkt)
    BY DEF Verdict
  <2>2. Sub(pkt.count, etime[e]) \in Nat
    BY <1>1, <1>3, SubValue
  <2>3. Sub(pkt.count, etime[e]) <= TX_MAX_ADVANCE_DELAY
    BY <1>4, <2>1, <2>2, TimelyDelays DEF TooEarly
  <2> QED
    BY <2>2, <2>3, TimelyDelays
<1>5. CASE pkt.type = "BEACON"
  <2>1. pkt = epkt[e]
    BY <1>2, <1>5 DEF Scheduled
  <2>2. epc[e] = "insert" /\ epkt[e].type = "BEACON"
    BY <1>1, <1>5, <2>1
  <2>3. Sub(epkt[e].count, etime[e]) <= REACH
    BY <2>2 DEF InReach
  <2> QED
    BY <2>1, <2>3
<1>6. CASE pkt.type = "C"
  <2>1. epkt[e] \in Packet
    <3>1. ZeroPacket.type = "A"
      BY DEF ZeroPacket
    <3>2. epkt[e].type = "C"
      BY <1>2, <1>6
    <3>3. epkt[e] # ZeroPacket
      BY <3>1, <3>2
    <3> QED
      BY <1>1, <3>3
  <2>2. NodeOf(pkt) \in Node
    BY <1>2, DelayType
  <2>3. Len(nodes') = Len(nodes) + 1
    <3>1. Append(nodes, NodeOf(pkt)) \in Seq(Node)
      BY <1>1, <2>2
    <3>2. Len(nodes') = Len(Append(nodes, NodeOf(pkt)))
      BY <3>1, SortedType
    <3> QED
      BY <1>1, <2>2, <3>2
  <2>4. Len(nodes') <= JIT_QUEUE_MAX
    BY <1>2, <1>6 DEF InReach, QueueCapacity
  <2>5. Len(nodes) < JIT_QUEUE_MAX
    BY <1>1, <2>3, <2>4, JitAssumption
  <2> QED
    BY <1>1, <1>2, <1>6, <2>1, <2>5, ImmediateReach
<1> QED
  BY <1>3, <1>4, <1>5, <1>6

LEMMA InsertTime ==
  ASSUME Timely, TimeInv, InReach, InReach', NEW e \in Enqueuers, Insert(e)
  PROVE  QueueInv' /\ JitInv'
<1>0. /\ TypeOK /\ KindInv /\ ClockInv /\ QueueInv /\ JitInv
      /\ nodes \in Seq(Node) /\ jtime \in Time /\ now \in Time /\ etime[e] \in Time
      /\ epkt[e] \in Packet \cup {ZeroPacket}
  BY DEF TimeInv, TypeOK
<1>1. jpc # "scan" /\ epc[e] = "insert" /\ UNCHANGED jvars
  BY DEF Insert, MutexFree
<1>2. PICK pkt \in Scheduled(nodes, etime[e], epkt[e]) :
        \/ /\ Verdict(nodes, etime[e], pkt) = "OK"
           /\ nodes' \in Sorted(Append(nodes, NodeOf(pkt)))
        \/ UNCHANGED nodes
  BY DEF Insert
<1>3. CASE UNCHANGED nodes
  BY <1>0, <1>1, <1>3 DEF QueueInv, JitInv, Ahead, jvars
<1>4. CASE /\ Verdict(nodes, etime[e], pkt) = "OK"
           /\ nodes' \in Sorted(Append(nodes, NodeOf(pkt)))
  <2> DEFINE n == NodeOf(pkt)
             q == Append(nodes, n)
  <2>1. pkt \in Packet \cup {ZeroPacket}
    BY <1>0, ScheduledType
  <2>2. n \in Node /\ n.count = pkt.count
    BY <2>1, DelayType DEF NodeOf
  <2>3. Sub(pkt.count, etime[e]) <= REACH
    BY <1>4, RequestReach
  <2>4. /\ Ahead(n) >= TX_JIT_DELAY
        /\ Ahead(n) <= REACH + POLL_LAG
    <3>1. pkt.count \in Time
      BY <2>2 DEF Node
    <3>2. Sub(now, etime[e]) <= ENQ_LAG /\ Sub(now, jtime) <= POLL_LAG
      BY <1>0, <1>1 DEF ClockInv
    <3>3. /\ Sub(pkt.count, jtime) >= TX_JIT_DELAY
          /\ Sub(pkt.count, jtime) <= REACH + POLL_LAG
      BY <1>0, <1>4, <2>3, <3>1, <3>2, AcceptedAhead
    <3> QED
      BY <2>2, <3>3 DEF Ahead
  <2>5. /\ q \in Seq(Node) /\ DOMAIN q = 1 .. (Len(nodes) + 1)
        /\ Len(nodes) \in Nat /\ DOMAIN nodes = 1 .. Len(nodes)
        /\ q[Len(nodes) + 1] = n /\ \A i \in DOMAIN nodes : q[i] = nodes[i]
    BY <1>0, <2>2
  <2>6. \A i \in DOMAIN q : (i \in DOMAIN nodes /\ q[i] = nodes[i])
                              \/ (i \notin DOMAIN nodes /\ q[i] = n)
    BY <2>5
  <2>7. nodes' \in Sorted(q)
    BY <1>4
  <2> HIDE DEF q, n
  <2>8. \A i \in DOMAIN q : /\ Ahead(q[i]) >= TX_JIT_DELAY - POLL_LAG
                            /\ Ahead(q[i]) <= REACH + POLL_LAG
    <3>1. Ahead(n) >= TX_JIT_DELAY - POLL_LAG
      <4>1. Ahead(n) \in Nat
        BY <1>0, <2>2, SubValue DEF Ahead, Node
      <4> QED
        BY <2>4, <4>1, TimelyDelays
    <3> QED
      BY <1>0, <2>4, <2>6, <3>1 DEF QueueInv
  <2>9. /\ QueueInv'
        /\ \A i, j \in DOMAIN nodes' : i < j => Ahead(nodes'[i]) <= Ahead(nodes'[j])
        /\ \A i \in DOMAIN nodes' : \E k \in DOMAIN q : nodes'[i] = q[k]
    BY <1>0, <1>1, <2>5, <2>7, <2>8, SortedQueue DEF jvars
  <2>10. JitInv'
    <3>1. CASE jpc \in {"sleep", "status", "send"}
      <4>1. \A i \in DOMAIN q : Ahead(q[i]) >= TX_JIT_DELAY
        BY <1>0, <2>4, <2>6, <3>1 DEF JitInv
      <4>2. \A i \in DOMAIN nodes' : Ahead(nodes'[i]) >= TX_JIT_DELAY
        BY <2>9, <4>1
      <4> QED
        BY <1>0, <1>1, <3>1, <4>2 DEF JitInv, Ahead, jvars
    <3>2. CASE jpc = "dequeue"
      <4>1. /\ best = 1 /\ 1 \in DOMAIN nodes /\ Ahead(nodes[1]) < TX_JIT_DELAY
            /\ \A i \in DOMAIN nodes : i # 1 => Ahead(nodes[i]) >= TX_JIT_DELAY
        BY <1>0, <3>2 DEF JitInv
      <4>2. /\ 1 \in DOMAIN q /\ q[1] = nodes[1]
            /\ \A i \in DOMAIN q : i # 1 => Ahead(q[i]) >= TX_JIT_DELAY
        <5>1. 1 \in DOMAIN q
          BY <2>5
        <5> QED
          BY <2>4, <2>5, <2>6, <4>1, <5>1
      <4>3. TX_JIT_DELAY \in Nat
        BY TimelyDelays
      <4>4. /\ 1 \in DOMAIN nodes' /\ nodes'[1] = q[1]
            /\ \A i \in DOMAIN nodes' : i # 1 => Ahead(nodes'[i]) >= TX_JIT_DELAY
        <5>1. /\ Sub(q[1].count, jtime) < TX_JIT_DELAY
              /\ \A i \in DOMAIN q : i # 1 => Sub(q[i].count, jtime) >= TX_JIT_DELAY
          BY <4>1, <4>2 DEF Ahead
        <5>2. \A i, j \in DOMAIN nodes' :
                i < j => Sub(nodes'[i].count, jtime) <= Sub(nodes'[j].count, jtime)
          BY <2>9 DEF Ahead
        <5>3. q \in Seq(Node) /\ 1 \in DOMAIN q /\ jtime \in Time
          BY <1>0, <2>5, <4>2
        <5>4. /\ 1 \in DOMAIN nodes' /\ nodes'[1] = q[1]
              /\ \A i \in DOMAIN nodes' : i # 1 => Sub(nodes'[i].count, jtime) >= TX_JIT_DELAY
          BY <2>7, <4>3, <5>1, <5>2, <5>3, DueStaysFirst
        <5> QED
          BY <5>4 DEF Ahead
      <4> QED
        BY <1>1, <3>2, <4>1, <4>2, <4>4 DEF JitInv, Ahead, jvars
    <3>3. CASE jpc = "peek"
      BY <1>1, <3>3 DEF JitInv, jvars
    <3> QED
      BY <1>0, <1>1, <3>1, <3>2, <3>3 DEF TypeOK
  <2> QED
    BY <2>9, <2>10
<1> QED
  BY <1>2, <1>3, <1>4

LEMMA JitTimeTime ==
  ASSUME Timely, TimeInv, JitTime
  PROVE  QueueInv' /\ JitInv'
<1>0. /\ TypeOK /\ ClockInv /\ QueueInv /\ JitInv /\ jtime \in Time /\ now \in Time
      /\ Sub(now, jtime) \in Nat /\ Sub(now, jtime) <= POLL_LAG
  BY SubValue DEF TimeInv, TypeOK, ClockInv
<1>1. jpc = "sleep" /\ jpc' = "peek" /\ jtime' = now /\ UNCHANGED nodes
  BY DEF JitTime
<1>2. \A i \in DOMAIN nodes : /\ Ahead(nodes[i]) \in Nat
                              /\ Ahead(nodes[i]) >= TX_JIT_DELAY
                              /\ Ahead(nodes[i]) <= REACH + POLL_LAG
  BY <1>0, <1>1, AheadType DEF JitInv, QueueInv
<1>3. \A i \in DOMAIN nodes : Sub(nodes[i].count, now) = Ahead(nodes[i]) - Sub(now, jtime)
  <2> TAKE i \in DOMAIN nodes
  <2>1. nodes[i].count \in Time
    BY <1>0, AheadType
  <2>2. Sub(nodes[i].count, jtime) >= TX_JIT_DELAY - POLL_LAG
    BY <1>0 DEF QueueInv, Ahead
  <2> QED
    BY <1>0, <2>1, <2>2, Nearer DEF Ahead
<1>4. \A i \in DOMAIN nodes : /\ Sub(nodes[i].count, now) >= TX_JIT_DELAY - POLL_LAG
                              /\ Sub(nodes[i].count, now) <= REACH + POLL_LAG
  BY <1>0, <1>2, <1>3, TimelyDelays
<1>5. \A i, j \in DOMAIN nodes : i < j => Sub(nodes[i].count, now) <= Sub(nodes[j].count, now)
  <2> SUFFICES ASSUME NEW i \in DOMAIN nodes, NEW j \in DOMAIN nodes, i < j
               PROVE  Sub(nodes[i].count, now) <= Sub(nodes[j].count, now)
    OBVIOUS
  <2>1. Ahead(nodes[i]) <= Ahead(nodes[j])
    BY <1>0 DEF QueueInv
  <2> QED
    BY <1>0, <1>2, <1>3, <2>1
<1> QED
  BY <1>1, <1>4, <1>5 DEF QueueInv, JitInv, Ahead

LEMMA PeekDropTime ==
  ASSUME Timely, TimeInv, PeekDrop
  PROVE  QueueInv' /\ JitInv'
<1>0. TypeOK /\ QueueInv /\ JitInv
  BY DEF TimeInv
<1>1. /\ jpc = "scan" /\ jpc' = "scan" /\ scan \in DOMAIN nodes
      /\ Outdated(nodes[scan], jtime) /\ nodes' \in Sorted(TakeOut(nodes, scan))
      /\ scan' = 2 /\ best' = best /\ jtime' = jtime /\ scan \in Nat
  BY <1>0 DEF PeekDrop, TypeOK
<1>2. /\ QueueInv'
      /\ \A i, j \in DOMAIN nodes' : i < j => Ahead(nodes'[i]) <= Ahead(nodes'[j])
      /\ \A i \in DOMAIN nodes' : \E k \in DOMAIN nodes : k # scan /\ nodes'[i] = nodes[k]
      /\ \A k \in DOMAIN nodes : k # scan => \E i \in DOMAIN nodes' : nodes'[i] = nodes[k]
  BY <1>0, <1>1, TakenQueue
<1>3. \A i \in DOMAIN nodes : Ahead(nodes[i]) \in Nat /\ TX_MAX_ADVANCE_DELAY \in Nat
  BY <1>0, AheadType, TimelyDelays
<1>4. CASE best = 1 /\ 1 \in DOMAIN nodes /\ ~Outdated(nodes[1], jtime)
  <2>1. scan # 1
    BY <1>1, <1>4
  <2>2. PICK i \in DOMAIN nodes' : nodes'[i] = nodes[1]
    BY <1>2, <1>4, <2>1
  <2>3. 1 \in DOMAIN nodes' /\ i \in Nat /\ (i = 1 \/ 1 < i)
    <3>1. nodes' \in Seq(Node)
      BY <1>0, NextType DEF Next, Jit, TypeOK
    <3> QED
      BY <3>1
  <2>4. PICK k \in DOMAIN nodes : nodes'[1] = nodes[k]
    BY <1>2, <2>3
  <2>5. Ahead(nodes[k]) <= Ahead(nodes[1])
    <3>1. CASE i = 1
      BY <1>3, <1>4, <2>2, <2>4, <3>1
    <3>2. CASE 1 < i
      BY <1>2, <2>2, <2>3, <2>4, <3>2
    <3> QED
      BY <2>3, <3>1, <3>2
  <2>6. ~(Ahead(nodes[1]) >= TX_MAX_ADVANCE_DELAY)
    BY <1>4 DEF Outdated, Ahead
  <2>7. ~(Ahead(nodes[k]) >= TX_MAX_ADVANCE_DELAY)
    BY <1>3, <1>4, <2>5, <2>6
  <2>8. ~Outdated(nodes'[1], jtime')
    BY <1>1, <2>4, <2>7 DEF Outdated, Ahead
  <2> QED
    BY <1>1, <1>2, <1>4, <2>3, <2>8 DEF JitInv
<1>5. CASE best = 0 /\ (scan >= 2 => \A i \in DOMAIN nodes : Outdated(nodes[i], jtime))
  <2>1. \A i \in DOMAIN nodes : Outdated(nodes[i], jtime)
    <3>1. CASE scan >= 2
      BY <1>5, <3>1
    <3>2. CASE ~(scan >= 2)
      <4>1. scan = 1 /\ 1 \in DOMAIN nodes
        BY <1>0, <1>1, <3>2 DEF TypeOK
      <4>2. Ahead(nodes[1]) >= TX_MAX_ADVANCE_DELAY
        BY <1>1, <4>1 DEF Outdated, Ahead
      <4>3. \A i \in DOMAIN nodes : Ahead(nodes[i]) >= TX_MAX_ADVANCE_DELAY
        <5> TAKE i \in DOMAIN nodes
        <5>1. i = 1 \/ 1 < i
          BY <1>0 DEF TypeOK
        <5>2. CASE 1 < i
          <6>1. Ahead(nodes[1]) <= Ahead(nodes[i])
            BY <1>0, <4>1, <5>2 DEF QueueInv
          <6> QED
            BY <1>3, <4>1, <4>2, <6>1
        <5> QED
          BY <4>2, <5>1, <5>2
      <4> QED
        BY <4>3 DEF Outdated, Ahead
    <3> QED
      BY <3>1, <3>2
  <2>2. \A i \in DOMAIN nodes' : Outdated(nodes'[i], jtime')
    BY <1>1, <1>2, <2>1
  <2> QED
    BY <1>1, <1>2, <1>5, <2>2 DEF JitInv
<1> QED
  BY <1>0, <1>1, <1>4, <1>5 DEF JitInv

LEMMA PeekScanTime ==
  ASSUME Timely, TimeInv, PeekScan
  PROVE  QueueInv' /\ JitInv'
<1>0. TypeOK /\ QueueInv /\ JitInv
  BY DEF TimeInv
<1>1. /\ jpc = "scan" /\ jpc' = "scan" /\ scan \in DOMAIN nodes
      /\ ~Outdated(nodes[scan], jtime)
      /\ best' = IF best = 0 \/ Sooner(scan, best) THEN scan ELSE best
      /\ scan' = scan + 1 /\ scan \in Nat /\ UNCHANGED <<nodes, jtime>>
  BY <1>0 DEF PeekScan, TypeOK
<1>2. QueueInv'
  BY <1>0, <1>1 DEF QueueInv, Ahead
<1>3. best' = 1 /\ 1 \in DOMAIN nodes /\ ~Outdated(nodes[1], jtime)
  <2>1. CASE best = 1 /\ 1 \in DOMAIN nodes /\ ~Outdated(nodes[1], jtime)
    <3>1. Ahead(nodes[1]) \in Nat /\ Ahead(nodes[scan]) \in Nat
      BY <1>0, <1>1, <2>1, AheadType
    <3>2. scan = 1 \/ Ahead(nodes[1]) <= Ahead(nodes[scan])
      <4>1. scan = 1 \/ 1 < scan
        BY <1>0, <1>1 DEF TypeOK
      <4> QED
        BY <1>0, <1>1, <2>1, <4>1 DEF QueueInv
    <3>3. ~(Ahead(nodes[scan]) < Ahead(nodes[1])) \/ scan = 1
      BY <3>1, <3>2
    <3>4. ~Sooner(scan, best) \/ scan = 1
      BY <1>1, <2>1, <3>3 DEF Sooner, NodeAt, Ahead
    <3> QED
      BY <1>1, <2>1, <3>4
  <2>2. CASE best = 0 /\ (scan >= 2 => \A i \in DOMAIN nodes : Outdated(nodes[i], jtime))
    <3>1. ~(scan >= 2)
      BY <1>1, <2>2
    <3>2. scan = 1
      BY <1>0, <1>1, <3>1 DEF TypeOK
    <3> QED
      BY <1>1, <2>2, <3>2
  <2> QED
    BY <1>0, <1>1, <2>1, <2>2 DEF JitInv
<1>4. scan' >= 1
  BY <1>1
<1> QED
  BY <1>1, <1>2, <1>3, <1>4 DEF JitInv

\* The nodes behind the first one are at least its time on air and TX_JIT_DELAY
\* later, so that only the first can be due.
LEMMA PeekEndTime ==
  ASSUME Timely, TimeInv, PeekEnd
  PROVE  QueueInv' /\ JitInv'
<1>0. TypeOK /\ NoOverlap /\ KindInv /\ QueueInv /\ JitInv
  BY DEF TimeInv
<1>1. /\ jpc = "scan" /\ scan > Len(nodes) /\ scan \in Nat
      /\ jpc' = IF best # 0 /\ Sub(NodeAt(nodes, best).count, jtime) < TX_JIT_DELAY
                  THEN "dequeue" ELSE "sleep"
      /\ best' = IF jpc' = "dequeue" THEN best ELSE 0
      /\ UNCHANGED <<nodes, jtime>>
  BY <1>0 DEF PeekEnd, TypeOK
<1>2. QueueInv'
  BY <1>0, <1>1 DEF QueueInv, Ahead
<1>3. \A i \in DOMAIN nodes : /\ i = 1 \/ 1 < i
                              /\ Ahead(nodes[i]) \in Nat
                              /\ TX_JIT_DELAY \in Nat /\ TX_MAX_ADVANCE_DELAY \in Nat
  <2>1. nodes \in Seq(Node)
    BY <1>0 DEF TypeOK
  <2>2. \A i \in DOMAIN nodes : i = 1 \/ 1 < i
    BY <2>1
  <2>3. \A i \in DOMAIN nodes : Ahead(nodes[i]) \in Nat
    BY <1>0, <2>1, AheadType
  <2> QED
    BY <2>2, <2>3, TimelyDelays
<1>4. CASE best = 1 /\ 1 \in DOMAIN nodes /\ ~Outdated(nodes[1], jtime)
  <2>1. NodeAt(nodes, best) = nodes[1]
    BY <1>4 DEF NodeAt
  <2>2. CASE Ahead(nodes[1]) < TX_JIT_DELAY
    <3>1. jpc' = "dequeue" /\ best' = 1
      BY <1>1, <1>4, <2>1, <2>2 DEF Ahead
    <3>2. ASSUME NEW i \in DOMAIN nodes, i # 1
          PROVE  Ahead(nodes[i]) >= TX_JIT_DELAY
      <4>1. Ahead(nodes[1]) <= Ahead(nodes[i])
        BY <1>0, <1>3, <1>4, <3>2 DEF QueueInv
      <4>2. Sub(nodes[i].count, nodes[1].count) = Ahead(nodes[i]) - Ahead(nodes[1])
        <5>1. nodes[i].count \in Time /\ nodes[1].count \in Time /\ jtime \in Time
          BY <1>0, <1>4, AheadType DEF TypeOK
        <5> QED
          BY <4>1, <5>1, SubLater DEF Ahead
      <4>3. Clear(nodes[1], nodes[i])
        BY <1>0, <1>4, <3>2 DEF NoOverlap
      <4>4. ~(Sub(nodes[i].count, nodes[1].count)
                <= GuardedPre(nodes[i], nodes[1]) + nodes[1].post + TX_MARGIN_DELAY)
        BY <4>3 DEF Clear, CollisionTest
      <4>5. /\ nodes[1].post \in Nat /\ TX_START_DELAY \in Nat /\ BEACON_GUARD \in Nat
            /\ TX_JIT_DELAY \in Nat
        BY <1>0, <1>4, AheadType, JitAssumption DEF Node
      <4>6. OfKind(nodes[1]) /\ OfKind(nodes[i])
        BY <1>0, <1>4 DEF KindInv
      <4>7. CASE GuardedPre(nodes[i], nodes[1]) = TX_START_DELAY
                 /\ nodes[i].type = "BEACON" /\ nodes[1].type # "BEACON"
        <5>1. POLL_LAG <= TX_START_DELAY + TX_MARGIN_DELAY + nodes[1].post
          BY <4>6, <4>7 DEF OfKind, Timely
        <5>2. Ahead(nodes[1]) >= TX_JIT_DELAY - POLL_LAG
          BY <1>0, <1>4 DEF QueueInv
        <5> QED
          BY <1>3, <1>4, <4>2, <4>4, <4>5, <4>7, <5>1, <5>2, TimelyDelays
      <4>8. CASE GuardedPre(nodes[i], nodes[1]) \in Nat
                 /\ GuardedPre(nodes[i], nodes[1]) >= TX_JIT_DELAY
        BY <1>3, <1>4, <4>2, <4>4, <4>5, <4>8, TimelyDelays
      <4> QED
        <5>1. CASE nodes[i].type = "BEACON" /\ nodes[1].type \in {"A", "C"}
          BY <4>7, <5>1 DEF GuardedPre
        <5>2. CASE ~(nodes[i].type = "BEACON" /\ nodes[1].type \in {"A", "C"})
          <6>1. GuardedPre(nodes[i], nodes[1]) = PreDelay(nodes[i].type)
            BY <4>6, <5>2 DEF OfKind, GuardedPre
          <6>2. PreDelay(nodes[i].type) \in Nat /\ PreDelay(nodes[i].type) >= TX_JIT_DELAY
            BY <4>5 DEF PreDelay
          <6> QED
            BY <4>8, <6>1, <6>2
        <5> QED
          BY <5>1, <5>2
    <3> QED
      BY <1>1, <1>2, <1>4, <2>2, <3>1, <3>2 DEF JitInv, Ahead
  <2>3. CASE ~(Ahead(nodes[1]) < TX_JIT_DELAY)
    <3>1. jpc' = "sleep"
      BY <1>1, <2>1, <2>3 DEF Ahead
    <3>2. ASSUME NEW i \in DOMAIN nodes
          PROVE  Ahead(nodes[i]) >= TX_JIT_DELAY
      <4>1. i = 1 \/ Ahead(nodes[1]) <= Ahead(nodes[i])
        BY <1>0, <1>3, <1>4 DEF QueueInv
      <4> QED
        BY <1>3, <1>4, <2>3, <4>1
    <3> QED
      BY <1>1, <1>2, <3>1, <3>2 DEF JitInv, Ahead
  <2> QED
    BY <2>2, <2>3
<1>5. CASE best = 0 /\ (scan >= 2 => \A i \in DOMAIN nodes : Outdated(nodes[i], jtime))
  <2>1. jpc' = "sleep"
    BY <1>1, <1>5
  <2>2. ASSUME NEW i \in DOMAIN nodes
        PROVE  Ahead(nodes[i]) >= TX_JIT_DELAY
    <3>1. scan >= 2
      BY <1>0, <1>1 DEF TypeOK
    <3>2. Ahead(nodes[i]) >= TX_MAX_ADVANCE_DELAY
      BY <1>5, <3>1 DEF Outdated, Ahead
    <3> QED
      BY <1>3, <3>2, TimelyDelays
  <2> QED
    BY <1>1, <1>2, <2>1, <2>2 DEF JitInv, Ahead
<1> QED
  BY <1>0, <1>1, <1>4, <1>5 DEF JitInv

LEMMA JitDequeueTime ==
  ASSUME Timely, TimeInv, JitDequeue
  PROVE  QueueInv' /\ JitInv'
<1>0. TypeOK /\ QueueInv /\ JitInv
  BY DEF TimeInv
<1>1. /\ jpc = "dequeue" /\ best = 1 /\ 1 \in DOMAIN nodes
      /\ Ahead(nodes[1]) < TX_JIT_DELAY
      /\ \A i \in DOMAIN nodes : i # 1 => Ahead(nodes[i]) >= TX_JIT_DELAY
  BY <1>0 DEF JitDequeue, JitInv
<1>2. nodes # <<>> /\ ~(best > JIT_QUEUE_MAX)
  BY <1>0, <1>1, JitAssumption DEF TypeOK
<1>3. /\ jpkt' = nodes[1] /\ jpc' = "status" /\ jtime' = jtime
      /\ nodes' \in Sorted(TakeOut(nodes, 1))
  BY <1>1, <1>2 DEF JitDequeue, NodeAt
<1>4. /\ QueueInv'
      /\ \A i \in DOMAIN nodes' : \E k \in DOMAIN nodes : k # 1 /\ nodes'[i] = nodes[k]
  BY <1>0, <1>1, <1>3, TakenQueue
<1>5. \A i \in DOMAIN nodes' : Ahead(nodes'[i]) >= TX_JIT_DELAY
  BY <1>1, <1>4
<1>6. Ahead(nodes[1]) >= TX_JIT_DELAY - POLL_LAG
  BY <1>0, <1>1 DEF QueueInv
<1> QED
  BY <1>1, <1>3, <1>4, <1>5, <1>6 DEF JitInv, Ahead

LEMMA NextTime ==
  ASSUME Timely
  PROVE  TimeInv /\ InReach /\ InReach' /\ [Next]_vars => TimeInv'
<1> SUFFICES ASSUME TimeInv, InReach, InReach', [Next]_vars PROVE TimeInv'
  OBVIOUS
<1>0. TypeOK /\ NoOverlap /\ KindInv /\ ClockInv /\ QueueInv /\ JitInv
  BY DEF TimeInv
<1>1. TypeOK' /\ NoOverlap' /\ KindInv' /\ ClockInv'
  BY <1>0, NextType, NextNoOverlap, NextKind, NextClock
<1>2. CASE \/ Tick \/ UNCHANGED vars
           \/ \E e \in Enqueuers : Request(e) \/ CheckFull(e) \/ Return(e)
  <2>1. UNCHANGED <<nodes, jvars>>
    BY <1>2 DEF Tick, vars, Request, CheckFull, Return
  <2> QED
    BY <1>0, <1>1, <2>1 DEF TimeInv, QueueInv, JitInv, Ahead, jvars
<1>3. CASE PeekBegin
  <2>1. /\ UNCHANGED <<nodes, jtime, jpkt>> /\ jpc = "peek"
        /\ \/ nodes = <<>> /\ jpc' = "sleep"
           \/ jpc' = "scan" /\ scan' = 1 /\ best' = 0
    BY <1>3 DEF PeekBegin
  <2>2. QueueInv'
    BY <1>0, <2>1 DEF QueueInv, Ahead
  <2>3. JitInv'
    BY <2>1 DEF JitInv
  <2> QED
    BY <1>1, <2>2, <2>3 DEF TimeInv
<1>4. CASE JitStatus
  <2>1. /\ UNCHANGED <<nodes, jtime>> /\ jpc = "status"
        /\ jpc' = "sleep" \/ (jpc' = "send" /\ jpkt' = jpkt)
    BY <1>4 DEF JitStatus
  <2> QED
    BY <1>0, <1>1, <2>1 DEF TimeInv, QueueInv, JitInv, Ahead
<1>5. CASE JitSend
  <2>1. UNCHANGED <<nodes, jtime>> /\ jpc = "send" /\ jpc' = "sleep"
    BY <1>5 DEF JitSend
  <2> QED
    BY <1>0, <1>1, <2>1 DEF TimeInv, QueueInv, JitInv, Ahead
<1> QED
  BY <1>0, <1>1, <1>2, <1>3, <1>4, <1>5, InsertTime, JitTimeTime, PeekDropTime,
     PeekScanTime, PeekEndTime, JitDequeueTime DEF TimeInv, Next, Enqueue, Jit

LEMMA InitTime ==
  ASSUME Timely
  PROVE  Init => TimeInv
<1> SUFFICES ASSUME Init PROVE TimeInv
  OBVIOUS
<1>1. TypeOK /\ NoOverlap /\ KindInv
  BY InitType DEF Init, NoOverlap, KindInv
<1>2. ClockInv
  <2>1. Start \in Time
    BY JitQueueAssumption
  <2>2. Sub(Start, Start) = 0
    BY <2>1, SubValue, JitAssumption DEF Time
  <2> QED
    BY <2>2, TimelyDelays DEF Init, ClockInv
<1>3. QueueInv /\ JitInv
  BY DEF Init, QueueInv, JitInv
<1> QED
  BY <1>1, <1>2, <1>3 DEF TimeInv

\* Every packet handed to the radio is handed over in its window: early enough
\* for the radio, TX_START_DELAY before its departure, and never more than
\* TX_JIT_DELAY before it; downlinks of all classes and beacons alike.
THEOREM AcceptedSentOnTime ==
  ASSUME Timely
  PROVE  Spec /\ []InReach => []SentOnTime
<1>1. TimeInv => SentOnTime
  <2> SUFFICES ASSUME TimeInv, jpc = "send"
               PROVE  Sub(jpkt.count, now) \in TX_START_DELAY .. TX_JIT_DELAY
    BY DEF SentOnTime
  <2>1. /\ TypeOK /\ Sub(now, jtime) <= POLL_LAG /\ now \in Time /\ jtime \in Time
        /\ Ahead(jpkt) >= TX_JIT_DELAY - POLL_LAG /\ Ahead(jpkt) < TX_JIT_DELAY
    BY DEF TimeInv, TypeOK, ClockInv, JitInv
  <2>2. jpkt.count \in Time /\ Ahead(jpkt) \in Nat /\ Sub(now, jtime) \in Nat
    BY <2>1, AheadType, SubValue
  <2>3. Sub(jpkt.count, now) = Ahead(jpkt) - Sub(now, jtime)
    BY <2>1, <2>2, Nearer DEF Ahead
  <2> QED
    BY <2>1, <2>2, <2>3, TimelyDelays
<1> QED
  BY <1>1, InitTime, NextTime, PTL DEF Spec

\* No accepted packet is still queued at its departure: jit_peek
\* never passes it over until it is too late.  (One accepted at the very edge of
\* TX_MAX_ADVANCE_DELAY may be dropped as outdated, far ahead of its departure.)
THEOREM AcceptedNeverMissed ==
  ASSUME Timely
  PROVE  Spec /\ []InReach => []NeverMissed
<1>1. TimeInv => NeverMissed
  <2> SUFFICES ASSUME TimeInv, NEW i \in DOMAIN nodes
               PROVE  2 * Sub(nodes[i].count, now) < W
    BY DEF NeverMissed
  <2>1. /\ TypeOK /\ Sub(now, jtime) <= POLL_LAG /\ now \in Time /\ jtime \in Time
        /\ Ahead(nodes[i]) >= TX_JIT_DELAY - POLL_LAG
        /\ Ahead(nodes[i]) <= REACH + POLL_LAG
    BY DEF TimeInv, TypeOK, ClockInv, QueueInv
  <2>2. nodes[i].count \in Time /\ Ahead(nodes[i]) \in Nat /\ Sub(now, jtime) \in Nat
    BY <2>1, AheadType, SubValue
  <2>3. Sub(nodes[i].count, now) = Ahead(nodes[i]) - Sub(now, jtime)
    BY <2>1, <2>2, Nearer DEF Ahead
  <2> QED
    BY <2>1, <2>2, <2>3, TimelyDelays
<1> QED
  BY <1>1, InitTime, NextTime, PTL DEF Spec

\* With timestamped downlinks only there is nothing to ask of the requests:
\* criterion 2 keeps what is queued within reach.
THEOREM DownlinksInReach ==
  ASSUME Types \subseteq {"A", "B"}
  PROVE  Spec => []InReach
<1>1. Init => TypeOK /\ KindInv
  BY InitType DEF Init, KindInv
<1>2. TypeOK /\ KindInv /\ [Next]_vars => (TypeOK /\ KindInv)'
  BY NextType, NextKind
<1>3. KindInv => InReach
  BY DEF KindInv, InReach
<1> QED
  BY <1>1, <1>2, <1>3, PTL DEF Spec

-----------------------------------------------------------------------------
(* The number of beacons.  jit_dequeue takes the node at the index found by *)
(* jit_peek: were the index past the queue, it would drop the last node     *)
(* without looking at its type.                                             *)

LEMMA BeaconsFinite ==
  ASSUME NEW q \in Seq(Node)
  PROVE  IsFiniteSet(BeaconsIn(q)) /\ Cardinality(BeaconsIn(q)) \in Nat
<1>1. 1 \in Int /\ Len(q) \in Int /\ DOMAIN q = 1 .. Len(q)
  OBVIOUS
<1>2. IsFiniteSet(1 .. Len(q))
  BY <1>1, FS_Interval
<1>3. BeaconsIn(q) \subseteq 1 .. Len(q)
  BY <1>1 DEF BeaconsIn
<1> QED
  BY <1>2, <1>3, FS_Subset, FS_CardinalityType

LEMMA SortedBeacons ==
  ASSUME NEW q \in Seq(Node), NEW s \in Sorted(q)
  PROVE  Cardinality(BeaconsIn(s)) = Cardinality(BeaconsIn(q))
<1>1. PICK p \in [DOMAIN s -> DOMAIN q] :
           /\ \A i \in DOMAIN s : s[i] = q[p[i]]
           /\ \A i, j \in DOMAIN s : p[i] = p[j] => i = j
           /\ \A k \in DOMAIN q : \E i \in DOMAIN s : p[i] = k
  BY SortedPlaces
<1> DEFINE f == [i \in BeaconsIn(s) |-> p[i]]
<1>2. f \in [BeaconsIn(s) -> BeaconsIn(q)]
  BY <1>1 DEF BeaconsIn
<1>3. \A i, j \in BeaconsIn(s) : f[i] = f[j] => i = j
  BY <1>1 DEF BeaconsIn
<1>4. \A k \in BeaconsIn(q) : \E i \in BeaconsIn(s) : f[i] = k
  BY <1>1 DEF BeaconsIn
<1> HIDE DEF f
<1>5. f \in Bijection(BeaconsIn(s), BeaconsIn(q))
  BY <1>2, <1>3, <1>4 DEF Bijection, Injection, Surjection, IsInjective
<1>6. IsFiniteSet(BeaconsIn(s))
  BY SortedType, BeaconsFinite
<1> QED
  BY <1>5, <1>6, FS_Bijection DEF ExistsBijection

LEMMA AppendBeacons ==
  ASSUME NEW q \in Seq(Node), NEW n \in Node
  PROVE  Cardinality(BeaconsIn(Append(q, n)))
           = Cardinality(BeaconsIn(q)) + IF n.type = "BEACON" THEN 1 ELSE 0
<1> DEFINE r == Append(q, n)
           l == Len(q) + 1
<1>1. /\ DOMAIN q = 1 .. Len(q) /\ DOMAIN r = DOMAIN q \cup {l} /\ l \notin DOMAIN q
      /\ r[l] = n /\ \A i \in DOMAIN q : r[i] = q[i]
  OBVIOUS
<1>2. IsFiniteSet(BeaconsIn(q)) /\ l \notin BeaconsIn(q) /\ Cardinality(BeaconsIn(q)) \in Nat
  BY <1>1, BeaconsFinite DEF BeaconsIn
<1> HIDE DEF r, l
<1>3. CASE n.type = "BEACON"
  <2>1. BeaconsIn(r) = BeaconsIn(q) \cup {l}
    BY <1>1, <1>3 DEF BeaconsIn
  <2>2. Cardinality(BeaconsIn(q) \cup {l}) = Cardinality(BeaconsIn(q)) + 1
    BY <1>2, FS_AddElement
  <2> QED
    BY <1>3, <2>1, <2>2 DEF r
<1>4. CASE n.type # "BEACON"
  <2>1. BeaconsIn(r) = BeaconsIn(q)
    BY <1>1, <1>4 DEF BeaconsIn
  <2> QED
    BY <1>2, <1>4, <2>1 DEF r
<1> QED
  BY <1>3, <1>4

LEMMA TakeOutBeacons ==
  ASSUME NEW q \in Seq(Node), NEW n \in DOMAIN q
  PROVE  Cardinality(BeaconsIn(TakeOut(q, n)))
           = Cardinality(BeaconsIn(q)) - IF q[n].type = "BEACON" THEN 1 ELSE 0
<1> DEFINE r == TakeOut(q, n)
           L == Len(q)
           S == BeaconsIn(q) \ {n}
           f == [k \in S |-> IF k = L THEN n ELSE k]
<1>1. /\ DOMAIN q = 1 .. L /\ L \in Nat /\ n \in 1 .. L /\ DOMAIN r = 1 .. (L - 1)
      /\ \A i \in 1 .. (L - 1) : r[i] = IF i = n THEN q[L] ELSE q[i]
  BY DEF TakeOut
<1>2. S = {k \in 1 .. L : q[k].type = "BEACON" /\ k # n}
  BY <1>1 DEF BeaconsIn
<1>3. BeaconsIn(r) = {i \in 1 .. (L - 1) : r[i].type = "BEACON"}
  BY <1>1 DEF BeaconsIn
<1> HIDE DEF r, L, S
<1>4. ASSUME NEW k \in S
      PROVE  f[k] \in BeaconsIn(r)
  <2>1. CASE k = L
    <3>1. f[k] = n /\ n \in 1 .. (L - 1)
      BY <1>1, <1>2, <2>1
    <3> QED
      BY <1>1, <1>2, <1>3, <2>1, <3>1
  <2>2. CASE k # L
    <3>1. f[k] = k /\ k \in 1 .. (L - 1) /\ k # n
      BY <1>1, <1>2, <2>2
    <3> QED
      BY <1>1, <1>2, <1>3, <3>1
  <2> QED
    BY <2>1, <2>2
<1>5. f \in [S -> BeaconsIn(r)]
  BY <1>4
<1>6. \A i, j \in S : f[i] = f[j] => i = j
  BY <1>2
<1>7. ASSUME NEW i \in BeaconsIn(r)
      PROVE  \E k \in S : f[k] = i
  <2>1. CASE i = n
    <3>1. L \in S
      BY <1>1, <1>2, <1>3, <2>1
    <3> QED
      BY <2>1, <3>1
  <2>2. CASE i # n
    <3>1. i \in S /\ i # L
      BY <1>1, <1>2, <1>3, <2>2
    <3> QED
      BY <3>1
  <2> QED
    BY <2>1, <2>2
<1> HIDE DEF f
<1>8. f \in Bijection(S, BeaconsIn(r))
  BY <1>5, <1>6, <1>7 DEF Bijection, Injection, Surjection, IsInjective
<1>9. /\ IsFiniteSet(S)
      /\ Cardinality(S) = IF n \in BeaconsIn(q) THEN Cardinality(BeaconsIn(q)) - 1
                                                ELSE Cardinality(BeaconsIn(q))
  BY BeaconsFinite, FS_RemoveElement DEF S
<1>10. Cardinality(BeaconsIn(r)) = Cardinality(S)
  BY <1>8, <1>9, FS_Bijection DEF ExistsBijection
<1>11. n \in BeaconsIn(q) <=> q[n].type = "BEACON"
  BY DEF BeaconsIn
<1>12. Cardinality(BeaconsIn(q)) \in Nat
  BY BeaconsFinite
<1> QED
  BY <1>9, <1>10, <1>11, <1>12 DEF r

LEMMA ApartDistinct ==
  ASSUME NEW q \in Seq(Node), Apart(q), NEW i \in DOMAIN q, NEW j \in DOMAIN q, i # j
  PROVE  q[i].count # q[j].count
<1>1. /\ q[i] \in Node /\ q[j] \in Node
      /\ Clear(q[i], q[j])
  BY DEF Apart
<1>2. /\ q[i].count \in Time /\ q[j].count \in Time
      /\ q[i].pre \in Nat /\ q[j].post \in Nat
  BY <1>1 DEF Node
<1>3. GuardedPre(q[i], q[j]) \in Nat /\ TX_MARGIN_DELAY \in Nat
  BY <1>2, JitAssumption DEF GuardedPre
<1>4. ~(Sub(q[i].count, q[j].count)
          <= GuardedPre(q[i], q[j]) + q[j].post + TX_MARGIN_DELAY)
  BY <1>1 DEF Clear, CollisionTest
<1>5. Sub(q[i].count, q[j].count) \in Nat
  BY <1>2, SubValue
<1>6. Sub(q[i].count, q[j].count) # 0
  BY <1>2, <1>3, <1>4, <1>5
<1>7. \A c \in Time : Sub(c, c) = 0
  BY SubSelf
<1> QED
  BY <1>2, <1>6, <1>7

LEMMA SubDistinct ==
  ASSUME NEW a \in Time, NEW b \in Time, NEW t \in Time, Sub(a, t) = Sub(b, t)
  PROVE  a = b
<1> DEFINE x == Sub(a, t)
           y == Sub(b, t)
<1>1. /\ W \in Nat \ {0} /\ a \in Nat /\ b \in Nat /\ t \in Nat /\ a < W /\ b < W /\ t < W
  BY JitAssumption DEF Time
<1>2. /\ x = IF a >= t THEN a - t ELSE a - t + W
      /\ y = IF b >= t THEN b - t ELSE b - t + W
      /\ x \in Nat /\ y \in Nat /\ x = y
  BY SubValue
<1> HIDE DEF x, y
<1> QED
  BY <1>1, <1>2

\* The sort after a node was taken out leaves those before it where they were:
\* departures are distinct, and the order of the queue is theirs.
LEMMA DropKeepsFront ==
  ASSUME NEW q \in Seq(Node), NEW n \in DOMAIN q, NEW s \in Sorted(TakeOut(q, n)),
         Apart(q), NEW t \in Time, Within(q, t), InOrder(q, t),
         NEW x \in DOMAIN s, x < n
  PROVE  s[x] = q[x]
<1> DEFINE r == TakeOut(q, n)
           a(c) == Sub(c, t)
<1>1. r \in Seq(Node) /\ Len(r) = Len(q) - 1 /\ Apart(r)
  <2>1. q # <<>> /\ n \in Nat
    OBVIOUS
  <2> QED
    BY <2>1, TakeOutType, TakeOutApart
<1>2. \A i \in DOMAIN r : \E k \in DOMAIN q : k # n /\ r[i] = q[k]
  BY TakeOutPlaces
<1>3. \A k \in DOMAIN q : k # n => \E i \in DOMAIN r : r[i] = q[k]
  BY TakeOutPlaces
<1>4. s \in Sorted(r)
  OBVIOUS
<1> HIDE DEF r
<1>5. s \in Seq(Node) /\ Len(s) = Len(r) /\ Apart(s)
  BY <1>1, <1>4, SortedType, SortedApart
<1>6. /\ \A i \in DOMAIN s : \E k \in DOMAIN r : s[i] = r[k]
      /\ \A k \in DOMAIN r : \E i \in DOMAIN s : s[i] = r[k]
  BY <1>1, <1>4, SortedPlaces
<1>7. InOrder(s, t)
  <2>1. Within(r, t)
    BY <1>2 DEF Within
  <2> QED
    BY <1>1, <1>4, <2>1, SortedAscending
<1>8. /\ DOMAIN s = 1 .. Len(s) /\ DOMAIN q = 1 .. Len(q)
      /\ Len(s) = Len(q) - 1 /\ Len(s) \in Nat /\ Len(q) \in Nat
  BY <1>1, <1>5
<1> DEFINE T == {i \in DOMAIN s : i < n /\ s[i] # q[i]}
<1> SUFFICES ASSUME T # {} PROVE FALSE
  OBVIOUS
<1>9. PICK i \in T : \A m \in T : i <= m
  <2>1. T \in SUBSET Nat
    BY <1>8
  <2> HIDE DEF T
  <2> QED
    BY <2>1, LeastNatural
<1>10. i \in DOMAIN s /\ i < n /\ s[i] # q[i] /\ i \in DOMAIN q /\ i # n /\ i \in Nat
  BY <1>8, <1>9
<1>11. PICK k \in DOMAIN q : k # n /\ s[i] = q[k]
  BY <1>2, <1>6, <1>10
<1>12. PICK m \in DOMAIN s : s[m] = q[i]
  BY <1>3, <1>6, <1>10
<1>13. i < m
  <2>1. m # i
    BY <1>10, <1>12
  <2>2. ASSUME m < i PROVE FALSE
    <3>1. m < n /\ m \in DOMAIN q /\ m \notin T
      BY <1>8, <1>9, <1>10, <1>12, <2>2
    <3>2. q[m] = q[i]
      BY <1>12, <3>1
    <3> QED
      BY <1>10, <2>1, <3>1, <3>2, ApartDistinct
  <2> QED
    BY <1>8, <1>10, <1>12, <2>1, <2>2
<1>14. a(q[k].count) <= a(q[i].count)
  <2>1. a(s[i].count) <= a(s[m].count)
    BY <1>7, <1>10, <1>12, <1>13 DEF InOrder
  <2> QED
    BY <1>11, <1>12, <2>1
<1>15. k < i
  <2>1. k # i
    BY <1>10, <1>11
  <2>2. ASSUME i < k PROVE FALSE
    <3>1. a(q[i].count) <= a(q[k].count)
      BY <1>10, <1>11, <2>2 DEF InOrder
    <3>2. q[i] \in Node /\ q[k] \in Node
      BY <1>10, <1>11
    <3>3. q[i].count \in Time /\ q[k].count \in Time
      BY <3>2 DEF Node
    <3>4. a(q[i].count) \in Nat /\ a(q[k].count) \in Nat
      BY <3>3, SubValue
    <3>5. a(q[i].count) = a(q[k].count)
      BY <1>14, <3>1, <3>4
    <3> QED
      BY <1>10, <1>11, <2>1, <3>3, <3>5, SubDistinct, ApartDistinct
  <2> QED
    BY <1>8, <1>10, <1>11, <2>1, <2>2
<1>16. k \in DOMAIN s /\ k < n /\ k \notin T
  BY <1>8, <1>9, <1>10, <1>11, <1>15
<1>17. s[k] = s[i]
  BY <1>11, <1>16
<1> QED
  BY <1>5, <1>10, <1>15, <1>16, <1>17, ApartDistinct

\* The departures in the queue lie within half the counter's range of some
\* instant, which is what the comparison of the sort takes for granted.
HalfRange == \E t \in Time : Within(nodes, t)

SortInv == \A t \in Time : Within(nodes, t) => InOrder(nodes, t)

\* jit_peek's candidate is a node of the queue, up to jit_dequeue.  The nodes
\* passed by the loop, the first one excepted, are not outdated: hence a drop
\* happens behind the candidate, also after the scan was restarted.
ScanInv ==
  /\ jpc = "scan" =>
       /\ scan >= 1
       /\ scan = 1 => best = 0
       /\ best <= Len(nodes)
       /\ \A i \in DOMAIN nodes :
            2 <= i /\ (i < scan \/ i <= best) => ~Outdated(nodes[i], jtime)
  /\ jpc = "dequeue" => best \in DOMAIN nodes

BeaconInv == TypeOK /\ NoOverlap /\ SortInv /\ ScanInv /\ BeaconCount

\* Any sort puts the queue in order.
LEMMA SortOrders ==
  ASSUME NEW q \in Seq(Node), nodes' \in Sorted(q)
  PROVE  SortInv'
<1> SUFFICES ASSUME NEW t \in Time, Within(nodes', t) PROVE InOrder(nodes', t)
  BY DEF SortInv, Within, InOrder
<1>1. \A k \in DOMAIN q : \E i \in DOMAIN nodes' : nodes'[i] = q[k]
  <2>1. PICK p \in [DOMAIN nodes' -> DOMAIN q] :
           /\ \A i \in DOMAIN nodes' : nodes'[i] = q[p[i]]
           /\ \A k \in DOMAIN q : \E i \in DOMAIN nodes' : p[i] = k
    BY SortedPlaces
  <2> QED
    BY <2>1
<1>2. Within(q, t)
  BY <1>1 DEF Within
<1> QED
  BY <1>2, SortedAscending

LEMMA Mod256 ==
  ASSUME NEW c \in Nat
  PROVE  /\ ((c % 256) + 1) % 256 = (c + 1) % 256
         /\ c # 0 => ((c % 256) - 1) % 256 = (c - 1) % 256
OBVIOUS

\* A node at an index of the queue is taken out, counted and the rest sorted.
LEMMA UncountedBeacons ==
  ASSUME TypeOK, BeaconCount, NEW n \in DOMAIN nodes, Uncount(nodes[n]),
         nodes' \in Sorted(TakeOut(nodes, n))
  PROVE  BeaconCount'
<1> DEFINE c == Cardinality(BeaconsIn(nodes))
           b == Cardinality(BeaconsIn(nodes'))
<1>1. nodes \in Seq(Node) /\ nodes # <<>> /\ n \in Nat
  BY DEF TypeOK
<1>2. b = Cardinality(BeaconsIn(TakeOut(nodes, n)))
  BY <1>1, TakeOutType, SortedBeacons
<1>3. b = c - IF nodes[n].type = "BEACON" THEN 1 ELSE 0
  BY <1>1, <1>2, TakeOutBeacons
<1>4. c \in Nat /\ b \in Nat
  <2>1. nodes' \in Seq(Node)
    BY <1>1, TakeOutType, SortedType
  <2> QED
    BY <1>1, <2>1, BeaconsFinite
<1>5. num_beacon = c % 256
  BY DEF BeaconCount
<1> HIDE DEF b, c
<1>6. CASE nodes[n].type = "BEACON"
  <2>1. num_beacon' = (num_beacon - 1) % 256 /\ b = c - 1 /\ c # 0
    BY <1>3, <1>4, <1>6 DEF Uncount
  <2>2. num_beacon' = b % 256
    BY <1>4, <1>5, <2>1, Mod256
  <2> QED
    BY <2>2 DEF BeaconCount, b
<1>7. CASE nodes[n].type # "BEACON"
  <2>1. num_beacon' = num_beacon /\ b = c
    BY <1>3, <1>4, <1>7 DEF Uncount
  <2> QED
    BY <1>5, <2>1 DEF BeaconCount, b
<1> QED
  BY <1>6, <1>7

LEMMA NextBeacon == BeaconInv /\ HalfRange /\ [Next]_vars => BeaconInv'
<1> SUFFICES ASSUME BeaconInv, HalfRange, [Next]_vars PROVE BeaconInv'
  OBVIOUS
<1>0. /\ TypeOK /\ NoOverlap /\ SortInv /\ ScanInv /\ BeaconCount
      /\ nodes \in Seq(Node) /\ scan \in Nat /\ best \in Nat
      /\ DOMAIN nodes = 1 .. Len(nodes) /\ Len(nodes) \in Nat
  BY DEF BeaconInv, TypeOK
<1>1. TypeOK' /\ NoOverlap'
  BY <1>0, NextType, NextNoOverlap
<1> SUFFICES SortInv' /\ ScanInv' /\ BeaconCount'
  BY <1>1 DEF BeaconInv
<1>2. ASSUME NEW e \in Enqueuers, Insert(e) PROVE SortInv' /\ ScanInv' /\ BeaconCount'
  <2>1. PICK pkt \in Scheduled(nodes, etime[e], epkt[e]) :
          \/ /\ Verdict(nodes, etime[e], pkt) = "OK"
             /\ nodes' \in Sorted(Append(nodes, NodeOf(pkt)))
             /\ num_beacon' = IF pkt.type = "BEACON" THEN (num_beacon + 1) % 256
                                                     ELSE num_beacon
          \/ UNCHANGED <<nodes, num_beacon>>
    BY <1>2 DEF Insert
  <2>2. jpc # "scan" /\ UNCHANGED jvars
    BY <1>2 DEF Insert, MutexFree
  <2>3. CASE UNCHANGED <<nodes, num_beacon>>
    BY <1>0, <2>2, <2>3 DEF SortInv, Within, InOrder, ScanInv, BeaconCount, jvars
  <2>4. CASE /\ nodes' \in Sorted(Append(nodes, NodeOf(pkt)))
             /\ num_beacon' = IF pkt.type = "BEACON" THEN (num_beacon + 1) % 256
                                                     ELSE num_beacon
    <3> DEFINE n == NodeOf(pkt)
               q == Append(nodes, n)
    <3>1. n \in Node /\ n.type = pkt.type
      BY <1>0, ScheduledType, DelayType DEF TypeOK, NodeOf
    <3>2. q \in Seq(Node) /\ Len(q) = Len(nodes) + 1 /\ nodes' \in Sorted(q)
      BY <1>0, <2>4, <3>1
    <3>3. Cardinality(BeaconsIn(q))
            = Cardinality(BeaconsIn(nodes)) + IF n.type = "BEACON" THEN 1 ELSE 0
      BY <1>0, <3>1, AppendBeacons
    <3> HIDE DEF q, n
    <3>4. SortInv'
      BY <3>2, SortOrders
    <3>5. nodes' \in Seq(Node) /\ Len(nodes') = Len(nodes) + 1
      BY <3>2, SortedType
    <3>6. ScanInv'
      <4>1. jpc = "dequeue" => best \in DOMAIN nodes'
        BY <1>0, <3>5 DEF ScanInv
      <4> QED
        BY <2>2, <4>1 DEF ScanInv, jvars
    <3>7. BeaconCount'
      <4> DEFINE c == Cardinality(BeaconsIn(nodes))
                 b == Cardinality(BeaconsIn(nodes'))
      <4>1. b = c + IF n.type = "BEACON" THEN 1 ELSE 0
        BY <3>2, <3>3, SortedBeacons
      <4>2. c \in Nat /\ num_beacon = c % 256
        BY <1>0, BeaconsFinite DEF BeaconCount
      <4> HIDE DEF b, c
      <4>3. num_beacon' = b % 256
        BY <2>4, <3>1, <4>1, <4>2, Mod256
      <4> QED
        BY <4>3 DEF BeaconCount, b
    <3> QED
      BY <3>4, <3>6, <3>7
  <2> QED
    BY <2>1, <2>3, <2>4
<1>3. CASE PeekDrop
  <2>1. /\ jpc = "scan" /\ jpc' = "scan" /\ scan \in DOMAIN nodes /\ scan' = 2
        /\ Outdated(nodes[scan], jtime) /\ best' = best /\ jtime' = jtime
        /\ nodes' \in Sorted(TakeOut(nodes, scan)) /\ Uncount(nodes[scan])
    BY <1>3 DEF PeekDrop
  <2>2. /\ TakeOut(nodes, scan) \in Seq(Node)
        /\ nodes' \in Seq(Node) /\ Len(nodes') = Len(nodes) - 1
    <3>1. nodes # <<>>
      BY <1>0, <2>1
    <3> QED
      BY <1>0, <2>1, <3>1, TakeOutType, SortedType
  <2>3. SortInv'
    BY <2>1, <2>2, SortOrders
  <2>4. BeaconCount'
    BY <1>0, <2>1, UncountedBeacons
  <2>5. best < scan
    BY <1>0, <2>1 DEF ScanInv
  <2>6. best <= Len(nodes')
    BY <1>0, <2>1, <2>2, <2>5
  <2>7. ASSUME NEW i \in DOMAIN nodes', 2 <= i, i < scan' \/ i <= best'
        PROVE  ~Outdated(nodes'[i], jtime')
    <3>1. i <= best /\ i < scan /\ i \in DOMAIN nodes
      BY <1>0, <2>1, <2>2, <2>5, <2>7
    <3>2. nodes'[i] = nodes[i]
      <4>1. PICK t \in Time : Within(nodes, t)
        BY DEF HalfRange
      <4>2. InOrder(nodes, t) /\ Apart(nodes)
        BY <1>0, <4>1 DEF SortInv, NoOverlap, Apart
      <4> QED
        BY <1>0, <2>1, <3>1, <4>1, <4>2, DropKeepsFront
    <3>3. ~Outdated(nodes[i], jtime)
      BY <1>0, <2>1, <2>7, <3>1 DEF ScanInv
    <3> QED
      BY <2>1, <3>2, <3>3
  <2> QED
    BY <2>1, <2>3, <2>4, <2>6, <2>7 DEF ScanInv
<1>4. CASE JitDequeue
  <2>1. best \in DOMAIN nodes /\ nodes # <<>>
    BY <1>0, <1>4 DEF JitDequeue, ScanInv
  <2>2. CASE best > JIT_QUEUE_MAX
    <3>1. UNCHANGED <<nodes, num_beacon>> /\ jpc' = "sleep"
      BY <1>4, <2>2 DEF JitDequeue
    <3> QED
      BY <1>0, <3>1 DEF SortInv, Within, InOrder, ScanInv, BeaconCount
  <2>3. CASE ~(best > JIT_QUEUE_MAX)
    <3>1. /\ Uncount(nodes[best]) /\ jpc' = "status"
          /\ nodes' \in Sorted(TakeOut(nodes, best))
      BY <1>4, <2>1, <2>3 DEF JitDequeue, NodeAt
    <3>2. TakeOut(nodes, best) \in Seq(Node)
      BY <1>0, <2>1, TakeOutType
    <3>3. SortInv'
      BY <3>1, <3>2, SortOrders
    <3>4. BeaconCount'
      BY <1>0, <2>1, <3>1, UncountedBeacons
    <3> QED
      BY <3>1, <3>3, <3>4 DEF ScanInv
  <2> QED
    BY <2>2, <2>3
<1>5. CASE PeekScan
  <2>1. /\ jpc = "scan" /\ jpc' = "scan" /\ scan \in DOMAIN nodes
        /\ ~Outdated(nodes[scan], jtime) /\ scan' = scan + 1
        /\ best' = scan \/ best' = best
        /\ UNCHANGED <<nodes, num_beacon, jtime>>
    BY <1>5 DEF PeekScan
  <2>2. /\ best <= Len(nodes)
        /\ \A i \in DOMAIN nodes :
             2 <= i /\ (i < scan \/ i <= best) => ~Outdated(nodes[i], jtime)
    BY <1>0, <2>1 DEF ScanInv
  <2>3. /\ scan + 1 >= 1 /\ scan + 1 # 1 /\ best' <= Len(nodes)
    BY <1>0, <2>1, <2>2
  <2>4. ASSUME NEW i \in DOMAIN nodes, 2 <= i, i < scan + 1 \/ i <= best'
        PROVE  ~Outdated(nodes[i], jtime)
    <3>1. i = scan \/ i < scan \/ i <= best
      BY <1>0, <2>1, <2>4
    <3> QED
      BY <2>1, <2>2, <2>4, <3>1
  <2>5. ScanInv'
    BY <2>1, <2>3, <2>4 DEF ScanInv
  <2> QED
    BY <1>0, <2>1, <2>5 DEF SortInv, Within, InOrder, BeaconCount
<1>6. CASE PeekEnd
  <2>1. /\ jpc = "scan" /\ UNCHANGED <<nodes, num_beacon>>
        /\ \/ jpc' = "dequeue" /\ best # 0 /\ best' = best
           \/ jpc' = "sleep"
    BY <1>6 DEF PeekEnd
  <2>2. ScanInv'
    <3>1. jpc' = "dequeue" => best' \in DOMAIN nodes'
      BY <1>0, <2>1 DEF ScanInv
    <3> QED
      BY <2>1, <3>1 DEF ScanInv
  <2> QED
    BY <1>0, <2>1, <2>2 DEF SortInv, Within, InOrder, BeaconCount
<1>7. CASE PeekBegin
  <2>1. /\ UNCHANGED <<nodes, num_beacon>>
        /\ \/ jpc' = "sleep"
           \/ jpc' = "scan" /\ scan' = 1 /\ best' = 0
    BY <1>7 DEF PeekBegin
  <2>2. ScanInv'
    BY <1>0, <2>1 DEF ScanInv
  <2> QED
    BY <1>0, <2>1, <2>2 DEF SortInv, Within, InOrder, BeaconCount
<1>8. CASE JitTime \/ JitStatus \/ JitSend
  <2>1. UNCHANGED <<nodes, num_beacon>> /\ jpc' \notin {"scan", "dequeue"}
    BY <1>8 DEF JitTime, JitStatus, JitSend
  <2> QED
    BY <1>0, <2>1 DEF SortInv, Within, InOrder, ScanInv, BeaconCount
<1>9. CASE \/ Tick \/ UNCHANGED vars
           \/ \E e \in Enqueuers : Request(e) \/ CheckFull(e) \/ Return(e)
  <2>1. UNCHANGED <<nodes, num_beacon, jvars>>
    BY <1>9 DEF Tick, vars, Request, CheckFull, Return
  <2> QED
    BY <1>0, <2>1 DEF SortInv, Within, InOrder, ScanInv, BeaconCount, jvars
<1> QED
  BY <1>2, <1>3, <1>4, <1>5, <1>6, <1>7, <1>8, <1>9 DEF Next, Enqueue, Jit

LEMMA InitBeacon == Init => BeaconInv
<1> SUFFICES ASSUME Init PROVE BeaconInv
  OBVIOUS
<1>1. TypeOK /\ NoOverlap /\ SortInv /\ ScanInv
  BY InitType DEF Init, NoOverlap, SortInv, InOrder, ScanInv
<1>2. BeaconCount
  <2>1. BeaconsIn(nodes) = {} /\ num_beacon = 0
    BY DEF Init, BeaconsIn
  <2> QED
    BY <2>1, FS_EmptySet DEF BeaconCount
<1> QED
  BY <1>1, <1>2 DEF BeaconInv

\* num_beacon counts the beacons of the queue, through any interleaving of
\* enqueues, drops and dequeues and with class C downlinks too, as long as the
\* departures in the queue lie within half the counter's range, so that the
\* order of the sort is one.
THEOREM BeaconsCounted == Spec /\ []HalfRange => []BeaconCount
<1>1. BeaconInv => BeaconCount
  BY DEF BeaconInv
<1> QED
  BY <1>1, InitBeacon, NextBeacon, PTL DEF Spec

\* Requests for timestamped packets and beacons within half the counter's range
\* of one instant.
RequestsNear ==
  /\ "C" \notin Types
  /\ \E t \in Time : \A c \in Departures \cup BeaconSlots : 2 * Sub(c, t) < W

\* Such packets are queued at the departure that was asked for.
AskedInv ==
  /\ \A i \in DOMAIN nodes : nodes[i].count \in Departures \cup BeaconSlots
  /\ \A e \in Enqueuers :
       epc[e] \in {"check", "insert"} => epkt[e].count \in Departures \cup BeaconSlots

LEMMA NextAsked ==
  ASSUME "C" \notin Types
  PROVE  TypeOK /\ KindInv /\ AskedInv /\ [Next]_vars => AskedInv'
<1> DEFINE D == Departures \cup BeaconSlots
<1> SUFFICES ASSUME TypeOK, KindInv, AskedInv, [Next]_vars PROVE AskedInv'
  OBVIOUS
<1>0. /\ epkt \in [Enqueuers -> Packet \cup {ZeroPacket}]
      /\ epc \in [Enqueuers -> {"idle", "check", "insert", "answer"}]
  BY DEF TypeOK
<1>1. ASSUME NEW i \in DOMAIN nodes' PROVE nodes'[i].count \in D
  <2>1. CASE \E k \in DOMAIN nodes : nodes'[i] = nodes[k]
    BY <2>1 DEF AskedInv
  <2>2. ASSUME NEW e \in Enqueuers, NEW pkt \in Scheduled(nodes, etime[e], epkt[e]),
               epc[e] = "insert", nodes'[i] = NodeOf(pkt)
        PROVE  nodes'[i].count \in D
    <3>1. epkt[e].type # "C" /\ epkt[e].count \in D
      BY <2>2 DEF KindInv, AskedInv
    <3>2. pkt = epkt[e]
      BY <3>1 DEF Scheduled
    <3> QED
      BY <2>2, <3>1, <3>2 DEF NodeOf
  <2> QED
    BY <2>1, <2>2, NodesFrom
<1>2. ASSUME NEW e \in Enqueuers, epc'[e] \in {"check", "insert"}
      PROVE  epkt'[e].count \in D
  <2>1. ASSUME NEW f \in Enqueuers, Request(f) PROVE epkt'[e].count \in D
    <3>1. PICK type \in Types, count \in D, toa \in ToA :
            epkt' = [epkt EXCEPT ![f] = [type |-> type, count |-> count, toa |-> toa]]
      BY <2>1 DEF Request
    <3>2. epc' = [epc EXCEPT ![f] = "check"]
      BY <2>1 DEF Request
    <3> QED
      BY <1>0, <1>2, <3>1, <3>2 DEF AskedInv
  <2>2. ASSUME NEW f \in Enqueuers, CheckFull(f) PROVE epkt'[e].count \in D
    <3>1. epkt' = epkt /\ epc[f] = "check"
      BY <2>2 DEF CheckFull, Answer
    <3>2. epc' = [epc EXCEPT ![f] = "answer"] \/ epc' = [epc EXCEPT ![f] = "insert"]
      BY <2>2 DEF CheckFull, Answer
    <3> QED
      BY <1>0, <1>2, <3>1, <3>2 DEF AskedInv
  <2>3. ASSUME NEW f \in Enqueuers, Insert(f) \/ Return(f) PROVE epkt'[e].count \in D
    <3>1. PICK pkt : epkt' = [epkt EXCEPT ![f] = pkt]
      BY <2>3 DEF Insert, Return
    <3>2. epc' = [epc EXCEPT ![f] = "answer"] \/ epc' = [epc EXCEPT ![f] = "idle"]
      BY <2>3 DEF Insert, Return, Answer
    <3> QED
      BY <1>0, <1>2, <3>1, <3>2 DEF AskedInv
  <2>4. CASE Tick \/ Jit \/ UNCHANGED vars
    <3>1. UNCHANGED <<epc, epkt>>
      BY <2>4 DEF Tick, Jit, JitTime, PeekBegin, PeekDrop, PeekScan, PeekEnd,
                  JitDequeue, JitStatus, JitSend, vars, evars
    <3> QED
      BY <1>2, <3>1 DEF AskedInv
  <2> QED
    BY <2>1, <2>2, <2>3, <2>4 DEF Next, Enqueue
<1> QED
  BY <1>1, <1>2 DEF AskedInv

\* Requests near each other, as those of a run shorter than half the counter's
\* range are, keep the queue within it.
THEOREM RequestsNearHalfRange ==
  ASSUME RequestsNear
  PROVE  Spec => []HalfRange
<1>1. Init => TypeOK /\ KindInv /\ AskedInv
  BY InitType DEF Init, KindInv, AskedInv
<1>2. TypeOK /\ KindInv /\ AskedInv /\ [Next]_vars => (TypeOK /\ KindInv /\ AskedInv)'
  BY NextType, NextKind, NextAsked DEF RequestsNear
<1>3. AskedInv => HalfRange
  BY DEF AskedInv, RequestsNear, HalfRange, Within
<1> QED
  BY <1>1, <1>2, <1>3, PTL DEF Spec

\* In time and within reach, the queue lies within half the counter's range as
\* thread_jit sees it: the number of beacons is right (BeaconsCounted) whatever
\* is asked for, immediate downlinks included.
THEOREM ReachHalfRange ==
  ASSUME Timely
  PROVE  Spec /\ []InReach => []HalfRange
<1>1. TimeInv => HalfRange
  <2> SUFFICES ASSUME TimeInv PROVE Within(nodes, jtime) /\ jtime \in Time
    BY DEF HalfRange
  <2>1. TypeOK /\ QueueInv /\ jtime \in Time
    BY DEF TimeInv, TypeOK
  <2> SUFFICES ASSUME NEW i \in DOMAIN nodes PROVE 2 * Sub(nodes[i].count, jtime) < W
    BY <2>1 DEF Within
  <2> DEFINE a == Ahead(nodes[i])
             b == REACH + POLL_LAG
  <2>2. a \in Nat /\ a <= b /\ b \in Nat /\ 2 * b < W
    BY <2>1, AheadType, TimelyDelays DEF QueueInv
  <2> HIDE DEF a, b
  <2>3. 2 * a < W
    BY <2>2, HalfOf
  <2> QED
    BY <2>3 DEF a, Ahead
<1> QED
  BY <1>1, InitTime, NextTime, PTL DEF Spec

-----------------------------------------------------------------------------
(* The slot of an immediate downlink. *)

\* The delays leave an immediate downlink its second of advance, and the time a
\* beacon reserves is longer than the time to program a packet.
SlotDelays ==
  /\ TX_JIT_DELAY > 0
  /\ ASAP_DELAY > TX_START_DELAY + TX_MARGIN_DELAY + TX_JIT_DELAY
  /\ TX_JIT_DELAY <= TX_START_DELAY + BEACON_RESERVED + TX_MARGIN_DELAY

\* From time t, the slot after any node, with a packet of time on air toa in it,
\* ends within half the counter's range.
Reaches(q, t, toa) ==
  \A i \in DOMAIN q :
    2 * (Sub(q[i].count, t) + q[i].post + PreDelay("C") + TX_JIT_DELAY
           + TX_MARGIN_DELAY + toa) < W

OwnDelays(q) ==
  \A i \in DOMAIN q :
    /\ q[i].pre = PreDelay(q[i].type)
    /\ q[i].type = "BEACON" => q[i].post = BEACON_RESERVED

\* The search tests with the full pre-delay of a node, criterion 3 with at most
\* that.
LEMMA TargetShorter ==
  ASSUME NEW n \in Node, n.pre = PreDelay(n.type), NEW pkt, pkt.type = "C"
  PROVE  /\ TargetPreDelay(pkt, n) \in Nat
         /\ TargetPreDelay(pkt, n) <= n.pre
         /\ TargetPreDelay(pkt, n) <= PreDelay("C")
         /\ \A m \in Node : TargetPreDelay(pkt, n) <= GuardedPre(n, m)
<1>1. CASE n.type = "BEACON"
  <2>1. TargetPreDelay(pkt, n) = TX_START_DELAY
    BY <1>1 DEF TargetPreDelay
  <2>2. n.pre = TX_START_DELAY + BEACON_GUARD + TX_JIT_DELAY
    BY <1>1 DEF PreDelay
  <2>3. PreDelay("C") = TX_START_DELAY + TX_JIT_DELAY
    BY DEF PreDelay
  <2> QED
    BY <2>1, <2>2, <2>3, JitAssumption DEF GuardedPre
<1>2. CASE n.type # "BEACON"
  <2>1. TargetPreDelay(pkt, n) = n.pre /\ \A m \in Node : GuardedPre(n, m) = n.pre
    BY <1>2 DEF TargetPreDelay, GuardedPre
  <2>2. n.pre = TX_START_DELAY + TX_JIT_DELAY /\ PreDelay("C") = TX_START_DELAY + TX_JIT_DELAY
    BY <1>2 DEF PreDelay
  <2> QED
    BY <2>1, <2>2, JitAssumption
<1> QED
  BY <1>1, <1>2

\* The slot after node k: ahead of time t as the queue is, after the nodes up
\* to k, and before the next one when it fits.
LEMMA SlotClear ==
  ASSUME SlotDelays, NEW q \in Seq(Node), NEW t \in Time, NEW toa \in Nat,
         OwnDelays(q), Apart(q), InOrder(q, t), Reaches(q, t, toa),
         NEW k \in DOMAIN q, SlotFits(q, k, PreDelay("C"), toa),
         NEW pkt, pkt.type = "C"
  PROVE  LET slot == SlotAfter(q, k, PreDelay("C")) IN
         /\ slot \in Time
         /\ Sub(slot, t) > TX_START_DELAY + TX_MARGIN_DELAY + TX_JIT_DELAY
         /\ \A j \in DOMAIN q :
              ~CollisionTest(slot, PreDelay("C"), toa, q[j].count,
                             TargetPreDelay(pkt, q[j]), q[j].post)
<1> DEFINE slot == SlotAfter(q, k, PreDelay("C"))
           P == PreDelay("C")
           J == TX_JIT_DELAY
           M == TX_MARGIN_DELAY
           a(i) == Sub(q[i].count, t)
           r(i) == q[i].post
           z == Sub(slot, t)
<1>1. /\ J \in Nat /\ M \in Nat /\ P \in Nat /\ TX_START_DELAY \in Nat /\ W \in Nat \ {0}
      /\ BEACON_RESERVED \in Nat /\ BEACON_GUARD \in Nat
      /\ P = TX_START_DELAY + J /\ J > 0
      /\ J <= TX_START_DELAY + BEACON_RESERVED + M
  BY JitAssumption DEF SlotDelays, PreDelay
<1>2. \A i \in DOMAIN q : /\ q[i] \in Node /\ q[i].count \in Time /\ r(i) \in Nat
                          /\ q[i].pre \in Nat /\ q[i].pre = PreDelay(q[i].type)
                          /\ q[i].type = "BEACON" => r(i) = BEACON_RESERVED
  <2>1. \A n \in Node : n.count \in Time /\ n.post \in Nat /\ n.pre \in Nat
    BY DEF Node
  <2>2. \A i \in DOMAIN q : q[i] \in Node
    OBVIOUS
  <2> QED
    BY <2>1, <2>2 DEF OwnDelays
<1>3. \A i \in DOMAIN q : a(i) \in Nat
  BY <1>2, SubValue
<1>4. \A i \in DOMAIN q : 2 * (a(i) + r(i) + P + J + M + toa) < W
  BY DEF Reaches
<1>5. slot \in Time /\ z = a(k) + r(k) + P + J + M
  <2> DEFINE c == q[k].count
             x == a(k)
             y == r(k)
             e == y + P + J + M
  <2>1. /\ c \in Time /\ c \in Int /\ x \in Nat /\ y \in Nat
        /\ 2 * (x + y + P + J + M + toa) < W
    BY <1>2, <1>3, <1>4 DEF Time
  <2>2. slot = (c + y + P + J + M) % W
    BY DEF SlotAfter
  <2>3. x = Sub(c, t)
    OBVIOUS
  <2> HIDE DEF c, x, y, P, J, M
  <2>4. e \in Nat /\ x + e < W /\ c + y + P + J + M = c + e /\ x + e = x + y + P + J + M
    <3> USE <1>1, <2>1
    <3>1. e \in Nat
      OBVIOUS
    <3>2. x + y + P + J + M + toa = x + e + toa
      OBVIOUS
    <3>3. x + y + P + J + M = x + e /\ c + y + P + J + M = c + e
      OBVIOUS
    <3> HIDE DEF e
    <3> QED
      BY <3>1, <3>2, <3>3
  <2> HIDE DEF e, slot
  <2>5. slot \in Time /\ Sub(slot, t) = x + e
    BY <2>1, <2>2, <2>3, <2>4, SubShift
  <2>6. a(k) = x /\ r(k) = y
    BY DEF x, y
  <2> QED
    BY <2>4, <2>5, <2>6
<1>6. /\ DOMAIN q = 1 .. Len(q) /\ Len(q) \in Nat /\ k \in 1 .. Len(q)
  OBVIOUS
\* Distances, all seen from t.
<1>7. ASSUME NEW j \in DOMAIN q
      PROVE  /\ Sub(slot, q[j].count) = IF z >= a(j) THEN z - a(j) ELSE z - a(j) + W
             /\ Sub(q[j].count, slot) = IF a(j) >= z THEN a(j) - z ELSE a(j) - z + W
  BY <1>2, <1>5, SubFrom
<1>8. ASSUME NEW i \in DOMAIN q, NEW j \in DOMAIN q, i < j
      PROVE  /\ GuardedPre(q[j], q[i]) \in Nat
             /\ a(j) > a(i) + r(i) + GuardedPre(q[j], q[i]) + M
  <2>1. a(i) <= a(j)
    BY <1>8 DEF InOrder
  <2>2. GuardedPre(q[j], q[i]) \in Nat
    BY <1>1, <1>2 DEF GuardedPre
  <2>3. Sub(q[j].count, q[i].count) = a(j) - a(i)
    BY <1>2, <1>3, <2>1, SubFrom
  <2>4. i # j
    BY <1>6, <1>8
  <2>5. Clear(q[j], q[i])
    BY <2>4 DEF Apart
  <2>6. ~(Sub(q[j].count, q[i].count) <= GuardedPre(q[j], q[i]) + r(i) + M)
    BY <2>5 DEF Clear, CollisionTest
  <2> DEFINE g == GuardedPre(q[j], q[i])
  <2>7. /\ a(i) \in Nat /\ a(j) \in Nat /\ r(i) \in Nat /\ g \in Nat
        /\ ~(a(j) - a(i) <= g + r(i) + M)
    BY <1>2, <1>3, <2>2, <2>3, <2>6
  <2> DEFINE A == a(i)
             B == a(j)
             R == r(i)
  <2>8. A \in Nat /\ B \in Nat /\ R \in Nat /\ M \in Nat /\ ~(B - A <= g + R + M)
    BY <1>1, <2>7
  <2> HIDE DEF A, B, R, M, g
  <2>9. B > A + R + g + M
    BY <2>7, <2>8, GapOf
  <2> QED
    BY <2>2, <2>9 DEF A, B, R, g
<1> HIDE DEF slot, P, J, M, a, r, z
<1>9. z > TX_START_DELAY + M + J
  BY <1>1, <1>2, <1>3, <1>5
<1>10. ASSUME NEW j \in DOMAIN q
       PROVE  LET p == TargetPreDelay(pkt, q[j]) IN
              ~(Sub(slot, q[j].count) <= P + r(j) + M) /\ ~(Sub(q[j].count, slot) <= p + toa + M)
  <2> DEFINE p == TargetPreDelay(pkt, q[j])
  <2>1. p \in Nat /\ p <= q[j].pre /\ p <= P /\ \A m \in Node : p <= GuardedPre(q[j], m)
    BY <1>2, TargetShorter DEF P
  <2> HIDE DEF p
  <2>2. /\ a(j) \in Nat /\ r(j) \in Nat /\ a(k) \in Nat /\ r(k) \in Nat /\ z \in Nat
        /\ 2 * (a(k) + r(k) + P + J + M + toa) < W
        /\ 2 * (a(j) + r(j) + P + J + M + toa) < W
    <3>1. z \in Nat
      BY <1>5, SubValue DEF z
    <3> QED
      BY <1>2, <1>3, <1>4, <3>1
  <2>3. CASE j = k \/ j < k
    <3>1. PICK g \in Nat : (a(j) = a(k) /\ r(j) = r(k)) \/ a(k) > a(j) + r(j) + g + M
      <4>1. CASE j = k
        BY <4>1
      <4>2. CASE j < k
        BY <1>8, <4>2
      <4> QED
        BY <2>3, <4>1, <4>2
    <3>2. /\ z > a(j) /\ ~(z - a(j) <= P + r(j) + M)
          /\ ~(a(j) - z + W <= p + toa + M)
      <4>1. /\ P \in Nat /\ J \in Nat /\ M \in Nat /\ W \in Nat /\ J > 0
            /\ z = a(k) + r(k) + P + J + M
        BY <1>1, <1>5
      <4> DEFINE A == a(k)
                 R == r(k)
                 B == a(j)
                 S == r(j)
      <4>2. /\ A \in Nat /\ R \in Nat /\ B \in Nat /\ S \in Nat /\ z \in Nat
            /\ p \in Nat /\ p <= P /\ toa \in Nat /\ g \in Nat
            /\ z = A + R + P + J + M /\ 2 * (A + R + P + J + M + toa) < W
            /\ (B = A /\ S = R) \/ A > B + S + g + M
        BY <2>1, <2>2, <3>1, <4>1
      <4> HIDE DEF A, R, B, S
      <4>3. z - B > P + S + M /\ z > B
        BY <4>1, <4>2
      <4>4. z + P + toa + M < W
        BY <4>1, <4>2
      <4>5. ~(z - B <= P + S + M) /\ ~(B - z + W <= p + toa + M)
        <5>1. p + toa + M < W - z
          BY <4>1, <4>2, <4>4
        <5>2. W - z <= B - z + W
          BY <4>1, <4>2
        <5>3. p + toa + M < B - z + W
          BY <4>1, <4>2, <5>1, <5>2
        <5>4. ~(z - B <= P + S + M)
          BY <4>1, <4>2, <4>3
        <5>5. ~(B - z + W <= p + toa + M)
          BY <4>1, <4>2, <5>3
        <5> QED
          BY <5>4, <5>5
      <4> QED
        BY <4>3, <4>5 DEF B, S
    <3>3. z >= a(j) /\ ~(a(j) >= z)
      BY <2>2, <3>2
    <3> QED
      BY <1>7, <3>2, <3>3 DEF p
  <2>4. CASE k < j
    <3> DEFINE n == k + 1
               g == GuardedPre(q[n], q[k])
    <3>1. n \in DOMAIN q /\ k < n /\ (j = n \/ n < j) /\ k # Len(q)
      BY <1>6, <2>4
    <3>2. /\ ~(Sub(slot, q[n].count) <= P + r(n) + M)
          /\ ~(Sub(q[n].count, slot) <= q[n].pre + toa + M)
      <4>1. ~AsapCollides(q, slot, P, toa, n)
        BY <3>1 DEF SlotFits, slot, P
      <4> QED
        BY <4>1 DEF AsapCollides, CollisionTest, r, M
    <3>3. g \in Nat /\ a(n) > a(k) + r(k) + g + M
      BY <1>8, <3>1
    <3>4. a(n) \in Nat /\ r(n) \in Nat /\ q[n].pre \in Nat
      BY <1>2, <1>3, <3>1
    <3>5. r(n) + g + M >= J
      <4>1. CASE q[n].type = "BEACON"
        <5>1. g = TX_START_DELAY \/ g = TX_START_DELAY + BEACON_GUARD + J
          BY <1>2, <3>1, <4>1 DEF GuardedPre, PreDelay, J
        <5>2. r(n) = BEACON_RESERVED
          BY <1>2, <3>1, <4>1
        <5> HIDE DEF g, n
        <5> QED
          BY <1>1, <5>1, <5>2
      <4>2. CASE q[n].type # "BEACON"
        <5>1. g = TX_START_DELAY + J
          BY <1>2, <3>1, <4>2 DEF GuardedPre, PreDelay, J
        <5> HIDE DEF g, n
        <5> QED
          BY <1>1, <3>4, <5>1
      <4> QED
        BY <4>1, <4>2
    <3>6. /\ Sub(slot, q[n].count) = IF z >= a(n) THEN z - a(n) ELSE z - a(n) + W
          /\ Sub(q[n].count, slot) = IF a(n) >= z THEN a(n) - z ELSE a(n) - z + W
      BY <1>7, <3>1
    <3>7. j # n => /\ GuardedPre(q[j], q[n]) \in Nat
                   /\ a(j) > a(n) + r(n) + GuardedPre(q[j], q[n]) + M
      BY <1>8, <3>1
    <3>8. p <= GuardedPre(q[j], q[n])
      BY <1>2, <2>1, <3>1
    <3> HIDE DEF n, g
    <3>9. z < a(n) /\ a(n) - z > q[n].pre + toa + M
      <4>1. z >= a(n) => ~(z - a(n) <= P + r(n) + M)
        BY <3>2, <3>6
      <4>2. a(n) >= z => ~(a(n) - z <= q[n].pre + toa + M)
        BY <3>2, <3>6
      <4>3. /\ P \in Nat /\ J \in Nat /\ M \in Nat
            /\ z = a(k) + r(k) + P + J + M
        BY <1>1, <1>5
      <4> DEFINE A == a(k)
                 R == r(k)
                 B == a(n)
                 S == r(n)
                 Q == q[n].pre
      <4>4. /\ A \in Nat /\ R \in Nat /\ B \in Nat /\ S \in Nat /\ Q \in Nat /\ z \in Nat
            /\ g \in Nat /\ toa \in Nat
            /\ z = A + R + P + J + M /\ B > A + R + g + M /\ S + g + M >= J
            /\ z >= B => ~(z - B <= P + S + M)
            /\ B >= z => ~(B - z <= Q + toa + M)
        BY <2>2, <3>3, <3>4, <3>5, <4>1, <4>2, <4>3
      <4> HIDE DEF A, R, B, S, Q
      <4>5. ~(z >= B)
        BY <4>3, <4>4
      <4>6. z < B /\ B - z > Q + toa + M
        BY <4>3, <4>4, <4>5
      <4> QED
        BY <4>6 DEF B, Q
    <3>10. PICK h \in Nat : /\ p <= q[n].pre \/ a(j) # a(n)
                            /\ a(j) = a(n) \/ (a(j) > a(n) + r(n) + h + M /\ p <= h)
      <4>1. CASE j = n
        BY <2>1, <4>1
      <4>2. CASE j # n
        <5> DEFINE h == GuardedPre(q[j], q[n])
        <5>1. h \in Nat /\ a(j) > a(n) + r(n) + h + M /\ p <= h
          BY <3>7, <3>8, <4>2
        <5> HIDE DEF h
        <5>2. a(j) # a(n)
          <6> DEFINE x == a(n)
                     y == a(j)
                     u == r(n)
          <6>1. x \in Nat /\ y \in Nat /\ u \in Nat /\ h \in Nat /\ M \in Nat /\ y > x + u + h + M
            BY <1>1, <2>2, <3>4, <5>1
          <6> HIDE DEF x, y, u
          <6>2. x # y
            BY <6>1
          <6> QED
            BY <6>2 DEF x, y
        <5> QED
          BY <5>1, <5>2
      <4> QED
        BY <4>1, <4>2
    <3>11. /\ a(j) > z /\ ~(a(j) - z <= p + toa + M)
           /\ ~(z - a(j) + W <= P + r(j) + M)
      <4>1. P \in Nat /\ J \in Nat /\ M \in Nat /\ W \in Nat
        BY <1>1
      <4> DEFINE A == a(n)
                 R == r(n)
                 B == a(j)
                 S == r(j)
                 Q == q[n].pre
      <4>2. /\ A \in Nat /\ R \in Nat /\ B \in Nat /\ S \in Nat /\ Q \in Nat /\ z \in Nat
            /\ h \in Nat /\ toa \in Nat /\ p \in Nat
            /\ z < A /\ A - z > Q + toa + M
            /\ p <= Q \/ B # A
            /\ B = A \/ (B > A + R + h + M /\ p <= h)
            /\ 2 * (B + S + P + J + M + toa) < W
        BY <2>1, <2>2, <3>4, <3>9, <3>10
      <4> HIDE DEF A, R, B, S, Q
      <4>3. B - z > p + toa + M /\ B > z
        BY <4>1, <4>2
      <4>4. B + S + P + M < W
        BY <4>1, <4>2
      <4>5. ~(B - z <= p + toa + M) /\ ~(z - B + W <= P + S + M)
        BY <4>1, <4>2, <4>3, <4>4
      <4> QED
        BY <4>3, <4>5 DEF B, S
    <3>12. a(j) >= z /\ ~(z >= a(j))
      BY <2>2, <3>11
    <3> QED
      BY <1>7, <3>11, <3>12 DEF p
  <2> QED
    BY <1>6, <2>3, <2>4
<1> QED
  BY <1>5, <1>9, <1>10 DEF CollisionTest, slot, P, M, r, z, J

\* Whatever slot the search finds, the criteria of jit_enqueue accept it.
LEMMA ImmediateFits ==
  ASSUME SlotDelays, NEW q \in Seq(Node), NEW t \in Time, t + ASAP_DELAY < W,
         NEW pkt \in Packet, pkt.type = "C",
         OwnDelays(q), Apart(q), InOrder(q, t), Reaches(q, t, pkt.toa),
         NEW s \in Scheduled(q, t, pkt)
  PROVE  Verdict(q, t, s) = "OK"
<1> DEFINE P == PreDelay("C")
<1>1. /\ pkt.toa \in Nat /\ PostDelay(pkt) = pkt.toa
      /\ P \in Nat /\ TX_MARGIN_DELAY \in Nat /\ ASAP_DELAY \in Nat /\ W \in Nat
      /\ t \in Nat
  <2>1. pkt.toa \in Nat
    BY JitAssumption DEF Packet
  <2>2. PostDelay(pkt) = pkt.toa
    BY DEF PostDelay
  <2>3. /\ TX_MARGIN_DELAY \in Nat /\ ASAP_DELAY \in Nat /\ W \in Nat
        /\ TX_START_DELAY \in Nat /\ TX_JIT_DELAY \in Nat
    BY JitAssumption
  <2>4. P \in Nat
    BY <2>3 DEF PreDelay
  <2>5. t \in Nat
    BY <2>3 DEF Time
  <2> QED
    BY <2>1, <2>2, <2>3, <2>4, <2>5
<1>2. PICK slot \in AsapSlots(q, t + ASAP_DELAY, P, pkt.toa) :
        s = [pkt EXCEPT !.count = slot]
  BY <1>1 DEF Scheduled, AsapStart
<1>3. s.type = "C" /\ s.count = slot /\ s.toa = pkt.toa
  BY <1>2 DEF Packet
<1>4. PreDelay(s.type) = P /\ PostDelay(s) = pkt.toa
  BY <1>3 DEF PostDelay
<1>5. /\ Sub(slot, t) > TX_START_DELAY + TX_MARGIN_DELAY + TX_JIT_DELAY
      /\ Sub(slot, t) \in Nat
      /\ \A j \in DOMAIN q : ~CollisionTest(slot, P, pkt.toa, q[j].count,
                                            TargetPreDelay(s, q[j]), q[j].post)
  <2>1. CASE \A i \in DOMAIN q : ~AsapCollides(q, t + ASAP_DELAY, P, pkt.toa, i)
    <3>1. slot = t + ASAP_DELAY /\ slot \in Time
      <4>1. slot = t + ASAP_DELAY
        BY <1>2, <2>1 DEF AsapSlots
      <4>2. t + ASAP_DELAY \in Time
        <5> HIDE DEF P
        <5> QED
          BY <1>1 DEF Time
      <4> QED
        BY <4>1, <4>2
    <3>2. Sub(slot, t) = ASAP_DELAY
      <4>1. slot >= t /\ slot - t = ASAP_DELAY
        BY <1>1, <3>1 DEF Time
      <4> QED
        BY <3>1, <4>1, SubValue
    <3>3. ASSUME NEW j \in DOMAIN q
          PROVE  ~CollisionTest(slot, P, pkt.toa, q[j].count,
                                TargetPreDelay(s, q[j]), q[j].post)
      <4> DEFINE p == TargetPreDelay(s, q[j])
                 x == Sub(q[j].count, slot)
      <4>1. q[j] \in Node /\ q[j].pre = PreDelay(q[j].type)
        BY DEF OwnDelays
      <4>2. q[j].count \in Time /\ q[j].pre \in Nat
        BY <4>1 DEF Node
      <4>3. p \in Nat /\ p <= q[j].pre
        BY <1>3, <4>1, TargetShorter
      <4>4. /\ ~(Sub(slot, q[j].count) <= P + q[j].post + TX_MARGIN_DELAY)
            /\ ~(x <= q[j].pre + pkt.toa + TX_MARGIN_DELAY)
        BY <2>1, <3>1 DEF AsapCollides, CollisionTest
      <4>5. x \in Nat
        BY <3>1, <4>2, SubValue
      <4> DEFINE h == q[j].pre
                 a == pkt.toa
      <4>7. x \in Nat /\ p \in Nat /\ h \in Nat /\ a \in Nat /\ p <= h
            /\ TX_MARGIN_DELAY \in Nat /\ ~(x <= h + a + TX_MARGIN_DELAY)
        BY <1>1, <4>2, <4>3, <4>4, <4>5
      <4> HIDE DEF p, x, h, a
      <4>8. ~(x <= p + a + TX_MARGIN_DELAY)
        BY <4>7
      <4>6. ~(x <= p + pkt.toa + TX_MARGIN_DELAY)
        BY <4>8 DEF a
      <4> QED
        BY <4>4, <4>6 DEF CollisionTest, p, x
    <3> QED
      BY <1>1, <3>2, <3>3 DEF SlotDelays
  <2>2. CASE ~\A i \in DOMAIN q : ~AsapCollides(q, t + ASAP_DELAY, P, pkt.toa, i)
    <3>1. PICK k \in DOMAIN q : slot = SlotAfter(q, k, P) /\ SlotFits(q, k, P, pkt.toa)
      BY <1>2, <2>2 DEF AsapSlots
    <3>2. /\ slot \in Time
          /\ Sub(slot, t) > TX_START_DELAY + TX_MARGIN_DELAY + TX_JIT_DELAY
          /\ \A j \in DOMAIN q : ~CollisionTest(slot, P, pkt.toa, q[j].count,
                                                TargetPreDelay(s, q[j]), q[j].post)
      BY <1>1, <1>3, <3>1, SlotClear
    <3> QED
      BY <3>2, SubValue
  <2> QED
    BY <2>1, <2>2
<1>6. ~TooLate(t, s)
  BY <1>3, <1>5, JitAssumption DEF TooLate
<1>7. ~TooEarly(t, s)
  BY <1>3 DEF TooEarly
<1>8. \A j \in DOMAIN q : ~CollidesWith(s, q[j])
  BY <1>3, <1>4, <1>5 DEF CollidesWith
<1> QED
  BY <1>6, <1>7, <1>8 DEF Verdict

\* When an immediate downlink is inserted, the slots after the queued nodes lie
\* within half the counter's range.
SlotsReach ==
  \A e \in Enqueuers :
    epc[e] = "insert" /\ epkt[e].type = "C" => Reaches(nodes, etime[e], epkt[e].toa)

SlotInv == TypeOK /\ NoOverlap /\ KindInv /\ SortInv /\ ImmediateAccepted

LEMMA ReachesWithin ==
  ASSUME NEW q \in Seq(Node), NEW t \in Time, NEW toa \in Nat, Reaches(q, t, toa)
  PROVE  Within(q, t)
<1> SUFFICES ASSUME NEW i \in DOMAIN q PROVE 2 * Sub(q[i].count, t) < W
  BY DEF Within
<1> DEFINE x == Sub(q[i].count, t)
           r == q[i].post
           P == PreDelay("C")
<1>1. q[i] \in Node
  OBVIOUS
<1>2. q[i].count \in Time /\ r \in Nat
  BY <1>1 DEF Node
<1>3. /\ x \in Nat /\ r \in Nat /\ P \in Nat /\ TX_JIT_DELAY \in Nat
      /\ TX_MARGIN_DELAY \in Nat /\ W \in Nat
  <2>1. /\ TX_START_DELAY \in Nat /\ TX_JIT_DELAY \in Nat
        /\ TX_MARGIN_DELAY \in Nat /\ W \in Nat
    BY JitAssumption
  <2>2. P \in Nat
    BY <2>1 DEF PreDelay
  <2>3. x \in Nat
    BY <1>2, SubValue
  <2> QED
    BY <1>2, <2>1, <2>2, <2>3
<1>4. 2 * (x + r + P + TX_JIT_DELAY + TX_MARGIN_DELAY + toa) < W
  BY DEF Reaches
<1> HIDE DEF x, r, P
<1>5. 2 * x < W
  BY <1>3, <1>4
<1> QED
  BY <1>5 DEF x

LEMMA NextSorted == TypeOK /\ SortInv /\ [Next]_vars => SortInv'
<1> SUFFICES ASSUME TypeOK, SortInv, [Next]_vars PROVE SortInv'
  OBVIOUS
<1>1. /\ nodes \in Seq(Node) /\ scan \in Nat /\ best \in Nat
  BY DEF TypeOK
<1>2. ASSUME NEW e \in Enqueuers, Insert(e) PROVE SortInv'
  <2>1. PICK pkt \in Scheduled(nodes, etime[e], epkt[e]) :
          nodes' \in Sorted(Append(nodes, NodeOf(pkt))) \/ UNCHANGED nodes
    BY <1>2 DEF Insert
  <2>2. NodeOf(pkt) \in Node
    BY <1>1, ScheduledType, DelayType DEF TypeOK, NodeOf
  <2>3. Append(nodes, NodeOf(pkt)) \in Seq(Node)
    BY <1>1, <2>2
  <2>4. CASE UNCHANGED nodes
    BY <2>4 DEF SortInv, Within, InOrder
  <2> QED
    BY <2>1, <2>3, <2>4, SortOrders
<1>3. CASE PeekDrop
  <2>1. nodes' \in Sorted(TakeOut(nodes, scan)) /\ nodes # <<>>
    BY <1>1, <1>3 DEF PeekDrop
  <2> QED
    BY <1>1, <2>1, TakeOutType, SortOrders
<1>4. CASE JitDequeue
  <2>1. CASE nodes # <<>> /\ nodes' \in Sorted(TakeOut(nodes, best))
    BY <1>1, <2>1, TakeOutType, SortOrders
  <2>2. CASE UNCHANGED nodes
    BY <2>2 DEF SortInv, Within, InOrder
  <2> QED
    BY <1>4, <2>1, <2>2 DEF JitDequeue
<1>5. CASE \/ Tick \/ JitTime \/ PeekBegin \/ PeekScan \/ PeekEnd
           \/ JitStatus \/ JitSend \/ UNCHANGED vars
           \/ \E e \in Enqueuers : Request(e) \/ CheckFull(e) \/ Return(e)
  <2>1. UNCHANGED nodes
    BY <1>5 DEF Tick, JitTime, PeekBegin, PeekScan, PeekEnd, JitStatus,
                JitSend, vars, Request, CheckFull, Return
  <2> QED
    BY <2>1 DEF SortInv, Within, InOrder
<1> QED
  BY <1>2, <1>3, <1>4, <1>5 DEF Next, Enqueue, Jit

\* The insertion of an immediate downlink whose start does not wrap is accepted.
LEMMA InsertImmediate ==
  ASSUME SlotDelays, SlotInv, SlotsReach, NEW e \in Enqueuers, Insert(e),
         epkt'[e].type = "C", etime[e] + ASAP_DELAY < W
  PROVE  eres'[e] = "OK"
<1> DEFINE t == etime[e]
           k == epkt[e]
<1>1. /\ nodes \in Seq(Node) /\ t \in Time /\ k \in Packet \cup {ZeroPacket}
      /\ epkt \in [Enqueuers -> Packet \cup {ZeroPacket}]
      /\ eres \in [Enqueuers -> JitError]
  BY DEF SlotInv, TypeOK
<1>2. PICK s \in Scheduled(nodes, t, k) :
        epkt' = [epkt EXCEPT ![e] = s] /\ Answer(e, Verdict(nodes, t, s))
  BY DEF Insert
<1>3. epkt'[e] = s /\ eres'[e] = Verdict(nodes, t, s)
  BY <1>1, <1>2 DEF Answer
<1>4. k.type = "C"
  BY <1>1, <1>3, ScheduledKind
<1>5. k \in Packet
  BY <1>1, <1>4 DEF ZeroPacket
<1>6. Reaches(nodes, t, k.toa)
  BY <1>4 DEF SlotsReach, Insert
<1>7. k.toa \in Nat
  BY <1>5, JitAssumption DEF Packet
<1>8. InOrder(nodes, t)
  BY <1>1, <1>6, <1>7, ReachesWithin DEF SlotInv, SortInv
<1>9. OwnDelays(nodes) /\ Apart(nodes)
  BY DEF SlotInv, KindInv, OfKind, OwnDelays, NoOverlap, Apart
<1>10. Verdict(nodes, t, s) = "OK"
  <2> HIDE DEF t, k
  <2> QED
    <3>1. t + ASAP_DELAY < W
      BY DEF t
    <3> QED
      BY <1>1, <1>4, <1>5, <1>6, <1>8, <1>9, <3>1, ImmediateFits
<1> QED
  BY <1>3, <1>10

LEMMA NextSlot ==
  ASSUME SlotDelays
  PROVE  SlotInv /\ SlotsReach /\ [Next]_vars => SlotInv'
<1> SUFFICES ASSUME SlotInv, SlotsReach, [Next]_vars PROVE SlotInv'
  OBVIOUS
<1>1. TypeOK' /\ NoOverlap' /\ KindInv' /\ SortInv'
  BY NextType, NextNoOverlap, NextKind, NextSorted DEF SlotInv
<1>2. ImmediateAccepted'
  <2> SUFFICES ASSUME NEW e \in Enqueuers, epc'[e] = "answer", epkt'[e].type = "C",
                      etime'[e] + ASAP_DELAY < W
               PROVE  eres'[e] \in {"OK", "FULL"}
    BY DEF ImmediateAccepted
  <2>1. /\ epc \in [Enqueuers -> {"idle", "check", "insert", "answer"}]
        /\ eres \in [Enqueuers -> JitError] /\ etime \in [Enqueuers -> Time]
        /\ epkt \in [Enqueuers -> Packet \cup {ZeroPacket}]
    BY DEF SlotInv, TypeOK
  <2>2. CASE UNCHANGED <<epc[e], eres[e], etime[e], epkt[e]>>
    BY <2>2 DEF SlotInv, ImmediateAccepted
  <2>3. CASE Insert(e)
    <3>1. etime' = etime
      BY <2>3 DEF Insert, Answer
    <3> QED
      BY <2>3, <3>1, InsertImmediate
  <2>4. CASE CheckFull(e)
    <3>1. Answer(e, "FULL")
      BY <2>1, <2>4 DEF CheckFull
    <3> QED
      BY <2>1, <3>1 DEF Answer
  <2>5. CASE Request(e) \/ Return(e)
    BY <2>1, <2>5 DEF Request, Return
  <2>6. ASSUME NEW f \in Enqueuers, f # e, Enqueue(f)
        PROVE  UNCHANGED <<epc[e], eres[e], etime[e], epkt[e]>>
    BY <2>1, <2>6 DEF Enqueue, Request, CheckFull, Insert, Return, Answer
  <2>7. CASE Tick \/ Jit \/ UNCHANGED vars
    <3>1. UNCHANGED evars
      BY <2>7 DEF Tick, Jit, JitTime, PeekBegin, PeekDrop, PeekScan, PeekEnd,
                  JitDequeue, JitStatus, JitSend, vars
    <3> QED
      BY <2>2, <3>1 DEF evars
  <2> QED
    BY <2>2, <2>3, <2>4, <2>5, <2>6, <2>7 DEF Next, Enqueue
<1> QED
  BY <1>1, <1>2 DEF SlotInv

LEMMA InitSlot == Init => SlotInv
<1> SUFFICES ASSUME Init PROVE SlotInv
  OBVIOUS
<1>1. TypeOK
  BY InitType
<1>2. nodes = <<>> /\ DOMAIN nodes = {}
  BY DEF Init
<1>3. \A e \in Enqueuers : epc[e] = "idle"
  BY DEF Init
<1> QED
  BY <1>1, <1>2, <1>3
     DEF SlotInv, NoOverlap, KindInv, SortInv, InOrder, ImmediateAccepted

\* An immediate downlink is accepted unless the queue is full: whatever the
\* queue and the other threads, the slot found by the search of jit_enqueue
\* passes the criteria it applies next, beacons and their guard times included.
\* The search walks the nodes in the order of the sort, so the queue may not
\* reach beyond half the counter's range (SlotsReach).
THEOREM ImmediateGetsSlot ==
  ASSUME SlotDelays
  PROVE  Spec /\ []SlotsReach => []ImmediateAccepted
<1>1. SlotInv => ImmediateAccepted
  BY DEF SlotInv
<1>2. SlotInv /\ SlotsReach /\ [Next]_vars => SlotInv'
  BY NextSlot
<1> QED
  BY <1>1, <1>2, InitSlot, PTL DEF Spec

\* In time and within reach, with a hop to spare in half the counter's range,
\* the slot behind any node is within it too: every immediate downlink gets its
\* slot (ImmediateGetsSlot).
THEOREM ReachSlots ==
  ASSUME Timely, NEW hop \in Nat, HopDelays(hop),
         2 * (REACH + POLL_LAG + ENQ_LAG + hop) < W
  PROVE  Spec /\ []InReach => []SlotsReach
<1>1. TimeInv => SlotsReach
  <2> SUFFICES ASSUME TimeInv, NEW e \in Enqueuers, epc[e] = "insert", epkt[e].type = "C",
                      NEW i \in DOMAIN nodes
               PROVE  2 * (Sub(nodes[i].count, etime[e]) + nodes[i].post + PreDelay("C")
                             + TX_JIT_DELAY + TX_MARGIN_DELAY + epkt[e].toa) < W
    BY DEF SlotsReach, Reaches
  <2>1. /\ nodes \in Seq(Node) /\ KindInv /\ etime[e] \in Time
        /\ Sub(now, etime[e]) <= ENQ_LAG
    BY DEF TimeInv, TypeOK, ClockInv
  <2>2. Sub(nodes[i].count, etime[e]) <= REACH + POLL_LAG + ENQ_LAG
    BY <2>1, SeenByEnqueuer
  <2>3. OfKind(nodes[i]) /\ nodes[i] \in Node /\ epkt[e].type \in Types /\ epkt[e].toa \in ToA
    BY <2>1 DEF KindInv
  <2>4. PICK air \in ToA : nodes[i].post = PostDelay([type |-> nodes[i].type,
                                                      count |-> 0, toa |-> air])
    BY <2>3 DEF OfKind, PostDelay
  <2>5. nodes[i].post + PreDelay("C") + TX_JIT_DELAY + TX_MARGIN_DELAY
          + nodes[i].pre + epkt[e].toa + TX_MARGIN_DELAY <= hop
    BY <2>3, <2>4 DEF HopDelays, OfKind
  <2> DEFINE x == Sub(nodes[i].count, etime[e])
             r == nodes[i].post
             p == nodes[i].pre
             P == PreDelay("C")
             toa == epkt[e].toa
  <2>6. /\ x \in Nat /\ r \in Nat /\ p \in Nat /\ P \in Nat /\ toa \in Nat
        /\ TX_JIT_DELAY \in Nat /\ TX_MARGIN_DELAY \in Nat
        /\ REACH \in Nat /\ POLL_LAG \in Nat /\ ENQ_LAG \in Nat /\ W \in Nat
    <3>1. nodes[i].count \in Time /\ r \in Nat /\ p \in Nat
      BY <2>3 DEF Node
    <3>2. x \in Nat
      BY <2>1, <3>1, SubValue
    <3>3. toa \in Nat /\ TX_JIT_DELAY \in Nat /\ TX_MARGIN_DELAY \in Nat /\ TX_START_DELAY \in Nat
      BY <2>3, JitAssumption
    <3>4. P \in Nat
      BY <3>3 DEF PreDelay
    <3> QED
      BY <3>1, <3>2, <3>3, <3>4, TimelyDelays
  <2>7. x <= REACH + POLL_LAG + ENQ_LAG
        /\ r + P + TX_JIT_DELAY + TX_MARGIN_DELAY + p + toa + TX_MARGIN_DELAY <= hop
    BY <2>2, <2>5
  <2> HIDE DEF x, r, p, P, toa
  <2>8. /\ r + P + TX_JIT_DELAY + TX_MARGIN_DELAY + toa <= hop
        /\ r + P + TX_JIT_DELAY + TX_MARGIN_DELAY + toa \in Nat
    BY <2>6, <2>7
  <2>9. 2 * (x + r + P + TX_JIT_DELAY + TX_MARGIN_DELAY + toa) < W
    BY <2>6, <2>7, <2>8
  <2> QED
    BY <2>9 DEF x, r, P, toa
<1> QED
  BY <1>1, InitTime, NextTime, PTL DEF Spec

-----------------------------------------------------------------------------
(* The queue implements the plan of departures.                            *)

\* The operators of JitOps, as the plan has them.
LEMMA PlanOps ==
  /\ Plan!Node = Node
  /\ \A n : Plan!Left(n) = Sub(n.count, now)
  /\ \A m, n : Plan!Clear(m, n) = Clear(m, n)
<1>1. Plan!Node = Node
  BY DEF Plan!Node, Node, Plan!PktType, PktType, Plan!Downlinks, Downlinks, Plan!Time, Time
<1>2. \A n : Plan!Left(n) = Sub(n.count, now)
  BY DEF Plan!Left, Plan!Sub, Sub
<1>3. ASSUME NEW m, NEW n PROVE Plan!Clear(m, n) = Clear(m, n)
  <2>1. Plan!GuardedPre(m, n) = GuardedPre(m, n) /\ Plan!GuardedPre(n, m) = GuardedPre(n, m)
    BY DEF Plan!GuardedPre, GuardedPre
  <2> QED
    BY <2>1 DEF Plan!Clear, Clear, Plan!CollisionTest, CollisionTest, Plan!Sub, Sub
<1> QED
  BY <1>1, <1>2, <1>3

\* Time left to a departure that thread_jit sees from its last counter read.
LEMMA LeftIs ==
  ASSUME Timely, TimeInv, NEW n \in Node, Ahead(n) >= TX_JIT_DELAY - POLL_LAG
  PROVE  /\ Ahead(n) \in Nat /\ Sub(now, jtime) \in Nat /\ Sub(now, jtime) <= POLL_LAG
         /\ Plan!Left(n) \in Nat /\ Plan!Left(n) = Ahead(n) - Sub(now, jtime)
<1>1. n.count \in Time /\ now \in Time /\ jtime \in Time /\ Sub(now, jtime) <= POLL_LAG
  BY DEF TimeInv, TypeOK, ClockInv, Node
<1>2. Ahead(n) \in Nat /\ Sub(now, jtime) \in Nat /\ Sub(n.count, now) \in Nat
  BY <1>1, SubValue DEF Ahead
<1>3. Sub(n.count, now) = Sub(n.count, jtime) - Sub(now, jtime)
  BY <1>1, Nearer DEF Ahead
<1> QED
  BY <1>1, <1>2, <1>3, PlanOps DEF Ahead

LEMMA QueuedAhead ==
  ASSUME TimeInv
  PROVE  \A n \in Queued : n \in Node /\ Ahead(n) >= TX_JIT_DELAY - POLL_LAG
<1> QED
  BY AheadType DEF TimeInv, QueueInv, Queued

LEMMA HandAhead ==
  ASSUME TimeInv, jpc \in {"status", "send"}
  PROVE  /\ jpkt \in Node /\ Ahead(jpkt) >= TX_JIT_DELAY - POLL_LAG
         /\ Ahead(jpkt) < TX_JIT_DELAY /\ Hand = {jpkt}
<1> QED
  BY DEF TimeInv, TypeOK, JitInv, Hand

LEMMA TickIsTick ==
  ASSUME Timely, TimeInv, Tick
  PROVE  Plan!Tick
<1>1. ASSUME NEW n \in Queued \cup Hand PROVE Plan!Left(n) > TX_START_DELAY
  <2>1. n \in Node /\ Ahead(n) >= TX_JIT_DELAY - POLL_LAG
    BY QueuedAhead, HandAhead DEF Hand
  <2>2. /\ Ahead(n) \in Nat /\ Sub(now, jtime) \in Nat
        /\ Plan!Left(n) = Ahead(n) - Sub(now, jtime)
    BY <2>1, LeftIs
  <2>3. Sub(now, jtime) < POLL_LAG
    BY DEF Tick
  <2> DEFINE a == Ahead(n)
             x == Sub(now, jtime)
  <2>4. a \in Nat /\ x \in Nat /\ x < POLL_LAG /\ a >= TX_JIT_DELAY - POLL_LAG
    BY <2>1, <2>2, <2>3
  <2> HIDE DEF a, x
  <2>5. a - x > TX_START_DELAY
    BY <2>4, TimelyDelays
  <2> QED
    BY <2>2, <2>5 DEF a, x
<1>2. UNCHANGED <<Queued, Hand>>
  BY DEF Tick, jvars, Queued, Hand
<1> QED
  BY <1>1, <1>2 DEF Tick, Plan!Tick, Silent, Plan!Silent, Plan!Sub, Sub

LEMMA InsertIsAccept ==
  ASSUME Timely, TimeInv, InReach, InReach', NEW e \in Enqueuers, Insert(e)
  PROVE  Plan!Accept \/ UNCHANGED <<now, Queued, Hand, radio>>
<1>0. /\ TypeOK /\ KindInv /\ ClockInv
      /\ nodes \in Seq(Node) /\ jtime \in Time /\ now \in Time /\ etime[e] \in Time
      /\ epkt[e] \in Packet \cup {ZeroPacket}
  BY DEF TimeInv, TypeOK
<1>1. epc[e] = "insert" /\ UNCHANGED <<now, jvars, radio>>
  BY DEF Insert
<1>2. UNCHANGED Hand
  BY <1>1 DEF Hand, jvars
<1>3. PICK pkt \in Scheduled(nodes, etime[e], epkt[e]) :
        \/ /\ Verdict(nodes, etime[e], pkt) = "OK"
           /\ nodes' \in Sorted(Append(nodes, NodeOf(pkt)))
        \/ UNCHANGED nodes
  BY DEF Insert
<1>4. CASE UNCHANGED nodes
  BY <1>1, <1>2, <1>4 DEF Queued
<1>5. CASE /\ Verdict(nodes, etime[e], pkt) = "OK"
           /\ nodes' \in Sorted(Append(nodes, NodeOf(pkt)))
  <2> DEFINE n == NodeOf(pkt)
             q == Append(nodes, n)
  <2>1. pkt \in Packet \cup {ZeroPacket}
    BY <1>0, ScheduledType
  <2>2. n \in Node /\ n.count = pkt.count /\ n.type = pkt.type /\ pkt.count \in Time
    <3>1. n \in Node /\ n.count = pkt.count /\ n.type = pkt.type
      BY <2>1, DelayType DEF NodeOf
    <3> QED
      BY <3>1 DEF Node
  <2>3. Sub(pkt.count, etime[e]) <= REACH
    BY <1>5, RequestReach
  <2>4. /\ Plan!Left(n) > TX_JIT_DELAY
        /\ n.type \in {"A", "B"} => Plan!Left(n) <= TX_MAX_ADVANCE_DELAY
    <3>1. Sub(now, etime[e]) <= ENQ_LAG /\ Sub(now, jtime) <= POLL_LAG
      BY <1>0, <1>1 DEF ClockInv
    <3>2. /\ Sub(pkt.count, now) > TX_JIT_DELAY
          /\ pkt.type \in {"A", "B"} => Sub(pkt.count, now) <= TX_MAX_ADVANCE_DELAY
      BY <1>0, <1>5, <2>2, <2>3, <3>1, AcceptedAhead
    <3> QED
      BY <2>2, <3>2, PlanOps
  <2>5. ASSUME NEW m \in Queued PROVE Clear(m, n)
    <3>1. PICK i \in DOMAIN nodes : m = nodes[i]
      BY DEF Queued
    <3>2. m \in Node /\ ~CollidesWith(pkt, m)
      BY <1>0, <1>5, <3>1, AcceptedVerdict
    <3>3. Clear(n, m)
      BY <2>1, <3>2, AcceptedIsClear
    <3> QED
      BY <2>2, <3>2, <3>3, ClearSymmetric
  <2>6. n \notin Queued
    <3> SUFFICES ASSUME n \in Queued PROVE FALSE
      OBVIOUS
    <3>1. Clear(n, n)
      BY <2>5
    <3>2. Sub(n.count, n.count) = 0
      BY <2>2, SubSelf
    <3>3. n.pre \in Nat /\ n.post \in Nat /\ TX_MARGIN_DELAY \in Nat /\ TX_START_DELAY \in Nat
      BY <2>2, JitAssumption DEF Node
    <3> DEFINE g == GuardedPre(n, n)
    <3>4. g \in Nat
      BY <3>3 DEF GuardedPre
    <3>5. ~(0 <= g + n.post + TX_MARGIN_DELAY)
      BY <3>1, <3>2 DEF Clear, CollisionTest
    <3> HIDE DEF g, n
    <3> QED
      BY <3>3, <3>4, <3>5
  <2>7. /\ q \in Seq(Node) /\ DOMAIN q = 1 .. (Len(nodes) + 1)
        /\ Len(nodes) \in Nat /\ DOMAIN nodes = 1 .. Len(nodes)
        /\ q[Len(nodes) + 1] = n /\ \A i \in DOMAIN nodes : q[i] = nodes[i]
    BY <1>0, <2>2
  <2>8. nodes' \in Sorted(q)
    BY <1>5
  <2> HIDE DEF n, q
  <2>9. Queued' = {q[i] : i \in DOMAIN q}
    <3>1. q \in Seq(Node)
      BY <2>7
    <3>2. \A i \in DOMAIN nodes' : \E k \in DOMAIN q : nodes'[i] = q[k]
      BY <2>8, <3>1, SortedPlaces
    <3>3. \A k \in DOMAIN q : \E i \in DOMAIN nodes' : nodes'[i] = q[k]
      BY <2>8, <3>1, SortedPlaces
    <3> QED
      BY <3>2, <3>3 DEF Queued
  <2>10. Queued' = Queued \cup {n}
    <3>1. \A i \in DOMAIN q : i \in DOMAIN nodes \/ i = Len(nodes) + 1
      BY <2>7
    <3>2. Len(nodes) + 1 \in DOMAIN q /\ \A i \in DOMAIN nodes : i \in DOMAIN q
      BY <2>7
    <3> QED
      BY <2>7, <2>9, <3>1, <3>2 DEF Queued
  <2>11. Plan!Accept
    BY <1>1, <1>2, <2>2, <2>4, <2>5, <2>6, <2>10, PlanOps DEF Plan!Accept
  <2> QED
    BY <2>11
<1> QED
  BY <1>3, <1>4, <1>5

\* A node is taken out and the others stay in the plan.
LEMMA TakenPlan ==
  ASSUME Timely, TimeInv, NEW n \in DOMAIN nodes, nodes' \in Sorted(TakeOut(nodes, n)),
         jtime' = jtime
  PROVE  Queued' = Queued \ {nodes[n]}
<1>1. TypeOK /\ QueueInv /\ nodes \in Seq(Node) /\ Apart(nodes)
  BY DEF TimeInv, TypeOK, NoOverlap, Apart
<1>2. /\ \A i \in DOMAIN nodes' : \E k \in DOMAIN nodes : k # n /\ nodes'[i] = nodes[k]
      /\ \A k \in DOMAIN nodes : k # n => \E i \in DOMAIN nodes' : nodes'[i] = nodes[k]
  BY <1>1, TakenQueue
<1>3. \A k \in DOMAIN nodes : k # n => nodes[k] # nodes[n]
  BY <1>1, ApartDistinct
<1> QED
  BY <1>2, <1>3 DEF Queued

LEMMA DropIsDrop ==
  ASSUME Timely, TimeInv, PeekDrop
  PROVE  Plan!Drop
<1>1. /\ jpc = "scan" /\ jpc' = "scan" /\ scan \in DOMAIN nodes
      /\ Outdated(nodes[scan], jtime) /\ nodes' \in Sorted(TakeOut(nodes, scan))
      /\ jtime' = jtime /\ now' = now /\ radio' = radio
  BY DEF PeekDrop
<1>2. Hand = {} /\ Hand' = {}
  BY <1>1 DEF Hand
<1> DEFINE n == nodes[scan]
<1>3. n \in Queued /\ n \in Node /\ Ahead(n) >= TX_JIT_DELAY - POLL_LAG
  BY <1>1, QueuedAhead DEF Queued
<1>4. Queued' = Queued \ {n}
  BY <1>1, TakenPlan
<1>5. Ahead(n) >= TX_MAX_ADVANCE_DELAY
  BY <1>1 DEF Outdated, Ahead
<1> HIDE DEF n
<1>6. Plan!Left(n) >= TX_MAX_ADVANCE_DELAY - POLL_LAG
  <2>1. /\ Ahead(n) \in Nat /\ Sub(now, jtime) \in Nat /\ Sub(now, jtime) <= POLL_LAG
        /\ Plan!Left(n) = Ahead(n) - Sub(now, jtime)
    BY <1>3, LeftIs
  <2> QED
    BY <1>5, <2>1, TimelyDelays
<1> QED
  BY <1>1, <1>2, <1>3, <1>4, <1>6 DEF Plan!Drop

LEMMA DequeueIsTake ==
  ASSUME Timely, TimeInv, JitDequeue
  PROVE  Plan!Take
<1>0. TypeOK /\ QueueInv /\ JitInv
  BY DEF TimeInv
<1>1. /\ jpc = "dequeue" /\ best = 1 /\ 1 \in DOMAIN nodes
      /\ Ahead(nodes[1]) < TX_JIT_DELAY
      /\ \A i \in DOMAIN nodes : i # 1 => Ahead(nodes[i]) >= TX_JIT_DELAY
  BY <1>0 DEF JitDequeue, JitInv
<1>2. nodes # <<>> /\ ~(best > JIT_QUEUE_MAX)
  BY <1>0, <1>1, JitAssumption DEF TypeOK
<1>3. /\ jpkt' = nodes[1] /\ jpc' = "status" /\ jtime' = jtime
      /\ nodes' \in Sorted(TakeOut(nodes, 1)) /\ now' = now /\ radio' = radio
  BY <1>1, <1>2 DEF JitDequeue, NodeAt
<1> DEFINE n == nodes[1]
<1>4. n \in Queued /\ n \in Node /\ Ahead(n) >= TX_JIT_DELAY - POLL_LAG
  BY <1>1, QueuedAhead DEF Queued
<1>5. Hand = {} /\ Hand' = {n} /\ Queued' = Queued \ {n}
  BY <1>1, <1>3, TakenPlan DEF Hand
<1>6. Ahead(n) < TX_JIT_DELAY
  BY <1>1
<1>7. \A m \in Queued \ {n} : Ahead(m) >= TX_JIT_DELAY
  BY <1>1 DEF Queued
<1> HIDE DEF n
<1>8. /\ Ahead(n) \in Nat /\ Sub(now, jtime) \in Nat /\ Sub(now, jtime) <= POLL_LAG
      /\ Plan!Left(n) \in Nat /\ Plan!Left(n) = Ahead(n) - Sub(now, jtime)
  BY <1>4, LeftIs
<1>9. Plan!Left(n) \in TX_START_DELAY .. (TX_JIT_DELAY - 1)
  <2> DEFINE a == Ahead(n)
             x == Sub(now, jtime)
             l == Plan!Left(n)
  <2>1. a \in Nat /\ x \in Nat /\ l \in Nat /\ x <= POLL_LAG /\ l = a - x
        /\ a >= TX_JIT_DELAY - POLL_LAG /\ a < TX_JIT_DELAY
    BY <1>4, <1>6, <1>8
  <2> HIDE DEF a, x, l
  <2>2. l >= TX_START_DELAY /\ l <= TX_JIT_DELAY - 1
    BY <2>1, TimelyDelays
  <2>3. l \in TX_START_DELAY .. (TX_JIT_DELAY - 1)
    BY <2>1, <2>2, TimelyDelays
  <2> QED
    BY <2>3 DEF l
<1>10. ASSUME NEW m \in Queued \ {n} PROVE Plan!Left(n) < Plan!Left(m)
  <2>1. Ahead(m) \in Nat /\ Plan!Left(m) = Ahead(m) - Sub(now, jtime)
    BY QueuedAhead, LeftIs
  <2>2. Ahead(n) < Ahead(m)
    BY <1>6, <1>7, <1>8, <2>1, TimelyDelays
  <2> QED
    BY <1>8, <2>1, <2>2
<1> QED
  BY <1>3, <1>4, <1>5, <1>9, <1>10 DEF Plan!Take

LEMMA StatusIsGiveUp ==
  ASSUME JitStatus
  PROVE  Plan!GiveUp \/ UNCHANGED <<now, Queued, Hand, radio>>
<1>1. /\ jpc = "status" /\ UNCHANGED <<now, nodes, radio>>
      /\ \/ TxStatus = "EMITTING" /\ jpc' = "sleep"
         \/ jpc' = "send" /\ UNCHANGED jpkt
  BY DEF JitStatus
<1>2. UNCHANGED Queued /\ Hand # {}
  BY <1>1 DEF Queued, Hand
<1>3. CASE TxStatus = "EMITTING" /\ jpc' = "sleep"
  <2>1. radio.on /\ Plan!Sub(now, radio.count) < radio.toa
    BY <1>3 DEF TxStatus, Plan!Sub, Sub
  <2>2. Hand' = {}
    BY <1>3 DEF Hand
  <2> QED
    BY <1>1, <1>2, <2>1, <2>2 DEF Plan!GiveUp
<1>4. CASE jpc' = "send" /\ UNCHANGED jpkt
  BY <1>1, <1>2, <1>4 DEF Hand
<1> QED
  BY <1>1, <1>3, <1>4

LEMMA SendIsSend ==
  ASSUME Timely, TimeInv, JitSend
  PROVE  Plan!Send
<1>1. /\ jpc = "send" /\ jpc' = "sleep" /\ UNCHANGED <<now, nodes>>
      /\ radio' \in {radio, [on |-> TRUE, count |-> jpkt.count, toa |-> jpkt.post]}
  BY DEF JitSend
<1>2. /\ jpkt \in Node /\ Ahead(jpkt) >= TX_JIT_DELAY - POLL_LAG
      /\ Ahead(jpkt) < TX_JIT_DELAY /\ Hand = {jpkt}
  BY <1>1, HandAhead
<1>3. Plan!Left(jpkt) \in TX_START_DELAY .. TX_JIT_DELAY
  <2> DEFINE a == Ahead(jpkt)
             x == Sub(now, jtime)
             l == Plan!Left(jpkt)
  <2>1. a \in Nat /\ x \in Nat /\ l \in Nat /\ x <= POLL_LAG /\ l = a - x
        /\ a >= TX_JIT_DELAY - POLL_LAG /\ a < TX_JIT_DELAY
    BY <1>2, LeftIs
  <2> HIDE DEF a, x, l
  <2>2. l >= TX_START_DELAY /\ l <= TX_JIT_DELAY
    BY <2>1, TimelyDelays
  <2>3. l \in TX_START_DELAY .. TX_JIT_DELAY
    BY <2>1, <2>2, TimelyDelays
  <2> QED
    BY <2>3 DEF l
<1>4. UNCHANGED Queued /\ Hand' = {}
  BY <1>1 DEF Queued, Hand
<1> QED
  BY <1>1, <1>2, <1>3, <1>4 DEF Plan!Send

\* The queue carries out a plan of departures, for any number of downstream
\* threads and any interleaving with the steps of thread_jit: downlinks and
\* beacons join it clear of each other, the first to depart is taken, always
\* in its window, and none is passed over or dropped close to its departure.
THEOREM QueueImplementsPlan ==
  ASSUME Timely
  PROVE  Spec /\ []InReach => Implements
<1>1. Init => Plan!Init
  BY DEF Init, Plan!Init, Queued, Hand, Silent, Plan!Silent
<1>2. TimeInv /\ InReach /\ InReach' /\ [Next]_vars => [Plan!Next]_<<now, Queued, Hand, radio>>
  <2> SUFFICES ASSUME TimeInv, InReach, InReach', [Next]_vars
               PROVE  Plan!Next \/ UNCHANGED <<now, Queued, Hand, radio>>
    OBVIOUS
  <2>1. CASE Tick
    BY <2>1, TickIsTick DEF Plan!Next
  <2>2. ASSUME NEW e \in Enqueuers, Insert(e)
        PROVE  Plan!Next \/ UNCHANGED <<now, Queued, Hand, radio>>
    BY <2>2, InsertIsAccept DEF Plan!Next
  <2>3. CASE PeekDrop
    BY <2>3, DropIsDrop DEF Plan!Next
  <2>4. CASE JitDequeue
    BY <2>4, DequeueIsTake DEF Plan!Next
  <2>5. CASE JitStatus
    BY <2>5, StatusIsGiveUp DEF Plan!Next
  <2>6. CASE JitSend
    BY <2>6, SendIsSend DEF Plan!Next
  <2>7. CASE JitTime \/ PeekBegin \/ PeekScan \/ PeekEnd
    <3>1. /\ UNCHANGED <<now, nodes, radio>>
          /\ jpc \in {"sleep", "peek", "scan"} /\ jpc' \in {"sleep", "peek", "scan", "dequeue"}
      BY <2>7 DEF JitTime, PeekBegin, PeekScan, PeekEnd
    <3> QED
      BY <3>1 DEF Queued, Hand
  <2>8. CASE UNCHANGED vars \/ \E e \in Enqueuers : Request(e) \/ CheckFull(e) \/ Return(e)
    <3>1. UNCHANGED <<now, nodes, jvars, radio>>
      BY <2>8 DEF vars, Request, CheckFull, Return
    <3> QED
      BY <3>1 DEF Queued, Hand, jvars
  <2> QED
    BY <2>1, <2>2, <2>3, <2>4, <2>5, <2>6, <2>7, <2>8 DEF Next, Enqueue, Jit
<1> QED
  BY <1>1, <1>2, InitTime, NextTime, PTL DEF Spec, Implements, Plan!Spec, Plan!planvars
=============================================================================
