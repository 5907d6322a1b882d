------------------------------- MODULE JitOps -------------------------------
(***************************************************************************)
(* The pure part of the just-in-time downlink queue of the packet          *)
(* forwarder (fwd/src/jitqueue.c): unsigned counter arithmetic, the        *)
(* collision test, the criteria of jit_enqueue, the search for the slot    *)
(* of an immediate downlink and the sort.                                  *)
(*                                                                         *)
(* Times are values of the concentrator's free-running counter, a uint32_t *)
(* of microseconds in the code: here a number below W, every subtraction   *)
(* modulo W.  The delays are the macros of jitqueue.c, kept symbolic.      *)
(* Sums of delays are assumed not to wrap (JitAssumption): in the code the *)
(* largest one is about 5 seconds against a counter of 71 minutes.         *)
(***************************************************************************)
EXTENDS Integers, Sequences, FiniteSets

CONSTANTS
  W,                     \* number of counter values (2^32 in the code)
  TX_START_DELAY, TX_MARGIN_DELAY, TX_JIT_DELAY, TX_MAX_ADVANCE_DELAY,
  BEACON_GUARD, BEACON_RESERVED,
  ASAP_DELAY,            \* the one-second head start of an immediate downlink
  ToA,                   \* times on air of the downlinks (lgw_time_on_air)
  JIT_QUEUE_MAX          \* number of nodes of the queue

ASSUME JitAssumption ==
  /\ W \in Nat \ {0}
  /\ {TX_START_DELAY, TX_MARGIN_DELAY, TX_JIT_DELAY, TX_MAX_ADVANCE_DELAY,
      BEACON_GUARD, BEACON_RESERVED, ASAP_DELAY} \subseteq Nat
  /\ ToA \subseteq Nat
  /\ JIT_QUEUE_MAX \in Nat \ {0}

Time == 0 .. (W - 1)

\* enum jit_pkt_type_e.
Downlinks == {"A", "B", "C"}
PktType   == Downlinks \cup {"BEACON"}

\* enum jit_error_e, the values jit_enqueue returns.
JitError == {"OK", "TOO_LATE", "TOO_EARLY", "FULL",
             "COLLISION_PACKET", "COLLISION_BEACON"}

\* A packet: what the queue reads of lgw_pkt_tx_s, with its type.
Packet == [type : PktType, count : Time, toa : ToA]

\* struct jit_node_s.
Node == [type : PktType, count : Time, pre : Nat, post : Nat]

-----------------------------------------------------------------------------
\* uint32_t subtraction.
Sub(a, b) == (a - b) % W

PreDelay_NoJitDelay(type) ==  \* mutant: no time left to program the packet
  IF type = "BEACON" THEN TX_START_DELAY + BEACON_GUARD ELSE TX_START_DELAY

\* The delays reserved before and after a packet (switch of jit_enqueue).
PreDelay(type) ==
  IF type = "BEACON" THEN TX_START_DELAY + BEACON_GUARD + TX_JIT_DELAY
                     ELSE TX_START_DELAY + TX_JIT_DELAY

PostDelay(pkt) == IF pkt.type = "BEACON" THEN BEACON_RESERVED ELSE pkt.toa

NodeOf(pkt) == [type |-> pkt.type, count |-> pkt.count,
                pre |-> PreDelay(pkt.type), post |-> PostDelay(pkt)]

\* jit_collision_test.
CollisionTest(c1, pre1, post1, c2, pre2, post2) ==
  \/ Sub(c1, c2) <= pre1 + post2 + TX_MARGIN_DELAY
  \/ Sub(c2, c1) <= pre2 + post1 + TX_MARGIN_DELAY

-----------------------------------------------------------------------------
AsapStart_Wide(now) == {now + ASAP_DELAY}  \* mutant: not truncated to 32 bits

\* time_us + 1E6 is computed in double and converted back: past the last
\* counter value the conversion is undefined, and the builds either wrap
\* (x86) or saturate (ARM).
AsapStart(now) ==
  IF now + ASAP_DELAY < W THEN {now + ASAP_DELAY}
                          ELSE {(now + ASAP_DELAY) % W, W - 1}

\* The slot of an immediate downlink with reserved delays pre and post, given
\* the start asap: asap itself when it meets no node, otherwise right after
\* the first node that leaves room before its successor, or after the last.
AsapCollides(nodes, asap, pre, post, i) ==
  CollisionTest(asap, pre, post, nodes[i].count, nodes[i].pre, nodes[i].post)

SlotAfter_NoPre(nodes, i, pre) ==  \* mutant: pre_delay forgotten
  (nodes[i].count + nodes[i].post + TX_JIT_DELAY + TX_MARGIN_DELAY) % W

SlotAfter(nodes, i, pre) ==
  (nodes[i].count + nodes[i].post + pre + TX_JIT_DELAY + TX_MARGIN_DELAY) % W

SlotFits(nodes, i, pre, post) ==
  \/ i = Len(nodes)
  \/ ~AsapCollides(nodes, SlotAfter(nodes, i, pre), pre, post, i + 1)

AsapSlots(nodes, asap, pre, post) ==
  IF \A i \in DOMAIN nodes : ~AsapCollides(nodes, asap, pre, post, i)
    THEN {asap}
    ELSE {SlotAfter(nodes, i, pre) :
            i \in {k \in DOMAIN nodes :
                    /\ SlotFits(nodes, k, pre, post)
                    /\ \A j \in 1 .. (k - 1) : ~SlotFits(nodes, j, pre, post)}}

\* The packets jit_enqueue may decide upon for the request pkt: the packet
\* itself, or the immediate downlink turned into a timestamped one.
Scheduled(nodes, now, pkt) ==
  IF pkt.type = "C"
    THEN {[pkt EXCEPT !.count = slot] :
            slot \in UNION {AsapSlots(nodes, asap, PreDelay(pkt.type), PostDelay(pkt)) :
                              asap \in AsapStart(now)}}
    ELSE {pkt}

-----------------------------------------------------------------------------
TooLate_NoJitDelay(now, pkt) ==  \* mutant: only the radio's own delay
  Sub(pkt.count, now) <= TX_START_DELAY

\* Criterion 1: too late to program the packet.
TooLate(now, pkt) ==
  Sub(pkt.count, now) <= TX_START_DELAY + TX_MARGIN_DELAY + TX_JIT_DELAY

\* Criterion 2: implausibly far in the future; classes A and B only.
TooEarly(now, pkt) ==
  /\ pkt.type \in {"A", "B"}
  /\ Sub(pkt.count, now) > TX_MAX_ADVANCE_DELAY

\* Criterion 3: overlap with a queued node; the guard time of a beacon does
\* not protect it from class A and C downlinks.
TargetPreDelay(pkt, node) ==
  IF pkt.type \in {"A", "C"} /\ node.type = "BEACON"
    THEN TX_START_DELAY
    ELSE node.pre

CollidesWith_NoAir(pkt, node) ==  \* mutant: the new packet has no length
  CollisionTest(pkt.count, PreDelay(pkt.type), 0,
                node.count, TargetPreDelay(pkt, node), node.post)

CollidesWith(pkt, node) ==
  CollisionTest(pkt.count, PreDelay(pkt.type), PostDelay(pkt),
                node.count, TargetPreDelay(pkt, node), node.post)

\* The answer of jit_enqueue once it holds the lock.
Verdict(nodes, now, pkt) ==
  LET hits == {i \in DOMAIN nodes : CollidesWith(pkt, nodes[i])} IN
  CASE TooLate(now, pkt)  -> "TOO_LATE"
    [] ~TooLate(now, pkt) /\ TooEarly(now, pkt) -> "TOO_EARLY"
    [] ~TooLate(now, pkt) /\ ~TooEarly(now, pkt) /\ hits # {} ->
         LET first == CHOOSE i \in hits : \A j \in hits : i <= j IN
         IF nodes[first].type = "BEACON" THEN "COLLISION_BEACON"
                                         ELSE "COLLISION_PACKET"
    [] OTHER -> "OK"

-----------------------------------------------------------------------------
NotAfter_Reversed(p, q) ==  \* mutant: operands swapped, descending order
  Sub(q.count, p.count) = 0 \/ 2 * Sub(q.count, p.count) >= W

\* compare(): the sign of the 32-bit difference of the two counters.
NotAfter(p, q) == Sub(p.count, q.count) = 0 \/ 2 * Sub(p.count, q.count) >= W

Perms(n) == {p \in [1 .. n -> 1 .. n] :
               \A i, j \in 1 .. n : p[i] = p[j] => i = j}

\* jit_sort_queue: qsort_r leaves some permutation in which no neighbours are
\* out of order (compare is a total order only while the counters of the queue
\* lie within half the counter's range of each other).
Sorted(q) == {s \in {[i \in 1 .. Len(q) |-> q[p[i]]] : p \in Perms(Len(q))} :
                \A i \in 1 .. (Len(q) - 1) : NotAfter(s[i], s[i + 1])}

\* A node beyond the last one is zeroed memory.
ZeroNode == [type |-> "A", count |-> 0, pre |-> 0, post |-> 0]

NodeAt(q, i) == IF i \in DOMAIN q THEN q[i] ELSE ZeroNode

\* Taking out node i: the last node of the queue takes its place.
TakeOut(q, i) == [j \in 1 .. (Len(q) - 1) |-> IF j = i THEN q[Len(q)] ELSE q[j]]

\* Beacons among the nodes.
BeaconsIn(q) == {i \in DOMAIN q : q[i].type = "BEACON"}

\* A node whose departure is at or past TX_MAX_ADVANCE_DELAY from the time
\* seen by jit_peek: missed, or queued too far ahead.
Outdated(node, now) == Sub(node.count, now) >= TX_MAX_ADVANCE_DELAY

\* Two nodes keep clear of each other: neither reserved interval reaches into
\* the other, the guard time of a beacon counting only against class B
\* downlinks and other beacons.
GuardedPre(p, q) == IF p.type = "BEACON" /\ q.type \in {"A", "C"}
                      THEN TX_START_DELAY ELSE p.pre

Clear(p, q) == ~CollisionTest(p.count, GuardedPre(p, q), p.post,
                              q.count, GuardedPre(q, p), q.post)
=============================================================================
