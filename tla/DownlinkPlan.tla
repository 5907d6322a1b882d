---------------------------- MODULE DownlinkPlan ----------------------------
(***************************************************************************)
(* What the just-in-time queue promises: the accepted packets are a plan   *)
(* of departures that keep clear of each other.  The packet that departs   *)
(* first is taken in its window, then handed to the radio chain while      *)
(* there is time to program it; one that would depart too far ahead may be *)
(* dropped, and no departure is ever passed over.                          *)
(***************************************************************************)
EXTENDS JitOps

CONSTANTS
  Start,       \* first value of the counter
  POLL_LAG     \* how late a counter value in use may be

VARIABLES
  now,         \* the counter of the concentrator
  plan,        \* the packets accepted
  hand,        \* the packet taken for the radio, if any
  chain        \* the packet programmed on the radio chain

planvars == <<now, plan, hand, chain>>

Silent == [on |-> FALSE, count |-> 0, toa |-> 0]

Init == now = Start /\ plan = {} /\ hand = {} /\ chain = Silent

\* Time left before a packet departs.
Left(n) == Sub(n.count, now)

\* No packet is late: each can still be programmed after a tick.
Tick ==
  /\ \A n \in plan \cup hand : Left(n) > TX_START_DELAY
  /\ now' = (now + 1) % W
  /\ chain' = IF chain.on /\ Sub(now', chain.count) = chain.toa THEN Silent ELSE chain
  /\ UNCHANGED <<plan, hand>>

\* A packet joins the plan before its window opens, clear of the others.
Accept ==
  /\ \E n \in plan' \ plan :
       /\ n \in Node
       /\ plan' = plan \cup {n}
       /\ Left(n) > TX_JIT_DELAY
       /\ n.type \in {"A", "B"} => Left(n) <= TX_MAX_ADVANCE_DELAY
       /\ \A m \in plan : Clear(m, n)
  /\ UNCHANGED <<now, hand, chain>>

\* The first to depart is taken, in its window.
Take ==
  /\ hand = {}
  /\ \E n \in plan :
       /\ Left(n) \in TX_START_DELAY .. (TX_JIT_DELAY - 1)
       /\ \A m \in plan \ {n} : Left(n) < Left(m)
       /\ plan' = plan \ {n}
       /\ hand' = {n}
  /\ UNCHANGED <<now, chain>>

\* A packet is dropped only far ahead of its departure.
Drop ==
  /\ hand = {}
  /\ \E n \in plan :
       /\ Left(n) >= TX_MAX_ADVANCE_DELAY - POLL_LAG
       /\ plan' = plan \ {n}
  /\ UNCHANGED <<now, hand, chain>>

\* The chain is on the air: thread_jit gives the packet up (when lgw_status
\* fails it does not see that, and the packet goes to Send).
GiveUp ==
  /\ hand # {}
  /\ chain.on /\ Sub(now, chain.count) < chain.toa
  /\ hand' = {}
  /\ UNCHANGED <<now, plan, chain>>

\* The radio takes the packet, or refuses it.
Send ==
  /\ \E n \in hand :
       /\ Left(n) \in TX_START_DELAY .. TX_JIT_DELAY
       /\ chain' \in {chain, [on |-> TRUE, count |-> n.count, toa |-> n.post]}
  /\ hand' = {}
  /\ UNCHANGED <<now, plan>>

Next == Tick \/ Accept \/ Take \/ Drop \/ GiveUp \/ Send

Spec == Init /\ [][Next]_planvars
=============================================================================
