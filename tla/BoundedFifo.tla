---------------------------- MODULE BoundedFifo -----------------------------
(***************************************************************************)
(* A bounded first-in first-out buffer between a producer that never waits *)
(* and a consumer that takes several items at a time: an arriving item is  *)
(* lost exactly when the buffer is full, the others come out once each and *)
(* in the order of their arrival.                                          *)
(***************************************************************************)
EXTENDS Naturals, Sequences

CONSTANTS Item, Capacity

VARIABLES
  queue,  \* items in the buffer, oldest first
  out,    \* items handed over so far
  lost    \* items that found the buffer full

fifovars == <<queue, out, lost>>

FifoInit == queue = <<>> /\ out = <<>> /\ lost = {}

Fresh(x) == /\ x \notin lost
            /\ \A i \in DOMAIN queue : queue[i] # x
            /\ \A i \in DOMAIN out : out[i] # x

Put(x) ==
  /\ Fresh(x)
  /\ Len(queue) < Capacity
  /\ queue' = Append(queue, x)
  /\ UNCHANGED <<out, lost>>

Lose(x) ==
  /\ Fresh(x)
  /\ Len(queue) = Capacity
  /\ lost' = lost \cup {x}
  /\ UNCHANGED <<queue, out>>

Get(k) ==
  /\ out' = out \o SubSeq(queue, 1, k)
  /\ queue' = SubSeq(queue, k + 1, Len(queue))
  /\ UNCHANGED lost

FifoNext == \/ \E x \in Item : Put(x) \/ Lose(x)
            \/ \E k \in 1 .. Len(queue) : Get(k)

FifoSpec == FifoInit /\ [][FifoNext]_fifovars
=============================================================================
