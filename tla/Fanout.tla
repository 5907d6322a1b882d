------------------------------- MODULE Fanout -------------------------------
(***************************************************************************)
(* What the uplink path of the packet forwarder promises its services: a   *)
(* batch of received packets, once published, is delivered to every        *)
(* service at most once, in any order, and is not discarded before all of  *)
(* them have had it, unless the program is closing.                        *)
(***************************************************************************)
EXTENDS Naturals

CONSTANTS Services, Batch

VARIABLES
  published,  \* batches offered to the services so far
  received,   \* how often each service was given each batch
  discarded,  \* batches whose memory was released
  closing     \* the program was told to exit

fvars == <<published, received, discarded, closing>>

FInit ==
  /\ published = {}
  /\ received = [s \in Services |-> [b \in Batch |-> 0]]
  /\ discarded = {}
  /\ closing = FALSE

Publish(b) ==
  /\ b \notin published
  /\ published' = published \cup {b}
  /\ UNCHANGED <<received, discarded, closing>>

Deliver(s, b) ==
  /\ b \in published \ discarded
  /\ received[s][b] = 0
  /\ received' = [received EXCEPT ![s][b] = 1]
  /\ UNCHANGED <<published, discarded, closing>>

Discard(b) ==
  /\ b \in published \ discarded
  /\ closing \/ \A s \in Services : received[s][b] = 1
  /\ discarded' = discarded \cup {b}
  /\ UNCHANGED <<published, received, closing>>

Close ==
  /\ closing' = TRUE
  /\ UNCHANGED <<published, received, discarded>>

FNext ==
  \/ Close
  \/ \E b \in Batch : Publish(b) \/ Discard(b)
  \/ \E s \in Services, b \in Batch : Deliver(s, b)

FSpec == FInit /\ [][FNext]_fvars
=============================================================================
