----------------------------- MODULE GhostRing ------------------------------
(***************************************************************************)
(* The circular buffer between thread_ghost, which receives the packets of *)
(* simulated nodes, and thread_up, which collects them with ghost_get      *)
(* after those of the concentrator (fwd/src/ghost.c).                      *)
(*                                                                         *)
(* The two indices are read and written under cb_ghost, but each thread    *)
(* reads its own index, and copies the packets, without it: a copy takes   *)
(* several steps here and a slot that is half written holds Torn.          *)
(***************************************************************************)
EXTENDS Integers, Sequences

CONSTANTS
  GHST_NM_RCV,  \* slots of the ring
  NB_PKT_MAX,   \* packets of a batch
  MaxMsg        \* bound: valid datagrams received

ASSUME GhostAssumption ==
  /\ GHST_NM_RCV \in 2 .. 255   \* "do not exceed 255"
  /\ NB_PKT_MAX \in 1 .. 255
  /\ MaxMsg \in Nat

VARIABLES
  gpc, msg, big, nextslot,    \* thread_ghost: control, datagram, its size, next
  ghst_bgn, ghst_end,         \* where to write, where to read
  buffRX,                     \* the slots
  upc, nb_pkt, get_pkt, copied, \* thread_up and ghost_get
  got, lost                   \* packets handed over, packets dropped

gvars == <<gpc, msg, big, nextslot>>
uvars == <<upc, nb_pkt, get_pkt, copied>>
vars  == <<gvars, uvars, ghst_bgn, ghst_end, buffRX, got, lost>>

Slot   == 0 .. GHST_NM_RCV - 1
Packet == 1 .. MaxMsg
Torn   == 0

TypeOK ==
  /\ gpc \in {"recv", "test", "copy", "copying", "publish"}
  /\ msg \in 0 .. MaxMsg
  /\ big \in BOOLEAN
  /\ nextslot \in Slot
  /\ ghst_bgn \in Slot /\ ghst_end \in Slot
  /\ buffRX \in [Slot -> Packet \cup {Torn}]
  /\ upc \in {"fetch", "avail", "read"}
  /\ nb_pkt \in 0 .. NB_PKT_MAX
  /\ get_pkt \in 0 .. 255
  /\ copied \in Seq(Packet \cup {Torn})
  /\ got \in Seq(Packet \cup {Torn})
  /\ lost \in SUBSET Packet

\* ghost_start; the slots are zeroed static storage.
Init ==
  /\ gpc = "recv" /\ msg = 0 /\ big = FALSE /\ nextslot = 0
  /\ ghst_bgn = 0 /\ ghst_end = 0
  /\ buffRX = [i \in Slot |-> Torn]
  /\ upc = "fetch" /\ nb_pkt = 0 /\ get_pkt = 0 /\ copied = <<>>
  /\ got = <<>> /\ lost = {}

-----------------------------------------------------------------------------
(* thread_ghost. *)

\* A datagram that respects the protocol; the others are ignored.  A maximal
\* one is a byte longer than a slot with its terminator.
Recv ==
  /\ gpc = "recv"
  /\ msg < MaxMsg
  /\ msg' = msg + 1
  /\ big' \in BOOLEAN
  /\ gpc' = "test"
  /\ UNCHANGED <<nextslot, uvars, ghst_bgn, ghst_end, buffRX, got, lost>>

After(i) == (i + 1) % GHST_NM_RCV

Full_Early(i) == After(i) = ghst_end  \* mutant: one more slot kept free

Full_Unchecked(i) == FALSE  \* mutant: old packets are overwritten

Full(i) == i = ghst_end

\* The full test is made under cb_ghost; a packet that fails it is dropped.
TestFull ==
  /\ gpc = "test"
  /\ nextslot' = After(ghst_bgn)
  /\ \/ /\ Full(nextslot')
        /\ lost' = lost \cup {msg}
        /\ gpc' = "recv"
     \/ /\ ~Full(nextslot')
        /\ gpc' = "copy"
        /\ UNCHANGED lost
  /\ UNCHANGED <<msg, big, uvars, ghst_bgn, ghst_end, buffRX, got>>

\* The slots a copy to slot i touches: the terminator of a maximal datagram
\* falls in the following slot, or after the last one.
Touched(i) == {i} \cup (IF big /\ i < GHST_NM_RCV - 1 THEN {i + 1} ELSE {})

CopyBegin ==
  /\ gpc = "copy"
  /\ buffRX' = [i \in Slot |-> IF i \in Touched(ghst_bgn) THEN Torn ELSE buffRX[i]]
  /\ gpc' = "copying"
  /\ UNCHANGED <<msg, big, nextslot, uvars, ghst_bgn, ghst_end, got, lost>>

CopyEnd ==
  /\ gpc = "copying"
  /\ buffRX' = [buffRX EXCEPT ![ghst_bgn] = msg]
  /\ gpc' = "publish"
  /\ UNCHANGED <<msg, big, nextslot, uvars, ghst_bgn, ghst_end, got, lost>>

Publish ==
  /\ gpc = "publish"
  /\ ghst_bgn' = nextslot
  /\ gpc' = "recv"
  /\ UNCHANGED <<msg, big, nextslot, uvars, ghst_end, buffRX, got, lost>>

Ghost == Recv \/ TestFull \/ CopyBegin \/ CopyEnd \/ Publish

-----------------------------------------------------------------------------
(* thread_up. *)

\* lgw_receive filled the first n entries of the batch.
Receive(n) ==
  /\ upc = "fetch"
  /\ nb_pkt' = n
  /\ copied' = <<>>
  /\ upc' = "avail"
  /\ UNCHANGED <<gvars, get_pkt, ghst_bgn, ghst_end, buffRX, got, lost>>

Avail == (ghst_bgn - ghst_end + GHST_NM_RCV) % GHST_NM_RCV

Wanted_Unbounded(max_pkt) == Avail  \* mutant: the room left is not looked at

Wanted_WhenEmpty(max_pkt) ==  \* mutant: only an empty batch is completed
  IF max_pkt = NB_PKT_MAX /\ Avail < max_pkt THEN Avail ELSE 0

Wanted(max_pkt) == IF Avail < max_pkt THEN Avail ELSE max_pkt

\* ghost_get: the first critical section.
GetAvail ==
  /\ upc = "avail"
  /\ get_pkt' = Wanted(NB_PKT_MAX - nb_pkt)
  /\ upc' = "read"
  /\ UNCHANGED <<gvars, nb_pkt, copied, ghst_bgn, ghst_end, buffRX, got, lost>>

\* readRX, without the lock.
Read ==
  /\ upc = "read"
  /\ Len(copied) < get_pkt
  /\ copied' = Append(copied, buffRX[(ghst_end + Len(copied)) % GHST_NM_RCV])
  /\ UNCHANGED <<gvars, upc, nb_pkt, get_pkt, ghst_bgn, ghst_end, buffRX, got, lost>>

\* ghost_get: the second critical section; the batch goes its way.
Advance ==
  /\ upc = "read"
  /\ Len(copied) = get_pkt
  /\ ghst_end' = (ghst_end + get_pkt) % GHST_NM_RCV
  /\ nb_pkt' = nb_pkt + get_pkt
  /\ got' = got \o copied
  /\ upc' = "fetch"
  /\ UNCHANGED <<gvars, get_pkt, copied, ghst_bgn, buffRX, lost>>

Up == GetAvail \/ Read \/ Advance \/ \E n \in 0 .. NB_PKT_MAX : Receive(n)

Next == Ghost \/ Up

Spec == Init /\ [][Next]_vars

\* Both threads run, and the concentrator does not fill every batch.
Fairness ==
  /\ WF_vars(TestFull \/ CopyBegin \/ CopyEnd \/ Publish)
  /\ WF_vars(Up)
  /\ SF_vars(\E n \in 0 .. NB_PKT_MAX - 1 : Receive(n))

FairSpec == Spec /\ Fairness

-----------------------------------------------------------------------------
(* Properties. *)

\* No packet that thread_up copied without the lock was half written, although
\* thread_ghost writes, and a maximal datagram spills into the next slot, at
\* the same time.
NoTornRead == \A i \in DOMAIN copied : copied[i] # Torn

\* Every valid datagram is handed over, or was dropped because the ring was
\* full, as long as the concentrator leaves room in some batches.
Answered ==
  \A p \in Packet :
    (msg = p) ~> (p \in lost \/ \E i \in DOMAIN got : got[i] = p)

\* The packets between the two indices, oldest first.
Queue == [i \in 1 .. Avail |-> buffRX[(ghst_end + i - 1) % GHST_NM_RCV]]

Fifo == INSTANCE BoundedFifo WITH
          Item <- Packet,
          Capacity <- GHST_NM_RCV - 1,
          queue <- Queue,
          out <- got,
          lost <- lost

\* The ring implements a bounded FIFO of GHST_NM_RCV - 1 packets: packets come
\* out once, whole and in order, and are dropped only when it is full, although
\* ghost_get decides how many to take in one critical section, copies them in
\* none and releases them in another.
Implements == Fifo!FifoSpec
=============================================================================
