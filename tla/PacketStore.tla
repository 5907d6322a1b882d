---------------------------- MODULE PacketStore ----------------------------
(***************************************************************************)
(* What the database of the packet forwarder promises: its threads read    *)
(* and write a view at once, and other programs, such as the web pages,    *)
(* read a file that is some past state of the view, never a part of a      *)
(* change.  A write is in the file some time later, unless it is undone.   *)
(* The keys of gwdb last for a run of the program, packets stay.           *)
(***************************************************************************)
EXTENDS Integers

CONSTANTS Key, Value, NONE

VARIABLES view, disk

\* The table gwdb, and the number of the last row of livepkts.
Store == [gwdb : [Key -> Value \cup {NONE}], last : Nat]

Wiped(s) == [s EXCEPT !.gwdb = [k \in Key |-> NONE]]

Init ==
  /\ view = [gwdb |-> [k \in Key |-> NONE], last |-> 0]
  /\ disk = view

\* A key gets a value, some keys lose theirs, or a packet is added.
Puts(s)    == {[s EXCEPT !.gwdb[k] = v] : k \in Key, v \in Value}
Dels(s)    == {[s EXCEPT !.gwdb = [k \in Key |-> IF k \in ks THEN NONE ELSE @[k]]] : ks \in SUBSET Key}
Pkts(s)    == {[s EXCEPT !.last = @ + 1]}
Changes(s) == Puts(s) \cup Dels(s) \cup Pkts(s)

\* At once in the file only if that misses nothing.
Write ==
  /\ view' \in Changes(view)
  /\ disk' = disk \/ (disk = view /\ disk' = view')

Sync ==
  /\ disk' = view
  /\ UNCHANGED view

\* What is not in the file is undone.
Undo ==
  /\ view' = disk
  /\ UNCHANGED disk

\* The program starts.
Restart ==
  /\ view' = Wiped(disk)
  /\ disk' = Wiped(disk)

Next == Write \/ Sync \/ Undo \/ Restart

Safe == Init /\ [][Next]_<<view, disk>>

\* What differs is written or undone, however often the view changes.
Spec == Safe /\ WF_<<view, disk>>(Sync \/ Undo)
=============================================================================
