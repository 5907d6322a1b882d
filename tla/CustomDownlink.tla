--------------------------- MODULE CustomDownlink ---------------------------
(***************************************************************************)
(* The custom downlinks of the packet service (fwd/src/pkt_serv.c).  The   *)
(* downstream thread takes files from a directory and keeps the downlinks  *)
(* they describe in a list; the upstream thread looks there for one for    *)
(* the device that just sent an uplink.  An immediate downlink is sent by  *)
(* the downstream thread itself.  The two threads share the list, which    *)
(* has a lock, its nodes, which have none between the search of a node and *)
(* its removal, and the static buffer tmpstr.                              *)
(*                                                                         *)
(* A node is an address of the heap that malloc may give again after free. *)
(* The use of a free node is undefined and ends an execution.  jit_enqueue *)
(* accepts or rejects here; JitQueue says when.  The frame counters and    *)
(* keys of the database are data, left out with db_family.                 *)
(***************************************************************************)
EXTENDS Integers, Sequences, SequencesExt, FiniteSets

CONSTANTS
  Dev,                 \* devices with keys in the database
  Node,                \* addresses of list nodes
  NULL,
  TIME, IMME, FIELD,   \* contents of tmpstr: the two modes, any other field
  LIMIT,               \* the list loses its head above this size (16)
  Loads                \* bounds and configurations, one of which an execution has

\* The text of an address, as sprintf writes it or as a user may.
Text  == Dev \X {"upper", "lower"}
Upper(d) == <<d, "upper">>

Field  == Text \cup {TIME, IMME, FIELD}
File   == [addr : Text, mode : {TIME, IMME}]

\* A node as lgw_malloc gives it: it comes from no file.
Zeroed == [id |-> 0, addr |-> FIELD, mode |-> FIELD]

Packet == [dev : Dev, fsize : 0 .. 1]

ASSUME CustomAssumption ==
  /\ NULL \notin Node \cup File
  /\ IMME \notin Text \cup {TIME, FIELD}
  /\ LIMIT \in Nat
  /\ Loads \subseteq [kinds : SUBSET File, files : Nat, batches : Nat, size : Nat,
                     mac_decoded : BOOLEAN, stop : BOOLEAN]

VARIABLES
  up, batch, i, devinfo, dnelem,  \* upstream: control, packets in hand, index,
                                  \* device of the packet, node found
  down, file, entry,         \* downstream: control, file in hand, node it fills
  main, stop_sig, sema,
  pending,                   \* batch received and not yet taken
  dn_list, size,             \* the list and its size field
  used, content,             \* nodes allocated, what a node holds
  tmpstr,
  undefined,                 \* a free node was used
  load,                      \* files that are written, how many at most, batches at
                             \* most, packets in a batch at most, mac_decoded,
                             \* whether the service is stopped
  files, batches,            \* taken and received so far
  taken, sent                \* history: files taken, downlinks accepted

upvars   == <<up, batch, i, devinfo, dnelem>>
downvars == <<down, file, entry>>
mainvars == <<main, stop_sig>>
lists    == <<dn_list, size>>
heap     == <<used, content>>
input    == <<pending, batches>>
history  == <<taken, sent>>
vars == <<upvars, downvars, mainvars, sema, input, lists, heap, tmpstr, undefined, load,
          files, history>>

TypeOK ==
  /\ up \in {"wait", "packet", "search", "frame", "enqueue", "remove", "end"}
  /\ batch \in BoundedSeq(Packet, load.size)
  /\ i \in 0 .. load.size + 1
  /\ devinfo \in Dev \cup {NULL} /\ dnelem \in Node \cup {NULL}
  /\ down \in {"dir", "copyaddr", "scanmode", "copymode", "scanrest", "keys", "frame",
               "enqueue", "insert", "end"}
  /\ file \in File \cup {NULL}
  /\ entry \in Node \cup {NULL}
  /\ main \in {"run", "joinup", "joindown", "end"}
  /\ stop_sig \in BOOLEAN /\ undefined \in BOOLEAN
  /\ sema \in Nat
  /\ pending \in BoundedSeq(Packet, load.size)
  /\ dn_list \in BoundedSeq(Node, LIMIT + 1)
  /\ size \in 0 .. LIMIT + 1
  /\ used \subseteq Node
  /\ content \in [Node -> [id : 0 .. load.files, addr : Field, mode : Field]]
  /\ tmpstr \in Field
  /\ load \in Loads
  /\ files \in 0 .. load.files /\ batches \in 0 .. load.batches
  /\ taken \in [1 .. files -> File]
  /\ sent \in Seq([id : 0 .. load.files, dev : Dev])

Init ==
  /\ up = "wait" /\ batch = <<>> /\ i = 0
  /\ devinfo = NULL /\ dnelem = NULL
  /\ down = "dir" /\ file = NULL /\ entry = NULL
  /\ main = "run" /\ stop_sig = FALSE /\ sema = 0
  /\ pending = <<>> /\ batches = 0
  /\ dn_list = <<>> /\ size = 0
  /\ used = {} /\ content = [n \in Node |-> Zeroed]
  /\ tmpstr = FIELD
  /\ undefined = FALSE
  /\ load \in Loads /\ files = 0
  /\ taken = <<>> /\ sent = <<>>

-----------------------------------------------------------------------------
\* strcasecmp of two addresses.
SameDevice(a, b) == a = b \/ (a \in Text /\ b \in Text /\ a[1] = b[1])

\* The test of the main loops.
Loop(first) == IF stop_sig THEN "end" ELSE first

\* The places of l up to j that hold a node of S.
Places(l, S, j) == {m \in DOMAIN l : m <= j /\ l[m] \in S}

\* What remains of the list l, in its order, when the nodes outside S are
\* unlinked: the k-th to remain stands at the place up to which k remain.
Kept(l, S) ==
  [k \in 1 .. Cardinality(Places(l, S, Len(l))) |->
     l[CHOOSE j \in DOMAIN l : l[j] \in S /\ Cardinality(Places(l, S, j)) = k]]

\* jit_enqueue takes the downlink of node, for device d, or does not.
Accept(node, d) == sent' = Append(sent, [id |-> content[node].id, dev |-> d])

-----------------------------------------------------------------------------
(* The upstream thread: pkt_deal_up. *)

\* thread_up has a batch for this service and posts its semaphore.
Uplink ==
  /\ batches < load.batches
  /\ pending = <<>>
  /\ batches' = batches + 1
  /\ \E n \in 1 .. load.size : pending' \in [1 .. n -> Packet]
  /\ sema' = sema + 1
  /\ UNCHANGED <<upvars, downvars, mainvars, lists, heap, tmpstr, undefined, load, files,
                 history>>

\* sem_wait and get_rxpkt.
Wake ==
  /\ up = "wait"
  /\ sema > 0
  /\ sema' = sema - 1
  /\ batch' = pending
  /\ pending' = <<>>
  /\ i' = 0
  /\ up' = IF pending = <<>> THEN Loop("wait") ELSE "packet"
  /\ UNCHANGED <<devinfo, dnelem, downvars, mainvars, batches, lists, heap, tmpstr, undefined,
                 load, files, history>>

\* The index after a packet is decoded: the loop that logs its fsize bytes
\* counts with the same i.
Decoded(p) == IF load.mac_decoded THEN {i, p.fsize} ELSE {i}

\* One packet: it is skipped (too short, not a data frame, no keys), or it is
\* decoded, its MIC right or not, and its address is printed in tmpstr.
DealUp ==
  /\ up = "packet"
  /\ \/ /\ i >= Len(batch)
        /\ batch' = <<>> /\ i' = 0
        /\ up' = Loop("wait")
        /\ UNCHANGED <<devinfo, tmpstr>>
     \/ /\ i < Len(batch)
        /\ i' = i + 1
        /\ UNCHANGED <<up, batch, devinfo, tmpstr>>
     \/ /\ i < Len(batch)
        /\ i' \in Decoded(batch[i + 1])
        /\ devinfo' = batch[i + 1].dev
        /\ tmpstr' = Upper(batch[i + 1].dev)
        /\ up' = "search"
        /\ UNCHANGED batch
  /\ UNCHANGED <<dnelem, downvars, mainvars, sema, input, lists, heap, undefined,
                 load, files, history>>

NextPacket ==
  /\ i' = i + 1
  /\ devinfo' = NULL /\ dnelem' = NULL
  /\ up' = "packet"

Matches(j) == SameDevice(content[dn_list[j]].addr, tmpstr)

\* search_dn_list, under the lock of the list: the first node that matches.
Search ==
  /\ up = "search"
  /\ \/ \E j \in DOMAIN dn_list :
          /\ Matches(j)
          /\ \A k \in 1 .. (j - 1) : ~Matches(k)
          /\ dnelem' = dn_list[j]
          /\ up' = "frame"
          /\ UNCHANGED <<i, devinfo>>
     \/ /\ \A j \in DOMAIN dn_list : ~Matches(j)
        /\ NextPacket
  /\ UNCHANGED <<batch, downvars, mainvars, sema, input, lists, heap, tmpstr,
                 undefined, load, files, history>>

\* custom_rx2dn: the radio parameters are read from the node, the frame
\* counter goes through tmpstr.
Frame ==
  /\ up = "frame"
  /\ dnelem \in used
  /\ tmpstr' = FIELD
  /\ up' = "enqueue"
  /\ UNCHANGED <<batch, i, devinfo, dnelem, downvars, mainvars, sema, input, lists, heap,
                 undefined, load, files, history>>

Leaves_Swapped(accepted) == ~accepted  \* mutant: != JIT_ERROR_OK

\* Only a downlink that is accepted leaves the list.
Leaves(accepted) == accepted

\* custom_rx2dn: the payload is read from the node, encrypted, and queued.
Enqueue ==
  /\ up = "enqueue"
  /\ dnelem \in used
  /\ \E accepted \in BOOLEAN :
       /\ IF accepted THEN Accept(dnelem, devinfo) ELSE UNCHANGED sent
       /\ \/ /\ Leaves(accepted)
             /\ up' = "remove"
             /\ UNCHANGED <<i, devinfo, dnelem>>
          \/ /\ ~Leaves(accepted)
             /\ NextPacket
  /\ UNCHANGED <<batch, downvars, mainvars, sema, input, lists, heap, tmpstr, undefined,
                 load, files, taken>>

Removed(n) == Kept(dn_list, Node \ {n})

\* The node is removed if it is still there, and freed, under the lock.
RemoveSent ==
  /\ up = "remove"
  /\ dnelem \in used
  /\ dn_list' = Removed(dnelem)
  /\ size' = IF Contains(dn_list, dnelem) THEN size - 1 ELSE size
  /\ used' = used \ {dnelem}
  /\ NextPacket
  /\ UNCHANGED <<batch, downvars, mainvars, sema, input, content, tmpstr,
                 undefined, load, files, history>>

Up == Wake \/ DealUp \/ Search \/ Frame \/ Enqueue \/ RemoveSent

-----------------------------------------------------------------------------
(* The downstream thread: pkt_prepare_downlink. *)

\* A file is read, unlinked, and dropped if it has less than three commas;
\* a node is allocated, which zeroes it, and the address copied to tmpstr.
TakeFile ==
  /\ down = "dir"
  /\ files < load.files
  /\ files' = files + 1
  /\ \E f \in load.kinds :
       /\ taken' = Append(taken, f)
       /\ \/ UNCHANGED <<downvars, heap, tmpstr>>
          \/ \E n \in Node \ used :
               /\ used' = used \cup {n}
               /\ content' = [content EXCEPT ![n] = Zeroed]
               /\ entry' = n
               /\ file' = f
               /\ tmpstr' = f.addr
               /\ down' = "copyaddr"
  /\ UNCHANGED <<upvars, mainvars, sema, input, lists, undefined, load, sent>>

NextFile ==
  /\ down' = "dir"
  /\ file' = NULL /\ entry' = NULL

\* strcpy from tmpstr to the node, twice; strcpypt of the mode in between.
CopyAddr ==
  /\ down = "copyaddr"
  /\ entry \in used
  /\ content' = [content EXCEPT ![entry].id = files, ![entry].addr = tmpstr]
  /\ down' = "scanmode"
  /\ UNCHANGED <<upvars, file, entry, mainvars, sema, input, lists, used, tmpstr,
                 undefined, load, files, history>>

ScanMode ==
  /\ down = "scanmode"
  /\ tmpstr' = file.mode
  /\ down' = "copymode"
  /\ UNCHANGED <<upvars, file, entry, mainvars, sema, input, lists, heap, undefined, load,
                 files, history>>

CopyMode ==
  /\ down = "copymode"
  /\ entry \in used
  /\ content' = [content EXCEPT ![entry].mode = tmpstr]
  /\ down' = "scanrest"
  /\ UNCHANGED <<upvars, file, entry, mainvars, sema, input, lists, used, tmpstr,
                 undefined, load, files, history>>

\* The other fields; no payload or half a byte of it drops the downlink.
ScanRest ==
  /\ down = "scanrest"
  /\ entry \in used
  /\ tmpstr' = FIELD
  /\ \/ /\ used' = used \ {entry}
        /\ NextFile
     \/ /\ down' = IF content[entry].mode = IMME THEN "keys" ELSE "insert"
        /\ UNCHANGED <<file, entry, used>>
  /\ UNCHANGED <<upvars, mainvars, sema, input, lists, content, undefined,
                 load, files, history>>

\* An immediate downlink needs the keys of its device.
Keys ==
  /\ down = "keys"
  /\ entry \in used
  /\ \/ /\ content[entry].addr \in Text
        /\ down' = "frame"
        /\ UNCHANGED <<file, entry, used>>
     \/ /\ content[entry].addr \notin Text
        /\ used' = used \ {entry}
        /\ NextFile
  /\ UNCHANGED <<upvars, mainvars, sema, input, lists, content, tmpstr,
                 undefined, load, files, history>>

ImmediateFrame ==
  /\ down = "frame"
  /\ entry \in used
  /\ tmpstr' = FIELD
  /\ down' = "enqueue"
  /\ UNCHANGED <<upvars, file, entry, mainvars, sema, input, lists, heap, undefined, load,
                 files, history>>

\* Accepted or rejected, an immediate downlink is freed.
ImmediateEnqueue ==
  /\ down = "enqueue"
  /\ entry \in used
  /\ Accept(entry, content[entry].addr[1]) \/ UNCHANGED sent
  /\ used' = used \ {entry}
  /\ NextFile
  /\ UNCHANGED <<upvars, mainvars, sema, input, lists, content, tmpstr,
                 undefined, load, files, taken>>

Full_Late == size > LIMIT + 1  \* mutant: the head is removed one too late

Full == size > LIMIT

Older_Ignored(l, addr) == l  \* mutant: the same address twice

\* What the list keeps when a downlink for addr comes.
Older(l, addr) == Kept(l, {n \in Node : content[n].addr # addr})

\* Under the lock: the head leaves a full list, those of the same address
\* (strcmp) leave, the new one is the tail.
Insert ==
  /\ down = "insert"
  /\ entry \in used
  /\ LET kept == Older(IF Full /\ dn_list # <<>> THEN Tail(dn_list) ELSE dn_list,
                       content[entry].addr)
         gone == ToSet(dn_list) \ ToSet(kept) IN
       /\ dn_list' = Append(kept, entry)
       /\ size' = size - Cardinality(gone) + 1
       /\ used' = used \ gone
  /\ NextFile
  /\ UNCHANGED <<upvars, mainvars, sema, input, content, tmpstr, undefined,
                 load, files, history>>

\* The directory has been read, and the loop ends when the service stops.
EndDir ==
  /\ down = "dir"
  /\ stop_sig
  /\ down' = "end"
  /\ UNCHANGED <<upvars, file, entry, mainvars, sema, input, lists, heap, tmpstr,
                 undefined, load, files, history>>

Down == \/ TakeFile \/ CopyAddr \/ ScanMode \/ CopyMode \/ ScanRest \/ Keys
        \/ ImmediateFrame \/ ImmediateEnqueue \/ Insert \/ EndDir

-----------------------------------------------------------------------------
\* A thread uses, or frees again, a node that is free.
UseFreed ==
  /\ \/ up \in {"frame", "enqueue", "remove"} /\ dnelem \notin used
     \/ down \notin {"dir", "scanmode", "end"} /\ entry \notin used
  /\ undefined' = TRUE
  /\ UNCHANGED <<upvars, downvars, mainvars, sema, input, lists, heap, tmpstr, load, files,
                 history>>

Woken_Forgotten(n) == n  \* mutant: pkt_stop does not post

Woken(n) == n + 1

\* pkt_stop: the upstream thread is joined, then the downstream one.
Stop ==
  /\ load.stop
  /\ main = "run"
  /\ stop_sig' = TRUE
  /\ sema' = Woken(sema)
  /\ main' = "joinup"
  /\ UNCHANGED <<upvars, downvars, input, lists, heap, tmpstr, undefined, load, files,
                 history>>

Join ==
  /\ \/ main = "joinup" /\ up = "end" /\ main' = "joindown"
     \/ main = "joindown" /\ down = "end" /\ main' = "end"
  /\ UNCHANGED <<upvars, downvars, stop_sig, sema, input, lists, heap, tmpstr, undefined,
                 load, files, history>>

Next == ~undefined /\ (Uplink \/ Up \/ Down \/ UseFreed \/ Stop \/ Join)

Spec == Init /\ [][Next]_vars

\* The threads run.
FairSpec == Spec /\ WF_vars(~undefined /\ Up) /\ WF_vars(~undefined /\ Down)
                 /\ WF_vars(~undefined /\ Join)

-----------------------------------------------------------------------------
(* Properties. *)

\* The list, filled by one thread and emptied by the other, holds allocated
\* nodes only, at most LIMIT + 1, one for an address and the newer behind the
\* older; the size field, which four places adjust, counts them.
KeptNewest ==
  /\ size = Len(dn_list)
  /\ ToSet(dn_list) \subseteq used
  /\ \A j, k \in 1 .. Len(dn_list) : j < k =>
       /\ content[dn_list[j]].addr # content[dn_list[k]].addr
       /\ content[dn_list[j]].id < content[dn_list[k]].id

\* A timed downlink is accepted for transmission once at most: neither a search
\* that finds it again, nor its replacement between search and removal, nor a
\* node that is allocated again while the upstream thread still points to it,
\* makes it leave twice.  An immediate one may leave twice: when its node is one
\* that the upstream thread still points to, both threads send it.  What is sent
\* of a node just zeroed is of no file.
AcceptedOnce ==
  \A j, k \in 1 .. Len(sent) :
    j # k /\ sent[j].id = sent[k].id /\ sent[j].id # 0 =>
      taken[sent[j].id].mode = IMME

\* pkt_stop ends whatever the threads are at, if payloads are not decoded: with
\* mac_decoded the packet loop may turn for ever.
Stops == (main = "joinup" /\ ~load.mac_decoded) ~> (main = "end" \/ undefined)

\* "devaddr, txmode, payload format, payload" is the format of the files
\* (pkt_service.h:31): a downlink is sent to the device that its file names.
RightDevice ==
  \A k \in 1 .. Len(sent) : sent[k].id # 0 => sent[k].dev = taken[sent[k].id].addr[1]
=============================================================================
