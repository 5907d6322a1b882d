----------------------------- MODULE RxDispatch -----------------------------
(***************************************************************************)
(* The uplink dispatch of the packet forwarder (fwd/src/fwd.c):            *)
(*                                                                         *)
(*  - thread_up receives a batch of packets, puts it at the head of        *)
(*    GW.rxpkts_list under the list's lock, posts the semaphore of every   *)
(*    service and, when the list is longer than DEFAULT_RXPKTS_LIST_SIZE,  *)
(*    starts a detached thread_rxpkt_recycle;                              *)
(*  - each service (semtech_push_up, mqtt_push_up, pkt_deal_up) waits on   *)
(*    its semaphore and calls get_rxpkt, which walks the list WITHOUT the  *)
(*    lock to the first batch that does not bear the service's stamp;      *)
(*  - thread_rxpkt_recycle unlinks and frees, under the lock, the batches  *)
(*    no service is still to take (bind < 1).                              *)
(*                                                                         *)
(* A batch is named by its arrival number and 0 is the null pointer; the   *)
(* addresses of freed batches are not reused.  A service that follows a    *)
(* pointer to a freed batch has undefined behaviour: undefined becomes     *)
(* TRUE and the modelled execution ends there.                             *)
(***************************************************************************)
EXTENDS Integers, FiniteSets

CONSTANTS
  Services,    \* the elements of GW.serv_list
  Reporters,   \* those woken by report_start too (type semtech)
  Quitters,    \* those whose downstream thread may give up (autoquit)
  MaxBatch,    \* bound: batches received
  MaxReports,  \* bound: status reports per service
  DEFAULT_RXPKTS_LIST_SIZE

\* A service has a bit of the uint8_t stamps ("number of services should be
\* less than 8", plus the packet service), so bind never wraps.
ASSUME RxAssumption ==
  /\ IsFiniteSet(Services) /\ Cardinality(Services) \in 1 .. 8
  /\ Reporters \subseteq Services /\ Quitters \subseteq Services
  /\ {MaxBatch, MaxReports, DEFAULT_RXPKTS_LIST_SIZE} \subseteq Nat

VARIABLES
  upc, batch, topost,        \* thread_up: control, last batch, services to post
  first, size,               \* GW.rxpkts_list
  heap,                      \* where the memory of a batch is
  next, stamps, bind,        \* fields of a batch
  spc, cur, sema, stop_sig,  \* a service: control, pointer, semaphore, stop
  reports, got,              \* reports made, copies of each batch delivered
  rpc, recyclers,            \* thread_rxpkt_recycle: control, threads waiting
  rcur, rprev, rnext,        \* __list_current, __list_prev, __list_next
  exit_sig, undefined

upvars == <<upc, batch, topost>>
lvars  == <<first, size, heap, next>>
bvars  == <<stamps, bind>>
svars  == <<spc, cur, got>>
wvars  == <<sema, stop_sig, reports>>
rvars  == <<rpc, recyclers, rcur, rprev, rnext>>
vars   == <<upvars, lvars, bvars, svars, wvars, rvars, exit_sig, undefined>>

Batch == 1 .. MaxBatch
NULL  == 0
Ptr   == Batch \cup {NULL}

TypeOK ==
  /\ upc \in {"fetch", "insert", "post", "check"}
  /\ batch \in Ptr
  /\ topost \in SUBSET Services
  /\ first \in Ptr
  /\ size \in Int
  /\ heap \in [Batch -> {"unused", "private", "linked", "freed"}]
  /\ next \in [Batch -> Ptr]
  /\ stamps \in [Batch -> SUBSET Services]
  /\ bind \in [Batch -> 0 .. Cardinality(Services)]
  /\ spc \in [Services -> {"wait", "walk", "take", "handle", "gone"}]
  /\ cur \in [Services -> Ptr]
  /\ sema \in [Services -> Nat]
  /\ stop_sig \in [Services -> BOOLEAN]
  /\ reports \in [Services -> 0 .. MaxReports]
  /\ got \in [Services -> [Batch -> Nat]]
  /\ rpc \in {"idle", "visit", "relink", "free"}
  /\ recyclers \in Nat
  /\ rcur \in Ptr /\ rprev \in Ptr /\ rnext \in Ptr
  /\ exit_sig \in BOOLEAN
  /\ undefined \in BOOLEAN

Init ==
  /\ upc = "fetch" /\ batch = 0 /\ topost = {}
  /\ first = NULL /\ size = 0
  /\ heap = [b \in Batch |-> "unused"]
  /\ next = [b \in Batch |-> NULL]
  /\ stamps = [b \in Batch |-> {}]
  /\ bind = [b \in Batch |-> 0]
  /\ spc = [s \in Services |-> "wait"]
  /\ cur = [s \in Services |-> NULL]
  /\ sema = [s \in Services |-> 0]
  /\ stop_sig = [s \in Services |-> FALSE]
  /\ reports = [s \in Services |-> 0]
  /\ got = [s \in Services |-> [b \in Batch |-> 0]]
  /\ rpc = "idle" /\ recyclers = 0
  /\ rcur = NULL /\ rprev = NULL /\ rnext = NULL
  /\ exit_sig = FALSE
  /\ undefined = FALSE

\* Nothing is said of an execution once it is undefined.
Running == ~undefined /\ UNCHANGED undefined

\* rxpkts_list.lock is held across steps only by thread_rxpkt_recycle.
ListLockFree == rpc = "idle"

-----------------------------------------------------------------------------
(* thread_up. *)

FirstBind_Short == Cardinality(Services) - 1  \* mutant: one service forgotten

FirstBind == Cardinality(Services)

\* lgw_receive and ghost_get return packets; the new entry is still private.
Fetch ==
  /\ Running
  /\ upc = "fetch"
  /\ ~exit_sig
  /\ batch < MaxBatch
  /\ batch' = batch + 1
  /\ heap' = [heap EXCEPT ![batch'] = "private"]
  /\ stamps' = [stamps EXCEPT ![batch'] = {}]
  /\ bind' = [bind EXCEPT ![batch'] = FirstBind]
  /\ upc' = "insert"
  /\ UNCHANGED <<topost, first, size, next, svars, wvars, rvars, exit_sig>>

\* LGW_LIST_INSERT_HEAD under the lock of the list.
InsertHead ==
  /\ Running
  /\ upc = "insert"
  /\ ListLockFree
  /\ next' = [next EXCEPT ![batch] = first]
  /\ first' = batch
  /\ size' = size + 1
  /\ heap' = [heap EXCEPT ![batch] = "linked"]
  /\ topost' = Services
  /\ upc' = "post"
  /\ UNCHANGED <<batch, bvars, svars, wvars, rvars, exit_sig>>

Posted_Binary(n) == 1  \* mutant: a flag instead of a counting semaphore

Posted(n) == n + 1

Post(s) ==
  /\ Running
  /\ upc = "post"
  /\ s \in topost
  /\ sema' = [sema EXCEPT ![s] = Posted(sema[s])]
  /\ topost' = topost \ {s}
  /\ upc' = IF topost' = {} THEN "check" ELSE "post"
  /\ UNCHANGED <<batch, lvars, bvars, svars, stop_sig, reports, rvars, exit_sig>>

\* A recycling thread is started when the list is too long; its size is read
\* without the lock.
CheckSize ==
  /\ Running
  /\ upc = "check"
  /\ recyclers' = IF size > DEFAULT_RXPKTS_LIST_SIZE THEN recyclers + 1
                                                     ELSE recyclers
  /\ upc' = "fetch"
  /\ UNCHANGED <<batch, topost, lvars, bvars, svars, wvars,
                 rpc, rcur, rprev, rnext, exit_sig>>

-----------------------------------------------------------------------------
(* A service: one iteration of its upstream loop. *)

Wake(s) ==
  /\ Running
  /\ spc[s] = "wait"
  /\ sema[s] > 0
  /\ sema' = [sema EXCEPT ![s] = @ - 1]
  /\ cur' = [cur EXCEPT ![s] = first]
  /\ spc' = [spc EXCEPT ![s] = "walk"]
  /\ UNCHANGED <<upvars, lvars, bvars, got, stop_sig, reports, rvars, exit_sig>>

\* get_rxpkt: the end of the list, nothing to take.
WalkEnd(s) ==
  /\ Running
  /\ spc[s] = "walk"
  /\ cur[s] = NULL
  /\ spc' = [spc EXCEPT ![s] = "handle"]
  /\ UNCHANGED <<upvars, lvars, bvars, cur, got, wvars, rvars, exit_sig>>

Live(s) == cur[s] # NULL /\ heap[cur[s]] # "freed"

\* get_rxpkt: already stamped, go on.
WalkOn(s) ==
  /\ Running
  /\ spc[s] = "walk"
  /\ Live(s)
  /\ s \in stamps[cur[s]]
  /\ cur' = [cur EXCEPT ![s] = next[cur[s]]]
  /\ UNCHANGED <<upvars, lvars, bvars, spc, got, wvars, rvars, exit_sig>>

\* get_rxpkt: not stamped; the packets are copied.
WalkFound(s) ==
  /\ Running
  /\ spc[s] = "walk"
  /\ Live(s)
  /\ s \notin stamps[cur[s]]
  /\ spc' = [spc EXCEPT ![s] = "take"]
  /\ UNCHANGED <<upvars, lvars, bvars, cur, got, wvars, rvars, exit_sig>>

Stamped_Forgotten(old, s) == old  \* mutant: the batch is not stamped

Stamped(old, s) == old \cup {s}

\* get_rxpkt: stamp and count down, under mx_bind_lock.
Take(s) ==
  /\ Running
  /\ spc[s] = "take"
  /\ Live(s)
  /\ stamps' = [stamps EXCEPT ![cur[s]] = Stamped(@, s)]
  /\ bind' = [bind EXCEPT ![cur[s]] = (@ - 1) % 256]
  /\ got' = [got EXCEPT ![s][cur[s]] = @ + 1]
  /\ cur' = [cur EXCEPT ![s] = NULL]
  /\ spc' = [spc EXCEPT ![s] = "handle"]
  /\ UNCHANGED <<upvars, lvars, wvars, rvars, exit_sig>>

\* get_rxpkt reads or writes memory that was freed.
Stale(s) ==
  /\ ~undefined
  /\ spc[s] \in {"walk", "take"}
  /\ cur[s] # NULL
  /\ heap[cur[s]] = "freed"
  /\ undefined' = TRUE
  /\ UNCHANGED <<upvars, lvars, bvars, svars, wvars, rvars, exit_sig>>

\* The service sends what it took and comes back to the top of its loop.
Handle(s) ==
  /\ Running
  /\ spc[s] = "handle"
  /\ spc' = [spc EXCEPT ![s] = IF stop_sig[s] THEN "gone" ELSE "wait"]
  /\ UNCHANGED <<upvars, lvars, bvars, cur, got, wvars, rvars, exit_sig>>

\* report_start, from the main loop, posts the same semaphore.
Report(s) ==
  /\ Running
  /\ s \in Reporters
  /\ reports[s] < MaxReports
  /\ ~exit_sig
  /\ reports' = [reports EXCEPT ![s] = @ + 1]
  /\ sema' = [sema EXCEPT ![s] = @ + 1]
  /\ UNCHANGED <<upvars, lvars, bvars, svars, stop_sig, rvars, exit_sig>>

\* semtech_pull_down: too many PULL_DATA without acknowledgement.
AutoQuit(s) ==
  /\ Running
  /\ s \in Quitters
  /\ ~stop_sig[s]
  /\ stop_sig' = [stop_sig EXCEPT ![s] = TRUE]
  /\ UNCHANGED <<upvars, lvars, bvars, svars, sema, reports, rvars, exit_sig>>

-----------------------------------------------------------------------------
(* thread_rxpkt_recycle, with the lock of the list held. *)

NextOf(p) == IF p = NULL THEN NULL ELSE next[p]

RecycleBegin ==
  /\ Running
  /\ rpc = "idle"
  /\ recyclers > 0
  /\ recyclers' = recyclers - 1
  /\ rpc' = "visit"
  /\ rprev' = NULL
  /\ rcur' = first
  /\ rnext' = NextOf(first)
  /\ UNCHANGED <<upvars, lvars, bvars, svars, wvars, exit_sig>>

Recyclable_OneLeft(b) == bind[b] <= 1 \/ exit_sig  \* mutant: <= for <

Recyclable(b) == bind[b] < 1 \/ exit_sig

RecycleKeep ==
  /\ Running
  /\ rpc = "visit"
  /\ rcur # NULL
  /\ ~Recyclable(rcur)
  /\ rprev' = rcur
  /\ rcur' = rnext
  /\ rnext' = NextOf(rnext)
  /\ UNCHANGED <<upvars, lvars, bvars, svars, wvars, rpc, recyclers, exit_sig>>

\* LGW_LIST_REMOVE_CURRENT first cuts the entry from the rest of the list.
RecycleUnlink ==
  /\ Running
  /\ rpc = "visit"
  /\ rcur # NULL
  /\ Recyclable(rcur)
  /\ next' = [next EXCEPT ![rcur] = NULL]
  /\ rpc' = "relink"
  /\ UNCHANGED <<upvars, first, size, heap, bvars, svars, wvars,
                 recyclers, rcur, rprev, rnext, exit_sig>>

Relinked_NoHead == UNCHANGED first  \* mutant: the head is not moved

Relinked == first' = rnext

\* Then it joins the previous entry, or the head, to the next one.
RecycleRelink ==
  /\ Running
  /\ rpc = "relink"
  /\ \/ /\ rprev # NULL
        /\ next' = [next EXCEPT ![rprev] = rnext]
        /\ UNCHANGED first
     \/ /\ rprev = NULL
        /\ Relinked
        /\ UNCHANGED next
  /\ rpc' = "free"
  /\ UNCHANGED <<upvars, size, heap, bvars, svars, wvars,
                 recyclers, rcur, rprev, rnext, exit_sig>>

RecycleFree ==
  /\ Running
  /\ rpc = "free"
  /\ heap' = [heap EXCEPT ![rcur] = "freed"]
  /\ size' = size - 1
  /\ rcur' = rnext
  /\ rnext' = NextOf(rnext)
  /\ rpc' = "visit"
  /\ UNCHANGED <<upvars, first, next, bvars, svars, wvars, recyclers, rprev,
                 exit_sig>>

RecycleEnd ==
  /\ Running
  /\ rpc = "visit"
  /\ rcur = NULL
  /\ rpc' = "idle"
  /\ rprev' = NULL
  /\ UNCHANGED <<upvars, lvars, bvars, svars, wvars, recyclers, rcur, rnext,
                 exit_sig>>

-----------------------------------------------------------------------------
\* The signal handler: thread_up stops and recycling frees everything.
Exit ==
  /\ Running
  /\ ~exit_sig
  /\ exit_sig' = TRUE
  /\ UNCHANGED <<upvars, lvars, bvars, svars, wvars, rvars>>

Up == Fetch \/ InsertHead \/ CheckSize \/ \E s \in Services : Post(s)

Recycle == \/ RecycleBegin \/ RecycleKeep \/ RecycleUnlink \/ RecycleRelink
           \/ RecycleFree \/ RecycleEnd

Serve(s) == Wake(s) \/ WalkEnd(s) \/ WalkOn(s) \/ WalkFound(s) \/ Take(s)
            \/ Stale(s) \/ Handle(s)

Next == \/ Up \/ Recycle \/ Exit
        \/ \E s \in Services : Serve(s) \/ Report(s) \/ AutoQuit(s)

Spec == Init /\ [][Next]_vars

\* Every thread runs; packets, reports, give-ups and the signal come or not.
Fairness ==
  /\ WF_vars(InsertHead \/ CheckSize \/ \E s \in Services : Post(s))
  /\ WF_vars(Recycle)
  /\ \A s \in Services : WF_vars(Serve(s))

FairSpec == Spec /\ Fairness

-----------------------------------------------------------------------------
(* Properties. *)

Linked    == {b \in Batch : heap[b] = "linked"}
Discarded == {b \in Batch : heap[b] = "freed"}

\* The newest of a set of batches, or the null pointer.
Newest(bs) == IF bs = {} THEN NULL ELSE CHOOSE b \in bs : \A c \in bs : c <= b

\* Whenever no recycling is under way, the list holds exactly the batches that
\* were inserted and not freed, newest first, and its size counts them: no
\* removal leaves a batch behind or cuts off a tail, although insertions and
\* removals at the head alternate.
ListIntact ==
  ListLockFree =>
    /\ size = Cardinality(Linked)
    /\ first = Newest(Linked)
    /\ \A b \in Linked : next[b] = Newest({c \in Linked : c < b})

\* thread_rxpkt_recycle never frees a batch some service has not taken yet,
\* unless the program is exiting.
TakenBeforeFreed ==
  ~exit_sig => \A b \in Discarded, s \in Services : got[s][b] = 1

\* gwcfg.h: bind is how many connections are left for the batch, that is, how
\* many services with a running upstream thread are still to take it.
BindIsRemaining ==
  \A b \in Linked :
    bind[b] = Cardinality({s \in Services : s \notin stamps[b] /\ spc[s] # "gone"})

\* A batch once in the list reaches every service: as many wake-ups as batches
\* are posted, so the last one a service takes leaves nothing behind.
Delivered ==
  \A s \in Services, b \in Batch :
    (heap[b] = "linked") ~> (got[s][b] = 1 \/ stop_sig[s] \/ exit_sig \/ undefined)

Fan == INSTANCE Fanout WITH published <- Linked \cup Discarded,
                            received <- got,
                            discarded <- Discarded,
                            closing <- exit_sig

\* The walk without the lock, the stamps and the recycling implement the
\* abstract dispatch: each service gets each batch at most once and nothing is
\* discarded before everyone had it.
Implements == Fan!FSpec
=============================================================================
