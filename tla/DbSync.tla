------------------------------- MODULE DbSync -------------------------------
(***************************************************************************)
(* The database of the packet forwarder (fwd/src/db.c): one connection to  *)
(* SQLite, whose statements any thread executes under mx_dblock, a thread  *)
(* that groups the changes in transactions and commits them at most once a *)
(* second, and the exit handler that stops it and closes the connection.   *)
(* The process may crash at any time and start again.                      *)
(*                                                                         *)
(* A change is a row of gwdb or, with its triggers, of livepkts; what the  *)
(* connection sees is view, what another one sees is disk.  A statement    *)
(* outside a transaction commits itself.  COMMIT may fail, when another    *)
(* program reads the file.                                                 *)
(***************************************************************************)
EXTENDS Integers

CONSTANTS
  Key, Value, NONE,
  MaxWrites, MaxFails, MaxCrashes   \* bounds of the model

ASSUME DbAssumption ==
  /\ NONE \notin Value
  /\ MaxWrites \in Nat /\ MaxFails \in Nat /\ MaxCrashes \in Nat

VARIABLES
  sync,             \* db_sync_thread: control
  main,             \* the main thread, from gwdb_atexit on
  dosync, doexit,
  view, disk, txn,  \* SQLite: what is seen here and elsewhere, open transaction
  writes, fails, crashes

sqlite == <<view, disk, txn>>
bounds == <<writes, fails, crashes>>
vars   == <<sync, main, dosync, doexit, sqlite, bounds>>

Store == [gwdb : [Key -> Value \cup {NONE}], last : Nat]
Empty == [gwdb |-> [k \in Key |-> NONE], last |-> 0]

ThreadTypes ==
  /\ sync \in {"start", "loop", "sleep", "done"}
  /\ main \in {"run", "join", "close", "exit"}
  /\ dosync \in BOOLEAN /\ doexit \in BOOLEAN /\ txn \in BOOLEAN

BoundTypes ==
  /\ writes \in 0 .. MaxWrites
  /\ fails \in 0 .. MaxFails
  /\ crashes \in 0 .. MaxCrashes

TypeOK == ThreadTypes /\ BoundTypes /\ view \in Store /\ disk \in Store

\* lgw_db_init has just ended.
Init ==
  /\ sync = "start" /\ main = "run"
  /\ dosync = FALSE /\ doexit = FALSE
  /\ view = Empty /\ disk = Empty /\ txn = FALSE
  /\ writes = 0 /\ fails = 0 /\ crashes = 0

-----------------------------------------------------------------------------
(* Any thread. *)

Signalled_Only == dosync  \* mutant: the condition without the flag

\* db_sync
Signalled == TRUE

Written(s) ==
  /\ main # "exit"
  /\ writes < MaxWrites
  /\ writes' = writes + 1
  /\ view' = s
  /\ disk' = IF txn THEN disk ELSE s
  /\ dosync' = Signalled
  /\ UNCHANGED <<sync, main, doexit, txn, fails, crashes>>

\* lgw_db_put, lgw_db_del (one key) and lgw_db_deltree (those under a prefix),
\* and lgw_db_putpkt, each under mx_dblock; one that fails asks for a commit too.
Put(k, v) == Written([view EXCEPT !.gwdb[k] = v])
Del(ks)   == Written([view EXCEPT !.gwdb = [k \in Key |-> IF k \in ks THEN NONE ELSE @[k]]])
PutPkt    == Written([view EXCEPT !.last = @ + 1])
Refused   == Written(view)

-----------------------------------------------------------------------------
(* db_sync_thread *)

\* mx_dblock is taken and BEGIN executed.
Begin ==
  /\ sync = "start"
  /\ txn' = TRUE
  /\ sync' = "loop"
  /\ UNCHANGED <<main, dosync, doexit, view, disk, bounds>>

AfterCommit_Again == "sleep"  \* mutant: doexit is not looked at

\* doexit ends the thread; otherwise it begins again and sleeps.
AfterCommit == IF doexit THEN "done" ELSE "sleep"

\* dosync is set: COMMIT, or ROLLBACK when that fails.
Commit ==
  /\ sync = "loop"
  /\ dosync
  /\ dosync' = FALSE
  /\ \/ /\ disk' = view
        /\ UNCHANGED <<view, fails>>
     \/ /\ fails < MaxFails
        /\ fails' = fails + 1
        /\ view' = disk
        /\ UNCHANGED disk
  /\ sync' = AfterCommit
  /\ txn' = (AfterCommit # "done")
  /\ UNCHANGED <<main, doexit, writes, crashes>>

\* sleep(1), then mx_dblock is taken again.
Awake ==
  /\ sync = "sleep"
  /\ sync' = "loop"
  /\ UNCHANGED <<main, dosync, doexit, sqlite, bounds>>

SyncThread == Begin \/ Commit \/ Awake

-----------------------------------------------------------------------------
(* gwdb_atexit *)

Atexit ==
  /\ main = "run"
  /\ doexit' = TRUE
  /\ dosync' = Signalled
  /\ main' = "join"
  /\ UNCHANGED <<sync, sqlite, bounds>>

Joined_Early == TRUE  \* mutant: the thread is not waited for

\* pthread_join
Joined == sync = "done"

Join ==
  /\ main = "join"
  /\ Joined
  /\ main' = "close"
  /\ UNCHANGED <<sync, dosync, doexit, sqlite, bounds>>

\* sqlite3_close rolls an open transaction back.
Close ==
  /\ main = "close"
  /\ view' = IF txn THEN disk ELSE view
  /\ txn' = FALSE
  /\ main' = "exit"
  /\ UNCHANGED <<sync, dosync, doexit, disk, bounds>>

-----------------------------------------------------------------------------
\* gwdb is emptied when the program starts, livepkts is not.
Wiped(s) == [s EXCEPT !.gwdb = [k \in Key |-> NONE]]

\* The process is killed, or has ended; it starts again with lgw_db_init.
Restart ==
  /\ crashes < MaxCrashes
  /\ crashes' = crashes + 1
  /\ view' = Wiped(disk) /\ disk' = Wiped(disk) /\ txn' = FALSE
  /\ sync' = "start" /\ main' = "run"
  /\ dosync' = FALSE /\ doexit' = FALSE
  /\ UNCHANGED <<writes, fails>>

Next == \/ \E k \in Key, v \in Value : Put(k, v)
        \/ \E ks \in SUBSET Key : Del(ks)
        \/ PutPkt \/ Refused
        \/ SyncThread \/ Atexit \/ Join \/ Close \/ Restart

Spec == Init /\ [][Next]_vars

\* The synchronisation thread and the exiting one run.
FairSpec == Spec /\ WF_vars(SyncThread) /\ WF_vars(Join) /\ WF_vars(Close)

-----------------------------------------------------------------------------
(* Properties. *)

\* Closing the connection loses nothing: whatever the threads that still write
\* and wherever the synchronisation thread is when the handler runs, no change
\* is left in a transaction, and the file has all of them.
ClosesWhole == [][main' = "exit" => view' = view /\ disk' = view]_vars

Promised == INSTANCE PacketStore WITH view <- view, disk <- disk

\* What the database promises: other programs see past states of the view, and
\* every change reaches the file or is undone by a failed commit or a crash.
Implements == Promised!Spec

\* The exit handler ends, although the thread may sleep, wait or be about to.
Exits == main = "join" ~> (main = "exit" \/ main = "run")
=============================================================================
