--------------------------- MODULE DbSyncProofs ---------------------------
(***************************************************************************)
(* Theorems about DbSync.  A change can be outside the file only while a   *)
(* transaction is open, and the synchronisation thread ends without one;   *)
(* the handler closes the connection after that end.                       *)
(***************************************************************************)
EXTENDS DbSync, TLAPS

\* What is not in the file is in an open transaction, and dosync asks for its
\* commit.
Asked == view # disk => txn /\ dosync

\* A transaction is open from the thread's beginning to its end.
Open == txn <=> sync \in {"loop", "sleep"}

\* The connection is closed after the thread's end.
Ended == main \in {"close", "exit"} => sync = "done"

DbInv == TypeOK /\ Asked /\ Open /\ Ended

-----------------------------------------------------------------------------
(* The rows of the tables after a change. *)

LEMMA Rows ==
  ASSUME NEW s \in Store
  PROVE  /\ \A k \in Key, v \in Value : [s EXCEPT !.gwdb[k] = v] \in Store
         /\ \A ks \in SUBSET Key :
              [s EXCEPT !.gwdb = [k \in Key |-> IF k \in ks THEN NONE ELSE @[k]]] \in Store
         /\ [s EXCEPT !.last = @ + 1] \in Store
         /\ Wiped(s) \in Store
<1>1. /\ s.gwdb \in [Key -> Value \cup {NONE}]
      /\ s.last \in Nat
      /\ s = [gwdb |-> s.gwdb, last |-> s.last]
  BY DEF Store
<1>2. \A f \in [Key -> Value \cup {NONE}] : [s EXCEPT !.gwdb = f] \in Store
  BY DEF Store
<1>3. ASSUME NEW k \in Key, NEW v \in Value
      PROVE  [s EXCEPT !.gwdb[k] = v] \in Store
  <2>1. [s.gwdb EXCEPT ![k] = v] \in [Key -> Value \cup {NONE}]
    BY <1>1
  <2>2. [s EXCEPT !.gwdb[k] = v] = [s EXCEPT !.gwdb = [s.gwdb EXCEPT ![k] = v]]
    OBVIOUS
  <2> QED BY <1>2, <2>1, <2>2
<1>4. ASSUME NEW ks \in SUBSET Key
      PROVE  [s EXCEPT !.gwdb = [k \in Key |-> IF k \in ks THEN NONE ELSE @[k]]] \in Store
  <2>1. [k \in Key |-> IF k \in ks THEN NONE ELSE s.gwdb[k]] \in [Key -> Value \cup {NONE}]
    BY <1>1
  <2> QED BY <1>2, <2>1
<1>5. [s EXCEPT !.last = @ + 1] \in Store
  BY <1>1 DEF Store
<1>6. Wiped(s) \in Store
  BY <1>2 DEF Wiped
<1> QED BY <1>3, <1>4, <1>5, <1>6

LEMMA EmptyStore == Empty \in Store
  BY DEF Empty, Store

\* A write by any thread, whichever statement it executes.
LEMMA Writing ==
  ASSUME \/ \E k \in Key, v \in Value : Put(k, v)
         \/ \E ks \in SUBSET Key : Del(ks)
         \/ PutPkt
         \/ Refused,
         TypeOK
  PROVE  \E s \in Store : Written(s) /\ s \in Promised!Changes(view) \cup {view}
<1>1. view \in Store
  BY DEF TypeOK
<1>2. ASSUME NEW k \in Key, NEW v \in Value, Put(k, v)
      PROVE  \E s \in Store : Written(s) /\ s \in Promised!Changes(view) \cup {view}
  <2> DEFINE s == [view EXCEPT !.gwdb[k] = v]
  <2>1. s \in Store
    BY <1>1, Rows
  <2>2. Written(s)
    BY <1>2 DEF Put
  <2>3. s \in Promised!Changes(view)
    <3>1. s \in Promised!Puts(view)
      BY DEF Promised!Puts
    <3> QED BY <3>1 DEF Promised!Changes
  <2> QED BY <2>1, <2>2, <2>3
<1>3. ASSUME NEW ks \in SUBSET Key, Del(ks)
      PROVE  \E s \in Store : Written(s) /\ s \in Promised!Changes(view) \cup {view}
  <2> DEFINE s == [view EXCEPT !.gwdb = [k \in Key |-> IF k \in ks THEN NONE ELSE @[k]]]
  <2>1. s \in Store
    BY <1>1, Rows
  <2>2. Written(s)
    BY <1>3 DEF Del
  <2>3. s \in Promised!Changes(view)
    <3>1. s \in Promised!Dels(view)
      BY DEF Promised!Dels
    <3> QED BY <3>1 DEF Promised!Changes
  <2> QED BY <2>1, <2>2, <2>3
<1>4. ASSUME PutPkt
      PROVE  \E s \in Store : Written(s) /\ s \in Promised!Changes(view) \cup {view}
  <2> DEFINE s == [view EXCEPT !.last = @ + 1]
  <2>1. s \in Store
    BY <1>1, Rows
  <2>2. Written(s)
    BY <1>4 DEF PutPkt
  <2>3. s \in Promised!Changes(view)
    <3>1. s \in Promised!Pkts(view)
      BY DEF Promised!Pkts
    <3> QED BY <3>1 DEF Promised!Changes
  <2> QED BY <2>1, <2>2, <2>3
<1>5. ASSUME Refused
      PROVE  \E s \in Store : Written(s) /\ s \in Promised!Changes(view) \cup {view}
  BY <1>1, <1>5 DEF Refused
<1> QED BY <1>2, <1>3, <1>4, <1>5

-----------------------------------------------------------------------------
(* The invariant. *)

LEMMA DbInit == Init => DbInv
<1>1. Init => BoundTypes
  BY DbAssumption DEF Init, BoundTypes
<1>2. Init => ThreadTypes /\ Asked /\ Open /\ Ended
  BY DEF Init, ThreadTypes, Asked, Open, Ended
<1>3. Init => view \in Store /\ disk \in Store
  BY EmptyStore DEF Init
<1> QED BY <1>1, <1>2, <1>3 DEF DbInv, TypeOK

LEMMA DbStep == DbInv /\ [Next]_vars => DbInv'
<1> SUFFICES ASSUME DbInv, [Next]_vars PROVE DbInv'
  OBVIOUS
<1> USE DEF DbInv, TypeOK
<1>1. CASE UNCHANGED vars
  BY <1>1 DEF vars, sqlite, bounds, ThreadTypes, BoundTypes, Asked, Open, Ended
<1>2. ASSUME NEW s \in Store, Written(s) PROVE DbInv'
  <2>1. BoundTypes'
    BY <1>2, DbAssumption DEF Written, BoundTypes
  <2>2. (ThreadTypes /\ Asked /\ Open /\ Ended)'
    BY <1>2 DEF Written, Signalled, ThreadTypes, Asked, Open, Ended
  <2>3. view' \in Store /\ disk' \in Store
    BY <1>2 DEF Written
  <2> QED BY <2>1, <2>2, <2>3
<1>3. CASE Begin
  BY <1>3 DEF Begin, bounds, ThreadTypes, BoundTypes, Asked, Open, Ended
<1>4. CASE Commit
  <2>1. BoundTypes'
    BY <1>4, DbAssumption DEF Commit, BoundTypes
  <2>2. AfterCommit \in {"done", "sleep"}
    BY DEF AfterCommit
  <2>3. (ThreadTypes /\ Asked /\ Open /\ Ended)'
    BY <1>4, <2>2 DEF Commit, ThreadTypes, Asked, Open, Ended
  <2>4. view' \in Store /\ disk' \in Store
    BY <1>4 DEF Commit
  <2> QED BY <2>1, <2>3, <2>4
<1>5. CASE Awake
  BY <1>5 DEF Awake, sqlite, bounds, ThreadTypes, BoundTypes, Asked, Open, Ended
<1>6. CASE Atexit
  BY <1>6 DEF Atexit, Signalled, sqlite, bounds, ThreadTypes, BoundTypes, Asked, Open, Ended
<1>7. CASE Join
  BY <1>7 DEF Join, Joined, sqlite, bounds, ThreadTypes, BoundTypes, Asked, Open, Ended
<1>8. CASE Close
  BY <1>8 DEF Close, bounds, ThreadTypes, BoundTypes, Asked, Open, Ended
<1>9. CASE Restart
  <2>1. view' \in Store /\ disk' \in Store
    BY <1>9, Rows DEF Restart
  <2>2. BoundTypes'
    BY <1>9, DbAssumption DEF Restart, BoundTypes
  <2>3. (ThreadTypes /\ Asked /\ Open /\ Ended)'
    BY <1>9 DEF Restart, ThreadTypes, Asked, Open, Ended
  <2> QED BY <2>1, <2>2, <2>3
<1> QED
  <2>1. CASE Next
    <3> HIDE DEF DbInv, TypeOK
    <3>1. CASE \/ \E k \in Key, v \in Value : Put(k, v)
               \/ \E ks \in SUBSET Key : Del(ks)
               \/ PutPkt
               \/ Refused
      <4>1. PICK s \in Store : Written(s)
        BY <3>1, Writing DEF DbInv
      <4> QED BY <1>2, <4>1
    <3> QED BY <1>3, <1>4, <1>5, <1>6, <1>7, <1>8, <1>9, <2>1, <3>1 DEF Next, SyncThread
  <2> QED BY <1>1, <2>1

LEMMA DbInvariant == Spec => []DbInv
<1> QED BY DbInit, DbStep, PTL DEF Spec

\* The database, its thread and the handler keep their types (db.c).
THEOREM DbTypes == Spec => []TypeOK
<1>1. DbInv => TypeOK
  BY DEF DbInv
<1> QED BY <1>1, DbInvariant, PTL

-----------------------------------------------------------------------------
\* gwdb_atexit closes the connection with nothing left in a transaction, for
\* any keys, values and number of writes, failures and crashes.
THEOREM ClosesWithoutLoss == Spec => ClosesWhole
<1>1. DbInv /\ [Next]_vars => [main' = "exit" => view' = view /\ disk' = view]_vars
  <2> SUFFICES ASSUME DbInv, Next, main' = "exit"
               PROVE  view' = view /\ disk' = view
    BY DEF vars
  <2>1. main # "exit" => Close
    BY DEF Next, SyncThread, Put, Del, PutPkt, Refused, Written, Begin, Commit, Awake, Atexit, Join, Close, Restart
  <2>2. CASE Close
    BY <2>2 DEF Close, DbInv, Asked, Open, Ended, bounds
  <2>3. CASE main = "exit"
    BY <2>3 DEF DbInv, TypeOK, ThreadTypes, Asked, Open, Ended, Next, SyncThread, Put, Del, PutPkt, Refused,
                Written, Begin, Commit, Awake, Atexit, Join, Close, Restart, sqlite
  <2> QED BY <2>1, <2>2, <2>3
<1> QED BY <1>1, DbInvariant, PTL DEF Spec, ClosesWhole

-----------------------------------------------------------------------------
(* The refinement. *)

LEMMA PromisedInit == Init => Promised!Init
  BY DEF Init, Empty, Promised!Init

LEMMA PromisedStep == DbInv /\ [Next]_vars => [Promised!Next]_<<view, disk>>
<1> SUFFICES ASSUME DbInv, Next, ~ UNCHANGED <<view, disk>>
             PROVE  Promised!Next
  BY DEF vars, sqlite
<1> USE DEF Promised!Next
<1>1. ASSUME NEW s \in Store, Written(s), s \in Promised!Changes(view) \cup {view}
      PROVE  Promised!Write
  BY <1>1 DEF Written, Promised!Write, DbInv, Asked
<1>2. CASE Begin
  BY <1>2 DEF Begin, bounds
<1>3. CASE Commit
  BY <1>3 DEF Commit, Promised!Sync, Promised!Undo
<1>4. CASE Awake
  BY <1>4 DEF Awake, sqlite
<1>5. CASE Atexit
  BY <1>5 DEF Atexit, sqlite
<1>6. CASE Join
  BY <1>6 DEF Join, sqlite
<1>7. CASE Close
  BY <1>7 DEF Close, Promised!Undo
<1>8. CASE Restart
  BY <1>8 DEF Restart, Promised!Restart, Wiped, Promised!Wiped
<1> QED
  <2>1. CASE \/ \E k \in Key, v \in Value : Put(k, v)
             \/ \E ks \in SUBSET Key : Del(ks)
             \/ PutPkt
             \/ Refused
    <3>1. PICK s \in Store : Written(s) /\ s \in Promised!Changes(view) \cup {view}
      BY <2>1, Writing DEF DbInv
    <3> QED BY <1>1, <3>1
  <2> QED BY <1>2, <1>3, <1>4, <1>5, <1>6, <1>7, <1>8, <2>1 DEF Next, SyncThread

\* What other programs read is a past state of the view, and the view changes by
\* whole changes only: db.c implements the safety of PacketStore.
THEOREM ImplementsStore == Spec => Promised!Safe
<1> QED BY PromisedInit, DbInvariant, PromisedStep, PTL DEF Spec, Promised!Safe
=============================================================================
