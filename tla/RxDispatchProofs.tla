-------------------------- MODULE RxDispatchProofs --------------------------
(***************************************************************************)
(* What holds of the uplink dispatch for every set of services (at most    *)
(* eight) and any number of batches: although the services walk the list   *)
(* without its lock, a batch is delivered to each of them at most once and *)
(* is not freed before all of them had it.  The argument is the accounting *)
(* of a batch: bind and the number of stamps always add up to the number   *)
(* of services, whatever happens to the list around it.                    *)
(***************************************************************************)
EXTENDS RxDispatch, FiniteSetTheorems, TLAPS

\* A pointer never reaches memory that was not inserted yet.
Known(p) == p = NULL \/ heap[p] \in {"linked", "freed"}

PtrInv ==
  /\ Known(first) /\ Known(rcur) /\ Known(rnext)
  /\ \A s \in Services : Known(cur[s])
  /\ \A b \in Batch : Known(next[b])

UpInv ==
  /\ \A b \in Batch : b > batch => heap[b] = "unused"
  /\ upc = "insert" => batch \in Batch /\ heap[batch] = "private"

\* The accounting of a batch.
MarkInv ==
  /\ \A b \in Batch :
       \/ heap[b] = "unused" /\ stamps[b] = {}
       \/ /\ heap[b] # "unused"
          /\ bind[b] + Cardinality(stamps[b]) = Cardinality(Services)
  /\ \A s \in Services, b \in Batch : got[s][b] = IF s \in stamps[b] THEN 1 ELSE 0
  /\ \A s \in Services : spc[s] = "take" => cur[s] # NULL /\ s \notin stamps[cur[s]]

FreeInv ==
  /\ rpc \in {"relink", "free"} =>
       /\ rcur # NULL
       /\ exit_sig \/ stamps[rcur] = Services
  /\ \A b \in Batch : heap[b] = "freed" /\ ~exit_sig => stamps[b] = Services

Inv == TypeOK /\ PtrInv /\ UpInv /\ MarkInv /\ FreeInv

USE DEF NULL, Ptr

-----------------------------------------------------------------------------
(* Counting the stamps. *)

LEMMA StampCount ==
  ASSUME NEW T \in SUBSET Services
  PROVE  /\ IsFiniteSet(T)
         /\ Cardinality(T) \in Nat
         /\ Cardinality(T) <= Cardinality(Services)
         /\ Cardinality(T) = Cardinality(Services) => T = Services
<1>1. IsFiniteSet(Services)
  BY RxAssumption
<1>2. IsFiniteSet(T) /\ Cardinality(T) <= Cardinality(Services)
  BY <1>1, FS_Subset
<1>3. Cardinality(T) = Cardinality(Services) => T = Services
  BY <1>1, FS_Subset
<1> QED
  BY <1>2, <1>3, FS_CardinalityType

LEMMA OneMoreStamp ==
  ASSUME NEW T \in SUBSET Services, NEW s \in Services, s \notin T
  PROVE  /\ Cardinality(T \cup {s}) = Cardinality(T) + 1
         /\ Cardinality(T) < Cardinality(Services)
<1>1. IsFiniteSet(T) /\ Cardinality(T) \in Nat
  BY StampCount
<1>2. Cardinality(T \cup {s}) = Cardinality(T) + 1
  BY <1>1, FS_AddElement
<1>3. T \cup {s} \in SUBSET Services
  OBVIOUS
<1>4. Cardinality(T \cup {s}) <= Cardinality(Services)
  BY <1>3, StampCount
<1>5. Cardinality(Services) \in Nat
  BY RxAssumption
<1> QED
  BY <1>1, <1>2, <1>4, <1>5

LEMMA CountDown ==
  ASSUME NEW c \in 1 .. 8, NEW n \in 0 .. c, NEW k \in Nat, n + k = c, k < c
  PROVE  (n - 1) % 256 = n - 1 /\ n - 1 \in 0 .. c
OBVIOUS

-----------------------------------------------------------------------------
(* Types. *)

LEMMA RxInitType == Init => TypeOK
<1> SUFFICES ASSUME Init PROVE TypeOK
  OBVIOUS
<1>1. /\ heap \in [Batch -> {"unused", "private", "linked", "freed"}]
      /\ next \in [Batch -> Ptr]
      /\ stamps \in [Batch -> SUBSET Services]
      /\ bind \in [Batch -> 0 .. Cardinality(Services)]
  BY RxAssumption DEF Init
<1>2. /\ spc \in [Services -> {"wait", "walk", "take", "handle", "gone"}]
      /\ cur \in [Services -> Ptr]
      /\ sema \in [Services -> Nat]
      /\ stop_sig \in [Services -> BOOLEAN]
      /\ got \in [Services -> [Batch -> Nat]]
  BY DEF Init
<1>3. reports \in [Services -> 0 .. MaxReports]
  BY RxAssumption DEF Init
<1>4. /\ batch \in Ptr /\ first \in Ptr
      /\ rcur \in Ptr /\ rprev \in Ptr /\ rnext \in Ptr
  BY DEF Init
<1>5. size \in Int /\ recyclers \in Nat /\ topost \in SUBSET Services
  BY DEF Init
<1>6. /\ upc \in {"fetch", "insert", "post", "check"}
      /\ rpc \in {"idle", "visit", "relink", "free"}
      /\ exit_sig \in BOOLEAN /\ undefined \in BOOLEAN
  BY DEF Init
<1> QED
  BY <1>1, <1>2, <1>3, <1>4, <1>5, <1>6 DEF TypeOK

LEMMA TakeBind ==
  ASSUME Inv, NEW s \in Services, Take(s)
  PROVE  (bind[cur[s]] - 1) % 256 \in 0 .. Cardinality(Services)
<1> DEFINE c == cur[s]
<1>1. c \in Batch /\ spc[s] = "take"
  BY DEF Take, Live, Inv, TypeOK
<1>2. heap[c] # "unused"
  <2>1. Known(c) /\ c # NULL
    BY <1>1 DEF Inv, PtrInv, Batch
  <2> QED
    BY <2>1 DEF Known
<1>3. /\ bind[c] + Cardinality(stamps[c]) = Cardinality(Services)
      /\ s \notin stamps[c]
  BY <1>1, <1>2 DEF Inv, MarkInv
<1>4. stamps[c] \in SUBSET Services /\ bind[c] \in 0 .. Cardinality(Services)
  BY <1>1 DEF Inv, TypeOK
<1>5. /\ Cardinality(stamps[c]) < Cardinality(Services)
      /\ Cardinality(stamps[c]) \in Nat
  BY <1>3, <1>4, OneMoreStamp, StampCount
<1>6. Cardinality(Services) \in 1 .. 8
  BY RxAssumption
<1> HIDE DEF c
<1>7. (bind[c] - 1) % 256 = bind[c] - 1 /\ bind[c] - 1 \in 0 .. Cardinality(Services)
  BY <1>3, <1>4, <1>5, <1>6, CountDown
<1> QED
  BY <1>7 DEF c

\* bind stays in range because a service that takes a batch had not stamped it.
LEMMA RxNextType ==
  ASSUME Inv, [Next]_vars
  PROVE  TypeOK'
<1>0. TypeOK
  BY DEF Inv
<1> USE <1>0 DEF TypeOK, upvars, lvars, bvars, svars, wvars, rvars, Running
<1>1. CASE Fetch
  <2>1. batch' \in Batch
    BY <1>1, RxAssumption DEF Fetch, Batch
  <2>2. FirstBind \in 0 .. Cardinality(Services)
    BY RxAssumption DEF FirstBind
  <2> QED
    BY <1>1, <2>1, <2>2 DEF Fetch
<1>2. CASE InsertHead
  <2>1. next' \in [Batch -> Ptr]
    BY <1>2 DEF InsertHead
  <2>2. heap' \in [Batch -> {"unused", "private", "linked", "freed"}]
    BY <1>2 DEF InsertHead
  <2>3. size' \in Int /\ first' \in Ptr /\ topost' \in SUBSET Services /\ upc' = "post"
    BY <1>2 DEF InsertHead
  <2> QED
    BY <1>2, <2>1, <2>2, <2>3 DEF InsertHead
<1>3. CASE CheckSize
  BY <1>3 DEF CheckSize
<1>4. ASSUME NEW s \in Services, Post(s) PROVE TypeOK'
  BY <1>4 DEF Post, Posted
<1>5. CASE RecycleBegin
  BY <1>5 DEF RecycleBegin, NextOf
<1>6. CASE RecycleKeep
  BY <1>6 DEF RecycleKeep, NextOf
<1>7. CASE RecycleUnlink
  <2>1. next' = [next EXCEPT ![rcur] = NULL]
    BY <1>7 DEF RecycleUnlink
  <2>2. next' \in [Batch -> Ptr]
    BY <2>1
  <2> QED
    BY <1>7, <2>2 DEF RecycleUnlink
<1>8. CASE RecycleRelink
  BY <1>8 DEF RecycleRelink, Relinked
<1>9. CASE RecycleFree
  <2>1. size' \in Int
    BY <1>9 DEF RecycleFree
  <2>2. heap' \in [Batch -> {"unused", "private", "linked", "freed"}]
    BY <1>9 DEF RecycleFree
  <2>3. rcur' \in Ptr /\ rnext' \in Ptr /\ rpc' = "visit"
    BY <1>9 DEF RecycleFree, NextOf
  <2> QED
    BY <1>9, <2>1, <2>2, <2>3 DEF RecycleFree
<1>10. CASE RecycleEnd
  BY <1>10 DEF RecycleEnd
<1>11. CASE Exit
  BY <1>11 DEF Exit
<1>12. ASSUME NEW s \in Services, Wake(s) PROVE TypeOK'
  BY <1>12 DEF Wake
<1>13. ASSUME NEW s \in Services, WalkEnd(s) PROVE TypeOK'
  BY <1>13 DEF WalkEnd
<1>14. ASSUME NEW s \in Services, WalkOn(s) PROVE TypeOK'
  BY <1>14 DEF WalkOn, Live
<1>15. ASSUME NEW s \in Services, WalkFound(s) PROVE TypeOK'
  BY <1>15 DEF WalkFound
<1>16. ASSUME NEW s \in Services, Take(s) PROVE TypeOK'
  <2>1. cur[s] \in Batch
    BY <1>16 DEF Take, Live
  <2>2. (bind[cur[s]] - 1) % 256 \in 0 .. Cardinality(Services)
    BY <1>16, TakeBind
  <2>3. bind' \in [Batch -> 0 .. Cardinality(Services)]
    BY <1>16, <2>1, <2>2 DEF Take
  <2>4. stamps' \in [Batch -> SUBSET Services]
    BY <1>16, <2>1 DEF Take, Stamped
  <2>5. got' \in [Services -> [Batch -> Nat]]
    <3>1. got[s][cur[s]] + 1 \in Nat
      BY <2>1
    <3>2. got' = [got EXCEPT ![s][cur[s]] = got[s][cur[s]] + 1]
      BY <1>16 DEF Take
    <3> QED
      BY <2>1, <3>1, <3>2
  <2> QED
    BY <1>16, <2>3, <2>4, <2>5 DEF Take
<1>17. ASSUME NEW s \in Services, Stale(s) PROVE TypeOK'
  BY <1>17 DEF Stale
<1>18. ASSUME NEW s \in Services, Handle(s) PROVE TypeOK'
  BY <1>18 DEF Handle
<1>19. ASSUME NEW s \in Services, Report(s) PROVE TypeOK'
  BY <1>19, RxAssumption DEF Report
<1>20. ASSUME NEW s \in Services, AutoQuit(s) PROVE TypeOK'
  BY <1>20 DEF AutoQuit
<1>21. CASE UNCHANGED vars
  BY <1>21 DEF vars
<1> QED
  BY <1>1, <1>2, <1>3, <1>4, <1>5, <1>6, <1>7, <1>8, <1>9, <1>10, <1>11,
     <1>12, <1>13, <1>14, <1>15, <1>16, <1>17, <1>18, <1>19, <1>20, <1>21
     DEF Next, Up, Recycle, Serve

-----------------------------------------------------------------------------
(* The invariant. *)

LEMMA RxInitInv == Init => Inv
<1> SUFFICES ASSUME Init PROVE Inv
  OBVIOUS
<1>1. TypeOK
  BY RxInitType
<1>2. PtrInv
  BY DEF Init, PtrInv, Known
<1>3. UpInv
  BY DEF Init, UpInv
<1>4. MarkInv
  BY DEF Init, MarkInv
<1>5. FreeInv
  BY DEF Init, FreeInv
<1> QED
  BY <1>1, <1>2, <1>3, <1>4, <1>5 DEF Inv

\* What was inserted stays known: no step takes a batch out of the list other
\* than by freeing it.
LEMMA KnownStays ==
  ASSUME Inv, [Next]_vars
  PROVE  \A b \in Batch : heap[b] \in {"linked", "freed"} => heap'[b] \in {"linked", "freed"}
<1>0. heap \in [Batch -> {"unused", "private", "linked", "freed"}]
  BY DEF Inv, TypeOK
<1>1. CASE Fetch
  <2>1. heap' = [heap EXCEPT ![batch + 1] = "private"]
    BY <1>1 DEF Fetch
  <2>2. batch + 1 > batch
    BY DEF Inv, TypeOK, Batch
  <2>3. batch + 1 \in Batch => heap[batch + 1] = "unused"
    BY <2>2 DEF Inv, UpInv
  <2> QED
    BY <1>0, <2>1, <2>3
<1>2. CASE InsertHead
  BY <1>0, <1>2 DEF InsertHead
<1>3. CASE RecycleFree
  BY <1>0, <1>3 DEF RecycleFree
<1>4. CASE UNCHANGED heap
  BY <1>4
<1>5. \/ Fetch \/ InsertHead \/ RecycleFree \/ UNCHANGED heap
  BY DEF Next, Up, Recycle, Serve, vars, lvars, CheckSize, Post, RecycleBegin,
         RecycleKeep, RecycleUnlink, RecycleRelink, RecycleEnd, Exit, Wake,
         WalkEnd, WalkOn, WalkFound, Take, Stale, Handle, Report, AutoQuit
<1> QED
  BY <1>1, <1>2, <1>3, <1>4, <1>5

\* Every pointer of the list, of the services and of the recycling thread
\* leads to a batch that was inserted.
LEMMA NextPtr ==
  ASSUME Inv, [Next]_vars
  PROVE  PtrInv'
<1> DEFINE K == {p \in Ptr : p = NULL \/ heap'[p] \in {"linked", "freed"}}
<1>1. /\ first \in K /\ rcur \in K /\ rnext \in K
      /\ \A s \in Services : cur[s] \in K
      /\ \A b \in Batch : next[b] \in K
  <2>1. \A p \in Ptr : Known(p) => p \in K
    BY KnownStays DEF Known
  <2>2. /\ first \in Ptr /\ rcur \in Ptr /\ rnext \in Ptr
        /\ \A s \in Services : cur[s] \in Ptr
        /\ \A b \in Batch : next[b] \in Ptr
    BY DEF Inv, TypeOK
  <2> QED
    BY <2>1, <2>2 DEF Inv, PtrInv
<1>2. NULL \in K /\ \A p \in K : NextOf(p) \in K
  BY <1>1 DEF NextOf
<1>3. InsertHead => batch \in K
  <2>1. InsertHead => batch \in Batch /\ heap' = [heap EXCEPT ![batch] = "linked"]
    BY DEF InsertHead, Inv, UpInv
  <2> QED
    BY <2>1 DEF Inv, TypeOK
<1> HIDE DEF K
<1>4. first' \in K
  <2>1. \/ InsertHead /\ first' = batch
        \/ first' = rnext
        \/ first' = first
    BY DEF Next, Up, Recycle, Serve, vars, lvars, Fetch, InsertHead, CheckSize,
           Post, RecycleBegin, RecycleKeep, RecycleUnlink, RecycleRelink,
           Relinked, RecycleFree, RecycleEnd, Exit, Wake, WalkEnd, WalkOn,
           WalkFound, Take, Stale, Handle, Report, AutoQuit
  <2> QED
    BY <1>1, <1>3, <2>1
<1>5. rcur' \in K /\ rnext' \in K
  <2>1. \/ rcur' = rcur /\ rnext' = rnext
        \/ rcur' = first /\ rnext' = NextOf(first)
        \/ rcur' = rnext /\ rnext' = NextOf(rnext)
    BY DEF Next, Up, Recycle, Serve, vars, rvars, Fetch, InsertHead, CheckSize,
           Post, RecycleBegin, RecycleKeep, RecycleUnlink, RecycleRelink,
           RecycleFree, RecycleEnd, Exit, Wake, WalkEnd, WalkOn,
           WalkFound, Take, Stale, Handle, Report, AutoQuit
  <2> QED
    BY <1>1, <1>2, <2>1
<1>6. ASSUME NEW s \in Services PROVE cur'[s] \in K
  <2>1. cur \in [Services -> Ptr]
    BY DEF Inv, TypeOK
  <2>2. CASE \E t \in Services : Wake(t)
    BY <1>1, <2>1, <2>2 DEF Wake
  <2>3. CASE \E t \in Services : WalkOn(t)
    <3>1. PICK t \in Services : WalkOn(t)
      BY <2>3
    <3>2. cur[t] \in Batch /\ cur' = [cur EXCEPT ![t] = next[cur[t]]]
      BY <2>1, <3>1 DEF WalkOn, Live
    <3> QED
      BY <1>1, <2>1, <3>2
  <2>4. CASE \E t \in Services : Take(t)
    BY <1>1, <1>2, <2>1, <2>4 DEF Take
  <2>5. CASE UNCHANGED cur
    BY <1>1, <2>5
  <2>6. \/ \E t \in Services : Wake(t) \/ WalkOn(t) \/ Take(t)
        \/ UNCHANGED cur
    BY DEF Next, Up, Recycle, Serve, vars, svars, Fetch, InsertHead, CheckSize,
           Post, RecycleBegin, RecycleKeep, RecycleUnlink, RecycleRelink,
           RecycleFree, RecycleEnd, Exit, WalkEnd,
           WalkFound, Stale, Handle, Report, AutoQuit
  <2> QED
    BY <2>2, <2>3, <2>4, <2>5, <2>6
<1>7. ASSUME NEW b \in Batch PROVE next'[b] \in K
  <2>1. next \in [Batch -> Ptr]
    BY DEF Inv, TypeOK
  <2>2. CASE InsertHead
    BY <1>1, <2>1, <2>2 DEF InsertHead
  <2>3. CASE RecycleUnlink
    BY <1>1, <1>2, <2>1, <2>3 DEF RecycleUnlink
  <2>4. CASE RecycleRelink
    BY <1>1, <2>1, <2>4 DEF RecycleRelink
  <2>5. CASE UNCHANGED next
    BY <1>1, <2>5
  <2>6. InsertHead \/ RecycleUnlink \/ RecycleRelink \/ UNCHANGED next
    BY DEF Next, Up, Recycle, Serve, vars, lvars, Fetch, CheckSize,
           Post, RecycleBegin, RecycleKeep,
           RecycleFree, RecycleEnd, Exit, Wake, WalkEnd, WalkOn, WalkFound,
           Take, Stale, Handle, Report, AutoQuit
  <2> QED
    BY <2>2, <2>3, <2>4, <2>5, <2>6
<1> QED
  BY <1>4, <1>5, <1>6, <1>7 DEF PtrInv, Known, K

LEMMA NextUp ==
  ASSUME Inv, [Next]_vars
  PROVE  UpInv'
<1>0. heap \in [Batch -> {"unused", "private", "linked", "freed"}] /\ batch \in Ptr
  BY DEF Inv, TypeOK
<1>1. CASE Fetch
  <2>1. /\ heap' = [heap EXCEPT ![batch + 1] = "private"]
        /\ batch' = batch + 1 /\ batch < MaxBatch
    BY <1>1 DEF Fetch
  <2>2. batch' \in Batch
    BY <1>0, <2>1, RxAssumption DEF Batch
  <2>3. \A b \in Batch : b > batch + 1 => b > batch
    BY <1>0 DEF Batch
  <2> QED
    BY <1>0, <2>1, <2>2, <2>3 DEF Inv, UpInv
<1>2. CASE InsertHead
  <2>1. /\ batch \in Batch /\ heap' = [heap EXCEPT ![batch] = "linked"]
        /\ batch' = batch /\ upc' = "post"
    BY <1>2 DEF InsertHead, Inv, UpInv
  <2>2. ~(batch > batch)
    BY <2>1 DEF Batch
  <2> QED
    BY <1>0, <2>1, <2>2 DEF Inv, UpInv
<1>3. CASE RecycleFree
  <2>1. /\ heap' = [heap EXCEPT ![rcur] = "freed"] /\ UNCHANGED <<upc, batch>>
    BY <1>3 DEF RecycleFree, upvars
  <2>2. heap[rcur] \in {"linked", "freed"}
    BY <1>3 DEF RecycleFree, Inv, FreeInv, PtrInv, Known
  <2> QED
    BY <1>0, <2>1, <2>2 DEF Inv, UpInv
<1>4. CASE UNCHANGED <<heap, batch>> /\ (upc' = upc \/ upc' # "insert")
  BY <1>4 DEF Inv, UpInv
<1>5. \/ Fetch \/ InsertHead \/ RecycleFree
      \/ UNCHANGED <<heap, batch>> /\ (upc' = upc \/ upc' # "insert")
  BY DEF Next, Up, Recycle, Serve, vars, upvars, lvars, CheckSize,
         Post, RecycleBegin, RecycleKeep, RecycleUnlink, RecycleRelink,
         RecycleEnd, Exit, Wake, WalkEnd, WalkOn, WalkFound,
         Take, Stale, Handle, Report, AutoQuit
<1> QED
  BY <1>1, <1>2, <1>3, <1>4, <1>5

\* The accounting survives every step: only Fetch, on a fresh batch, and Take
\* touch it, and Take adds a stamp where it subtracts from bind.
LEMMA NextMark ==
  ASSUME Inv, [Next]_vars
  PROVE  MarkInv'
<1>0. /\ heap \in [Batch -> {"unused", "private", "linked", "freed"}]
      /\ stamps \in [Batch -> SUBSET Services]
      /\ bind \in [Batch -> 0 .. Cardinality(Services)]
      /\ spc \in [Services -> {"wait", "walk", "take", "handle", "gone"}]
      /\ cur \in [Services -> Ptr]
      /\ got \in [Services -> [Batch -> Nat]]
      /\ batch \in Ptr
      /\ MarkInv
  BY DEF Inv, TypeOK
<1>1. CASE Fetch
  <2>1. /\ heap' = [heap EXCEPT ![batch + 1] = "private"]
        /\ stamps' = [stamps EXCEPT ![batch + 1] = {}]
        /\ bind' = [bind EXCEPT ![batch + 1] = Cardinality(Services)]
        /\ UNCHANGED <<spc, cur, got>>
    BY <1>1 DEF Fetch, FirstBind, svars
  <2>2. batch + 1 \in Batch => heap[batch + 1] = "unused"
    <3>1. batch + 1 > batch
      BY <1>0 DEF Batch
    <3> QED
      BY <3>1 DEF Inv, UpInv
  <2>3. batch + 1 \in Batch => stamps[batch + 1] = {}
    BY <2>2 DEF Inv, MarkInv
  <2>4. UNCHANGED stamps
    BY <1>0, <2>1, <2>3
  <2>5. Cardinality({}) = 0 /\ Cardinality(Services) \in Nat
    BY FS_EmptySet, RxAssumption
  <2>6. ASSUME NEW b \in Batch
        PROVE  \/ heap'[b] = "unused" /\ stamps'[b] = {}
               \/ /\ heap'[b] # "unused"
                  /\ bind'[b] + Cardinality(stamps'[b]) = Cardinality(Services)
    <3>1. CASE b = batch + 1
      BY <1>0, <2>1, <2>5, <3>1
    <3>2. CASE b # batch + 1
      BY <1>0, <2>1, <3>2 DEF MarkInv
    <3> QED
      BY <3>1, <3>2
  <2>7. \A s \in Services, b \in Batch : got'[s][b] = IF s \in stamps'[b] THEN 1 ELSE 0
    BY <1>0, <2>1, <2>4 DEF MarkInv
  <2>8. \A s \in Services : spc'[s] = "take" => cur'[s] # NULL /\ s \notin stamps'[cur'[s]]
    BY <1>0, <2>1, <2>4 DEF MarkInv
  <2> QED
    BY <2>6, <2>7, <2>8 DEF MarkInv
<1>2. CASE InsertHead \/ RecycleFree
  <2>1. /\ UNCHANGED <<stamps, bind, spc, cur, got>>
        /\ \A b \in Batch : heap'[b] = "unused" <=> heap[b] = "unused"
    <3>1. CASE InsertHead
      <4>1. batch \in Batch /\ heap[batch] = "private" /\ heap' = [heap EXCEPT ![batch] = "linked"]
        BY <3>1 DEF InsertHead, Inv, UpInv
      <4> QED
        BY <1>0, <3>1, <4>1 DEF InsertHead, bvars, svars
    <3>2. CASE RecycleFree
      <4>1. heap[rcur] \in {"linked", "freed"} /\ heap' = [heap EXCEPT ![rcur] = "freed"]
        BY <3>2 DEF RecycleFree, Inv, FreeInv, PtrInv, Known
      <4> QED
        BY <1>0, <3>2, <4>1 DEF RecycleFree, bvars, svars
    <3> QED
      BY <1>2, <3>1, <3>2
  <2> QED
    BY <1>0, <2>1 DEF MarkInv
<1>3. ASSUME NEW s \in Services, Take(s) PROVE MarkInv'
  <2> DEFINE c == cur[s]
  <2>1. /\ c \in Batch /\ spc[s] = "take" /\ heap[c] # "unused"
        /\ s \notin stamps[c] /\ got[s][c] = 0
        /\ bind[c] + Cardinality(stamps[c]) = Cardinality(Services)
    <3>1. c \in Batch /\ spc[s] = "take"
      BY <1>0, <1>3 DEF Take, Live
    <3>2. heap[c] # "unused"
      <4>1. Known(c) /\ c # NULL
        BY <3>1 DEF Inv, PtrInv, Batch
      <4> QED
        BY <4>1 DEF Known
    <3> QED
      BY <1>0, <3>1, <3>2 DEF MarkInv
  <2>2. /\ stamps' = [stamps EXCEPT ![c] = stamps[c] \cup {s}]
        /\ got' = [got EXCEPT ![s][c] = got[s][c] + 1]
        /\ spc' = [spc EXCEPT ![s] = "handle"]
        /\ cur' = [cur EXCEPT ![s] = NULL]
        /\ UNCHANGED heap
    BY <1>3 DEF Take, Stamped, lvars
  <2>3. /\ Cardinality(stamps[c] \cup {s}) = Cardinality(stamps[c]) + 1
        /\ Cardinality(stamps[c]) < Cardinality(Services)
        /\ Cardinality(stamps[c]) \in Nat
    <3>1. stamps[c] \in SUBSET Services
      BY <1>0, <2>1
    <3> QED
      BY <2>1, <3>1, OneMoreStamp, StampCount
  <2>4. bind' = [bind EXCEPT ![c] = bind[c] - 1]
    <3>1. bind[c] \in 0 .. Cardinality(Services) /\ Cardinality(Services) \in 1 .. 8
      BY <1>0, <2>1, RxAssumption
    <3>2. (bind[c] - 1) % 256 = bind[c] - 1
      BY <2>1, <2>3, <3>1, CountDown
    <3>3. bind' = [bind EXCEPT ![c] = (bind[c] - 1) % 256]
      BY <1>3 DEF Take
    <3> QED
      BY <3>2, <3>3
  <2>5. ASSUME NEW b \in Batch
        PROVE  \/ heap'[b] = "unused" /\ stamps'[b] = {}
               \/ /\ heap'[b] # "unused"
                  /\ bind'[b] + Cardinality(stamps'[b]) = Cardinality(Services)
    <3>1. CASE b = c
      <4>1. bind'[c] = bind[c] - 1 /\ Cardinality(stamps'[c]) = Cardinality(stamps[c]) + 1
        BY <1>0, <2>1, <2>2, <2>3, <2>4
      <4>2. bind[c] \in Int /\ Cardinality(stamps[c]) \in Int
        <5>1. bind[c] \in 0 .. Cardinality(Services)
          BY <1>0, <2>1
        <5> QED
          BY <2>3, <5>1
      <4>3. bind'[c] + Cardinality(stamps'[c]) = Cardinality(Services)
        BY <2>1, <4>1, <4>2
      <4> QED
        BY <2>1, <2>2, <3>1, <4>3
    <3>2. CASE b # c
      BY <1>0, <2>2, <2>4, <3>2 DEF MarkInv
    <3> QED
      BY <3>1, <3>2
  <2>6. ASSUME NEW t \in Services, NEW b \in Batch
        PROVE  got'[t][b] = IF t \in stamps'[b] THEN 1 ELSE 0
    <3>1. CASE t = s /\ b = c
      BY <1>0, <2>1, <2>2, <3>1
    <3>2. CASE ~(t = s /\ b = c)
      <4>1. got'[t][b] = got[t][b]
        BY <1>0, <2>1, <2>2, <3>2
      <4>2. t \in stamps'[b] <=> t \in stamps[b]
        BY <1>0, <2>1, <2>2, <3>2
      <4> QED
        BY <1>0, <4>1, <4>2 DEF MarkInv
    <3> QED
      BY <3>1, <3>2
  <2>7. ASSUME NEW t \in Services, spc'[t] = "take"
        PROVE  cur'[t] # NULL /\ t \notin stamps'[cur'[t]]
    <3>1. t # s
      BY <1>0, <2>2, <2>7
    <3>2. spc[t] = "take" /\ cur'[t] = cur[t]
      BY <1>0, <2>2, <2>7, <3>1
    <3>3. cur[t] \in Batch /\ t \notin stamps[cur[t]]
      BY <1>0, <3>2 DEF MarkInv
    <3>4. t \notin stamps'[cur[t]]
      BY <1>0, <2>1, <2>2, <3>1, <3>3
    <3>5. cur'[t] # NULL
      BY <3>2, <3>3 DEF Batch
    <3> QED
      BY <3>2, <3>4, <3>5
  <2> QED
    BY <2>5, <2>6, <2>7 DEF MarkInv
<1>4. CASE /\ UNCHANGED <<heap, stamps, bind, got>>
           /\ \/ UNCHANGED <<spc, cur>>
              \/ \E s \in Services : Wake(s) \/ WalkEnd(s) \/ WalkOn(s)
                                     \/ WalkFound(s) \/ Handle(s)
  <2>1. ASSUME NEW t \in Services, spc'[t] = "take"
        PROVE  cur'[t] # NULL /\ t \notin stamps[cur'[t]]
    <3>1. CASE UNCHANGED <<spc, cur>>
      BY <1>0, <2>1, <3>1 DEF MarkInv
    <3>2. ASSUME NEW s \in Services, Wake(s) \/ WalkEnd(s) \/ WalkOn(s) \/ Handle(s)
          PROVE  cur'[t] # NULL /\ t \notin stamps[cur'[t]]
      <4>1. spc[t] = "take" /\ cur'[t] = cur[t]
        BY <1>0, <2>1, <3>2 DEF Wake, WalkEnd, WalkOn, Handle
      <4> QED
        BY <1>0, <4>1 DEF MarkInv
    <3>3. ASSUME NEW s \in Services, WalkFound(s)
          PROVE  cur'[t] # NULL /\ t \notin stamps[cur'[t]]
      <4>1. CASE t = s
        BY <3>3, <4>1 DEF WalkFound, Live
      <4>2. CASE t # s
        <5>1. spc[t] = "take" /\ cur'[t] = cur[t]
          BY <1>0, <2>1, <3>3, <4>2 DEF WalkFound
        <5> QED
          BY <1>0, <5>1 DEF MarkInv
      <4> QED
        BY <4>1, <4>2
    <3> QED
      BY <1>4, <3>1, <3>2, <3>3
  <2> QED
    BY <1>0, <1>4, <2>1 DEF MarkInv
<1>5. \/ Fetch \/ InsertHead \/ RecycleFree
      \/ \E s \in Services : Take(s)
      \/ /\ UNCHANGED <<heap, stamps, bind, got>>
         /\ \/ UNCHANGED <<spc, cur>>
            \/ \E s \in Services : Wake(s) \/ WalkEnd(s) \/ WalkOn(s)
                                   \/ WalkFound(s) \/ Handle(s)
  BY DEF Next, Up, Recycle, Serve, vars, svars, lvars, bvars, CheckSize,
         Post, RecycleBegin, RecycleKeep, RecycleUnlink, RecycleRelink,
         RecycleEnd, Exit, Wake, WalkEnd, WalkOn, WalkFound,
         Stale, Handle, Report, AutoQuit
<1> QED
  BY <1>1, <1>2, <1>3, <1>4, <1>5

LEMMA StampsStay ==
  ASSUME Inv, [Next]_vars, NEW b \in Batch, heap[b] # "unused", stamps[b] = Services
  PROVE  stamps'[b] = Services
<1>0. stamps \in [Batch -> SUBSET Services] /\ stamps' \in [Batch -> SUBSET Services]
  BY RxNextType DEF Inv, TypeOK
<1>1. CASE Fetch
  <2>1. stamps' = [stamps EXCEPT ![batch + 1] = {}]
    BY <1>1 DEF Fetch
  <2>2. batch + 1 > batch
    BY DEF Inv, TypeOK, Batch
  <2>3. b # batch + 1
    BY <2>2 DEF Inv, UpInv
  <2> QED
    BY <1>0, <2>1, <2>3
<1>2. ASSUME NEW s \in Services, Take(s) PROVE stamps'[b] = Services
  <2>1. stamps' = [stamps EXCEPT ![cur[s]] = stamps[cur[s]] \cup {s}]
    BY <1>2 DEF Take, Stamped
  <2> QED
    BY <1>0, <2>1
<1>3. Fetch \/ (\E s \in Services : Take(s)) \/ UNCHANGED stamps
  BY DEF Next, Up, Recycle, Serve, vars, bvars, InsertHead, CheckSize,
         Post, RecycleBegin, RecycleKeep, RecycleUnlink, RecycleRelink,
         RecycleFree, RecycleEnd, Exit, Wake, WalkEnd, WalkOn, WalkFound,
         Stale, Handle, Report, AutoQuit
<1> QED
  BY <1>1, <1>2, <1>3

\* A batch that may be recycled bears every stamp.
LEMMA RecyclableIsTaken ==
  ASSUME Inv, NEW b \in Batch, heap[b] # "unused", Recyclable(b), ~exit_sig
  PROVE  stamps[b] = Services
<1>1. bind[b] \in 0 .. Cardinality(Services) /\ stamps[b] \in SUBSET Services
  BY DEF Inv, TypeOK
<1>2. bind[b] = 0
  BY <1>1 DEF Recyclable
<1>3. bind[b] + Cardinality(stamps[b]) = Cardinality(Services)
  BY DEF Inv, MarkInv
<1>4. Cardinality(stamps[b]) = Cardinality(Services)
  <2>1. Cardinality(stamps[b]) \in Nat
    BY <1>1, StampCount
  <2> QED
    BY <1>2, <1>3, <2>1
<1> QED
  BY <1>1, <1>4, StampCount

LEMMA NextFree ==
  ASSUME Inv, [Next]_vars
  PROVE  FreeInv'
<1>0. heap \in [Batch -> {"unused", "private", "linked", "freed"}] /\ rcur \in Ptr
  BY DEF Inv, TypeOK
<1>1. rcur # NULL => rcur \in Batch /\ heap[rcur] \in {"linked", "freed"}
  BY <1>0 DEF Inv, PtrInv, Known
<1>2. exit_sig => exit_sig'
  BY DEF Next, Up, Recycle, Serve, vars, Fetch, InsertHead, CheckSize,
         Post, RecycleBegin, RecycleKeep, RecycleUnlink, RecycleRelink,
         RecycleFree, RecycleEnd, Exit, Wake, WalkEnd, WalkOn, WalkFound,
         Take, Stale, Handle, Report, AutoQuit
<1>3. ASSUME rpc' \in {"relink", "free"}
      PROVE  rcur' # NULL /\ (exit_sig' \/ stamps'[rcur'] = Services)
  <2>1. CASE RecycleUnlink
    <3>1. rcur # NULL /\ Recyclable(rcur) /\ rcur' = rcur
      BY <2>1 DEF RecycleUnlink
    <3>2. exit_sig \/ stamps[rcur] = Services
      BY <1>1, <3>1, RecyclableIsTaken
    <3>3. exit_sig \/ stamps'[rcur] = Services
      BY <1>1, <3>1, <3>2, StampsStay
    <3> QED
      BY <1>2, <3>1, <3>3
  <2>2. CASE rcur' = rcur /\ rpc \in {"relink", "free"}
    <3>1. rcur # NULL /\ (exit_sig \/ stamps[rcur] = Services)
      BY <2>2 DEF Inv, FreeInv
    <3>2. exit_sig \/ stamps'[rcur] = Services
      BY <1>1, <3>1, StampsStay
    <3> QED
      BY <1>2, <2>2, <3>1, <3>2
  <2>3. RecycleUnlink \/ (rcur' = rcur /\ rpc \in {"relink", "free"})
    BY <1>3
    DEF Next, Up, Recycle, Serve, vars, rvars, Fetch, InsertHead, CheckSize,
        Post, RecycleBegin, RecycleKeep, RecycleRelink,
        RecycleFree, RecycleEnd, Exit, Wake, WalkEnd, WalkOn, WalkFound,
        Take, Stale, Handle, Report, AutoQuit
  <2> QED
    BY <2>1, <2>2, <2>3
<1>4. ASSUME NEW b \in Batch, heap'[b] = "freed", ~exit_sig'
      PROVE  stamps'[b] = Services
  <2>1. CASE heap[b] = "freed"
    <3>1. stamps[b] = Services
      BY <1>2, <1>4, <2>1 DEF Inv, FreeInv
    <3> QED
      BY <2>1, <3>1, StampsStay
  <2>2. CASE heap[b] # "freed"
    <3>1. RecycleFree
      <4>1. \/ RecycleFree
            \/ \E p \in Ptr : heap' = [heap EXCEPT ![p] = "private"]
                              \/ heap' = [heap EXCEPT ![p] = "linked"]
            \/ UNCHANGED heap
        <5>1. Fetch => \E p \in Ptr : heap' = [heap EXCEPT ![p] = "private"]
          <6>1. Fetch => batch' \in Ptr
            BY RxNextType DEF Inv, TypeOK
          <6> QED
            BY <6>1 DEF Fetch
        <5>2. InsertHead => \E p \in Ptr : heap' = [heap EXCEPT ![p] = "linked"]
          BY DEF InsertHead, Inv, TypeOK
        <5>3. Fetch \/ InsertHead \/ RecycleFree \/ UNCHANGED heap
          BY DEF Next, Up, Recycle, Serve, vars, lvars, CheckSize, Post,
                 RecycleBegin, RecycleKeep, RecycleUnlink, RecycleRelink,
                 RecycleEnd, Exit, Wake, WalkEnd, WalkOn, WalkFound, Take,
                 Stale, Handle, Report, AutoQuit
        <5> QED
          BY <5>1, <5>2, <5>3
      <4> QED
        BY <1>0, <1>4, <2>2, <4>1
    <3>2. b = rcur /\ rpc = "free" /\ exit_sig' = exit_sig
      BY <1>0, <1>4, <2>2, <3>1 DEF RecycleFree
    <3>3. stamps[b] = Services /\ heap[b] # "unused"
      BY <1>1, <1>4, <3>2 DEF Inv, FreeInv
    <3> QED
      BY <3>3, StampsStay
  <2> QED
    BY <2>1, <2>2
<1> QED
  BY <1>3, <1>4 DEF FreeInv

LEMMA NextInv == Inv /\ [Next]_vars => Inv'
BY RxNextType, NextPtr, NextUp, NextMark, NextFree DEF Inv

LEMMA Invariant == Spec => []Inv
<1>1. Inv /\ [Next]_vars => Inv'
  BY NextInv
<1> QED
  BY <1>1, RxInitInv, PTL DEF Spec

-----------------------------------------------------------------------------
(* The theorems. *)

\* Batches, pointers, counters and threads keep their types; in particular the
\* 8-bit bind never wraps.
THEOREM RxTypeCorrect == Spec => []TypeOK
<1>1. Inv => TypeOK
  BY DEF Inv
<1> QED
  BY <1>1, Invariant, PTL

\* thread_rxpkt_recycle never frees a batch some service has not taken, for
\* any number of batches, services and concurrent recycling threads.
THEOREM NoEarlyFree == Spec => []TakenBeforeFreed
<1>1. Inv => TakenBeforeFreed
  BY DEF Inv, MarkInv, FreeInv, TakenBeforeFreed, Discarded
<1> QED
  BY <1>1, Invariant, PTL

-----------------------------------------------------------------------------
(* The shape of the list.  Newest chooses; IsNewest says what it chooses and *)
(* needs no existence of a maximum.                                          *)

IsNewest(p, bs) == IF bs = {} THEN p = NULL ELSE p \in bs /\ \A c \in bs : c <= p

\* The batches that first leads to: all but the one cut off and not yet freed.
Chain == {b \in Linked : rpc = "free" => b # rcur}

\* Every batch of the chain is followed by the next older one, except the one
\* that RecycleUnlink has cut from the rest.
ChainShape ==
  /\ IsNewest(first, Chain)
  /\ \A b \in Chain : \/ rpc = "relink" /\ b = rcur
                      \/ IsNewest(next[b], {c \in Chain : c < b})

\* The traversal stands at a batch of the list, between its two neighbours.
CursorShape ==
  rpc # "idle" /\ rcur # NULL =>
    /\ rcur \in Linked
    /\ IsNewest(rnext, {c \in Linked : c < rcur})
    /\ \A c \in Linked : c > rcur => rprev # NULL /\ c >= rprev
    /\ rprev # NULL => rprev \in Linked /\ rprev > rcur

ListInv ==
  /\ ChainShape
  /\ CursorShape
  /\ size = Cardinality(Linked)

LEMMA LinkedFinite == IsFiniteSet(Linked)
<1>1. IsFiniteSet(1 .. MaxBatch)
  BY FS_Interval, RxAssumption
<1> QED
  BY <1>1, FS_Subset DEF Linked, Batch

listvars == <<first, size, heap, next, rpc, rcur, rprev, rnext>>

LEMMA NewestIs ==
  ASSUME NEW bs \in SUBSET Batch, NEW p, IsNewest(p, bs)
  PROVE  p = Newest(bs)
<1>1. CASE bs = {}
  BY <1>1 DEF IsNewest, Newest
<1>2. CASE bs # {}
  <2>1. p \in bs /\ \A c \in bs : c <= p
    BY <1>2 DEF IsNewest
  <2>2. \A q \in bs : (\A c \in bs : c <= q) => q = p
    BY <2>1 DEF Batch
  <2> QED
    BY <1>2, <2>1, <2>2 DEF Newest
<1> QED
  BY <1>1, <1>2

\* A step that touches neither the list nor the traversal.
LEMMA ListUntouched ==
  ASSUME ListInv, UNCHANGED listvars
  PROVE  ListInv'
BY DEF ListInv, ChainShape, CursorShape, Chain, Linked, listvars

\* Insertion at the head: the new batch is newer than all of the list.
LEMMA ListInsert ==
  ASSUME Inv, ListInv, InsertHead
  PROVE  ListInv'
<1>1. /\ batch \in Batch /\ heap[batch] = "private" /\ rpc = "idle"
      /\ heap' = [heap EXCEPT ![batch] = "linked"]
      /\ next' = [next EXCEPT ![batch] = first]
      /\ first' = batch /\ size' = size + 1
      /\ UNCHANGED <<rpc, rcur, rprev, rnext>>
  BY DEF InsertHead, ListLockFree, rvars, Inv, UpInv
<1>2. \A c \in Linked : c < batch
  BY <1>1 DEF Inv, UpInv, Linked, Batch
<1>3. /\ heap \in [Batch -> {"unused", "private", "linked", "freed"}]
      /\ next \in [Batch -> Ptr]
  BY DEF Inv, TypeOK
<1>4. Linked' = Linked \cup {batch} /\ batch \notin Linked
  BY <1>1, <1>3 DEF Linked
<1>5. Chain = Linked /\ Chain' = Linked'
  BY <1>1 DEF Chain
<1>6. Linked \subseteq Batch
  BY DEF Linked
<1>7. ChainShape'
  <2>1. IsNewest(batch, Linked')
    BY <1>1, <1>2, <1>4, <1>6 DEF IsNewest, Batch
  <2>2. {c \in Linked' : c < batch} = Linked /\ next'[batch] = first
    BY <1>1, <1>2, <1>3, <1>4 DEF Batch
  <2>3. ASSUME NEW b \in Linked
        PROVE  {c \in Linked' : c < b} = {c \in Linked : c < b} /\ next'[b] = next[b]
    BY <1>1, <1>2, <1>3, <1>4, <1>6 DEF Batch
  <2>4. /\ IsNewest(first, Linked)
        /\ \A b \in Linked : IsNewest(next[b], {c \in Linked : c < b})
    BY <1>1, <1>5 DEF ListInv, ChainShape
  <2>5. \A b \in Linked' : IsNewest(next'[b], {c \in Linked' : c < b})
    <3>1. ASSUME NEW b \in Linked PROVE IsNewest(next'[b], {c \in Linked' : c < b})
      BY <2>3, <2>4
    <3>2. IsNewest(next'[batch], {c \in Linked' : c < batch})
      BY <2>2, <2>4
    <3> QED
      BY <1>4, <3>1, <3>2
  <2> QED
    BY <1>1, <1>5, <2>1, <2>5 DEF ChainShape
<1>8. CursorShape'
  BY <1>1 DEF CursorShape
<1>9. size' = Cardinality(Linked')
  <2>1. IsFiniteSet(Linked)
    BY LinkedFinite
  <2>2. Cardinality(Linked') = Cardinality(Linked) + 1
    BY <1>4, <2>1, FS_AddElement
  <2> QED
    BY <1>1, <2>2 DEF ListInv
<1> QED
  BY <1>7, <1>8, <1>9 DEF ListInv

\* A received batch is not in the list yet.
LEMMA ListFetch ==
  ASSUME Inv, ListInv, Fetch
  PROVE  ListInv'
<1>1. /\ heap' = [heap EXCEPT ![batch + 1] = "private"]
      /\ UNCHANGED <<first, size, next, rpc, rcur, rprev, rnext>>
  BY DEF Fetch, rvars
<1>2. batch + 1 \in Batch => heap[batch + 1] = "unused"
  <2>1. batch + 1 > batch
    BY DEF Inv, TypeOK, Batch
  <2> QED
    BY <2>1 DEF Inv, UpInv
<1>3. Linked' = Linked
  BY <1>1, <1>2 DEF Linked, Inv, TypeOK
<1> QED
  BY <1>1, <1>3 DEF ListInv, ChainShape, CursorShape, Chain

\* The traversal begins at the head.
LEMMA ListBegin ==
  ASSUME Inv, ListInv, RecycleBegin
  PROVE  ListInv'
<1>1. /\ rpc = "idle" /\ rpc' = "visit" /\ rprev' = NULL /\ rcur' = first
      /\ rnext' = NextOf(first)
      /\ UNCHANGED <<first, size, heap, next>>
  BY DEF RecycleBegin, lvars
<1>2. Linked' = Linked /\ Chain = Linked /\ Chain' = Linked
  BY <1>1 DEF Linked, Chain
<1>3. Linked \subseteq Batch
  BY DEF Linked
<1>4. ChainShape'
  BY <1>1, <1>2 DEF ListInv, ChainShape
<1>5. CursorShape'
  <2>1. SUFFICES ASSUME first # NULL
                 PROVE  /\ first \in Linked
                        /\ IsNewest(next[first], {c \in Linked : c < first})
                        /\ \A c \in Linked : ~(c > first)
    BY <1>1, <1>2 DEF CursorShape, NextOf
  <2>2. first \in Linked /\ \A c \in Linked : c <= first
    BY <1>2, <2>1 DEF ListInv, ChainShape, IsNewest
  <2>3. \A c \in Linked : ~(c > first)
    BY <1>3, <2>2 DEF Batch
  <2> QED
    BY <1>1, <1>2, <2>2, <2>3 DEF ListInv, ChainShape
<1> QED
  BY <1>1, <1>2, <1>4, <1>5 DEF ListInv

\* The cursor moves on to the next older batch.
LEMMA ListKeep ==
  ASSUME Inv, ListInv, RecycleKeep
  PROVE  ListInv'
<1>1. /\ rpc = "visit" /\ rcur # NULL /\ rpc' = rpc
      /\ rprev' = rcur /\ rcur' = rnext /\ rnext' = NextOf(rnext)
      /\ UNCHANGED <<first, size, heap, next>>
  BY DEF RecycleKeep, lvars
<1>2. Linked' = Linked /\ Chain = Linked /\ Chain' = Linked
  BY <1>1 DEF Linked, Chain
<1>3. Linked \subseteq Batch
  BY DEF Linked
<1>4. ChainShape'
  BY <1>1, <1>2 DEF ListInv, ChainShape
<1>5. CursorShape'
  <2>1. /\ rcur \in Linked
        /\ IsNewest(rnext, {c \in Linked : c < rcur})
    BY <1>1 DEF ListInv, CursorShape
  <2>2. SUFFICES ASSUME rnext # NULL
                 PROVE  /\ rnext \in Linked
                        /\ IsNewest(next[rnext], {c \in Linked : c < rnext})
                        /\ \A c \in Linked : c > rnext => rcur # NULL /\ c >= rcur
                        /\ rcur \in Linked /\ rcur > rnext
    BY <1>1, <1>2 DEF CursorShape, NextOf
  <2>3. rnext \in Linked /\ rnext < rcur /\ \A c \in Linked : c < rcur => c <= rnext
    BY <2>1, <2>2 DEF IsNewest
  <2>4. IsNewest(next[rnext], {c \in Linked : c < rnext})
    BY <1>1, <1>2, <2>3 DEF ListInv, ChainShape
  <2>5. rcur > rnext /\ \A c \in Linked : c > rnext => c >= rcur
    BY <1>3, <2>1, <2>3 DEF Batch
  <2> QED
    BY <1>1, <2>1, <2>3, <2>4, <2>5
<1> QED
  BY <1>1, <1>2, <1>4, <1>5 DEF ListInv

\* The batch at the cursor is cut from the rest of the list.
LEMMA ListUnlink ==
  ASSUME Inv, ListInv, RecycleUnlink
  PROVE  ListInv'
<1>1. /\ rpc = "visit" /\ rcur # NULL /\ rpc' = "relink"
      /\ next' = [next EXCEPT ![rcur] = NULL]
      /\ UNCHANGED <<first, size, heap, rcur, rprev, rnext>>
  BY DEF RecycleUnlink
<1>2. Linked' = Linked /\ Chain = Linked /\ Chain' = Linked
  BY <1>1 DEF Linked, Chain
<1>3. Linked \subseteq Batch /\ next \in [Batch -> Ptr]
  BY DEF Linked, Inv, TypeOK
<1>4. ChainShape'
  <2>1. \A b \in Linked : b # rcur => next'[b] = next[b]
    BY <1>1, <1>3
  <2> QED
    BY <1>1, <1>2, <2>1 DEF ListInv, ChainShape
<1>5. CursorShape'
  BY <1>1, <1>2 DEF ListInv, CursorShape
<1> QED
  BY <1>1, <1>2, <1>4, <1>5 DEF ListInv

\* Its neighbours are joined: the list closes over the gap.
LEMMA ListRelink ==
  ASSUME Inv, ListInv, RecycleRelink
  PROVE  ListInv'
<1>1. /\ rpc = "relink" /\ rcur # NULL /\ rpc' = "free"
      /\ UNCHANGED <<size, heap, rcur, rprev, rnext>>
  BY DEF RecycleRelink, Inv, FreeInv
<1>2. Linked' = Linked /\ Chain = Linked /\ Chain' = Linked \ {rcur}
  BY <1>1 DEF Linked, Chain
<1>3. Linked \subseteq Batch /\ next \in [Batch -> Ptr]
  BY DEF Linked, Inv, TypeOK
<1>4. /\ rcur \in Linked
      /\ IsNewest(rnext, {c \in Linked : c < rcur})
      /\ \A c \in Linked : c > rcur => rprev # NULL /\ c >= rprev
      /\ rprev # NULL => rprev \in Linked /\ rprev > rcur
  BY <1>1 DEF ListInv, CursorShape
<1>5. /\ IsNewest(first, Linked)
      /\ \A b \in Linked \ {rcur} : IsNewest(next[b], {c \in Linked : c < b})
  BY <1>1, <1>2 DEF ListInv, ChainShape
<1>6. \A b \in Linked : b < rcur => {c \in Linked \ {rcur} : c < b} = {c \in Linked : c < b}
  BY <1>3, <1>4 DEF Batch
<1>7. CASE rprev = NULL
  <2>1. first' = rnext /\ next' = next
    BY <1>7 DEF RecycleRelink, Relinked
  <2>2. \A c \in Linked \ {rcur} : c < rcur
    BY <1>3, <1>4, <1>7 DEF Batch
  <2>3. {c \in Linked : c < rcur} = Linked \ {rcur}
    <3>1. ~(rcur < rcur)
      BY <1>3, <1>4 DEF Batch
    <3> QED
      BY <2>2, <3>1
  <2>4. ChainShape'
    BY <1>1, <1>2, <1>4, <1>5, <1>6, <2>1, <2>2, <2>3 DEF ChainShape
  <2> QED
    BY <1>1, <1>2, <1>4, <2>4 DEF ListInv, CursorShape
<1>8. CASE rprev # NULL
  <2>1. first' = first /\ next' = [next EXCEPT ![rprev] = rnext]
    BY <1>8 DEF RecycleRelink
  <2>2. rprev \in Linked /\ rprev > rcur /\ rprev # rcur
    BY <1>3, <1>4, <1>8 DEF Batch
  <2>3. IsNewest(first, Linked \ {rcur})
    <3>1. first \in Linked /\ \A c \in Linked : c <= first
      BY <1>4, <1>5 DEF IsNewest
    <3>2. first # rcur
      BY <1>3, <1>4, <2>2, <3>1 DEF Batch
    <3> QED
      BY <2>2, <3>1, <3>2 DEF IsNewest
  <2>4. ASSUME NEW b \in Linked \ {rcur}
        PROVE  IsNewest(next'[b], {c \in Linked \ {rcur} : c < b})
    <3>1. CASE b = rprev
      <4>1. \A c \in Linked : c # rcur /\ c < rprev <=> c < rcur
        BY <1>3, <1>4, <2>2 DEF Batch
      <4> QED
        <5>1. {c \in Linked \ {rcur} : c < rprev} = {c \in Linked : c < rcur}
          BY <4>1
        <5>2. next'[b] = rnext
          BY <1>3, <2>1, <2>2, <3>1
        <5> QED
          BY <1>4, <3>1, <5>1, <5>2
    <3>2. CASE b < rcur
      <4>1. b # rprev
        BY <1>3, <1>4, <2>2, <3>2 DEF Batch
      <4>2. next'[b] = next[b]
        BY <1>3, <2>1, <4>1
      <4> QED
        BY <1>5, <1>6, <3>2, <4>2
    <3>3. CASE b # rprev /\ ~(b < rcur)
      <4>1. b > rprev
        BY <1>3, <1>4, <2>2, <3>3 DEF Batch
      <4>2. next'[b] = next[b]
        BY <1>3, <2>1, <3>3
      <4>3. /\ next[b] \in Linked /\ next[b] < b
            /\ \A c \in Linked : c < b => c <= next[b]
        BY <1>3, <1>5, <2>2, <4>1 DEF IsNewest, Batch
      <4>4. next[b] # rcur
        BY <1>3, <1>4, <2>2, <4>1, <4>3 DEF Batch
      <4> QED
        BY <4>2, <4>3, <4>4 DEF IsNewest
    <3> QED
      BY <3>1, <3>2, <3>3
  <2>5. ChainShape'
    BY <1>1, <1>2, <2>1, <2>3, <2>4 DEF ChainShape
  <2> QED
    BY <1>1, <1>2, <1>4, <2>5 DEF ListInv, CursorShape
<1> QED
  BY <1>7, <1>8

\* The batch that was cut off is freed and the cursor moves on.
LEMMA ListFree ==
  ASSUME Inv, ListInv, RecycleFree
  PROVE  ListInv'
<1>1. /\ rpc = "free" /\ rcur # NULL /\ rpc' = "visit"
      /\ heap' = [heap EXCEPT ![rcur] = "freed"] /\ size' = size - 1
      /\ rcur' = rnext /\ rnext' = NextOf(rnext)
      /\ UNCHANGED <<first, next, rprev>>
  BY DEF RecycleFree, Inv, FreeInv
<1>2. /\ rcur \in Linked
      /\ IsNewest(rnext, {c \in Linked : c < rcur})
      /\ \A c \in Linked : c > rcur => rprev # NULL /\ c >= rprev
      /\ rprev # NULL => rprev \in Linked /\ rprev > rcur
  BY <1>1 DEF ListInv, CursorShape
<1>3. Linked \subseteq Batch /\ rcur \in Batch
  BY <1>2 DEF Linked
<1>4. Linked' = Linked \ {rcur} /\ Chain = Linked \ {rcur} /\ Chain' = Linked'
  BY <1>1, <1>3 DEF Linked, Chain, Inv, TypeOK
<1>5. /\ IsNewest(first, Linked')
      /\ \A b \in Linked' : IsNewest(next[b], {c \in Linked' : c < b})
  BY <1>1, <1>4 DEF ListInv, ChainShape
<1>6. ChainShape'
  BY <1>1, <1>4, <1>5 DEF ChainShape
<1>7. CursorShape'
  <2>1. SUFFICES ASSUME rnext # NULL
                 PROVE  /\ rnext \in Linked'
                        /\ IsNewest(next[rnext], {c \in Linked' : c < rnext})
                        /\ \A c \in Linked' : c > rnext => rprev # NULL /\ c >= rprev
                        /\ rprev # NULL => rprev \in Linked' /\ rprev > rnext
    BY <1>1 DEF CursorShape, NextOf
  <2>2. rnext \in Linked /\ rnext < rcur /\ \A c \in Linked : c < rcur => c <= rnext
    BY <1>2, <2>1 DEF IsNewest
  <2>3. rnext \in Linked'
    BY <1>3, <1>4, <2>2 DEF Batch
  <2>4. \A c \in Linked' : c > rnext => c > rcur
    BY <1>3, <1>4, <2>2 DEF Batch
  <2>5. rprev # NULL => rprev \in Linked' /\ rprev > rnext
    <3>1. SUFFICES ASSUME rprev # NULL PROVE rprev \in Linked' /\ rprev > rnext
      OBVIOUS
    <3>2. rprev \in Linked /\ rprev > rcur
      BY <1>2, <3>1
    <3>3. rprev # rcur /\ rprev > rnext
      BY <1>3, <2>2, <3>2 DEF Batch
    <3> QED
      BY <1>4, <3>2, <3>3
  <2> QED
    BY <1>2, <1>4, <1>5, <2>3, <2>4, <2>5
<1>8. size' = Cardinality(Linked')
  <2>1. IsFiniteSet(Linked)
    BY LinkedFinite
  <2>2. Cardinality(Linked') = Cardinality(Linked) - 1
    BY <1>2, <1>4, <2>1, FS_RemoveElement
  <2> QED
    BY <1>1, <2>2 DEF ListInv
<1> QED
  BY <1>6, <1>7, <1>8 DEF ListInv

LEMMA ListEnd ==
  ASSUME ListInv, RecycleEnd
  PROVE  ListInv'
<1>1. /\ rpc = "visit" /\ rcur = NULL /\ rpc' = "idle"
      /\ UNCHANGED <<first, size, heap, next, rcur, rnext>>
  BY DEF RecycleEnd, lvars
<1>2. Linked' = Linked /\ Chain' = Chain
  BY <1>1 DEF Linked, Chain
<1> QED
  BY <1>1, <1>2 DEF ListInv, ChainShape, CursorShape

\* With the list's lock free the list holds exactly the batches inserted and
\* not freed, newest first, and its size counts them: the two stores that
\* unlink a batch and the two that insert one never lose or cut off another.
THEOREM ListStaysIntact == Spec => []ListIntact
<1>1. Init => ListInv
  <2> SUFFICES ASSUME Init PROVE ListInv
    OBVIOUS
  <2>1. Linked = {} /\ Chain = {}
    BY DEF Init, Linked, Chain
  <2>2. ChainShape /\ CursorShape
    BY <2>1 DEF Init, ChainShape, CursorShape, IsNewest
  <2> QED
    BY <2>1, <2>2, FS_EmptySet DEF Init, ListInv
<1>2. Inv /\ ListInv /\ [Next]_vars => ListInv'
  <2> SUFFICES ASSUME Inv, ListInv, [Next]_vars PROVE ListInv'
    OBVIOUS
  <2>1. \/ Fetch \/ InsertHead \/ RecycleBegin \/ RecycleKeep \/ RecycleUnlink
        \/ RecycleRelink \/ RecycleFree \/ RecycleEnd \/ UNCHANGED listvars
    BY DEF Next, Up, Recycle, Serve, vars, lvars, rvars, listvars, CheckSize, Post,
           Exit, Wake, WalkEnd, WalkOn, WalkFound, Take, Stale, Handle, Report, AutoQuit
  <2> QED
    BY <2>1, ListFetch, ListInsert, ListBegin, ListKeep, ListUnlink, ListRelink,
       ListFree, ListEnd, ListUntouched
<1>3. ListInv => ListIntact
  <2> SUFFICES ASSUME ListInv, ListLockFree PROVE
        /\ size = Cardinality(Linked)
        /\ first = Newest(Linked)
        /\ \A b \in Linked : next[b] = Newest({c \in Linked : c < b})
    BY DEF ListIntact
  <2>1. Chain = Linked /\ Linked \subseteq Batch
    BY DEF Chain, Linked, ListLockFree
  <2>2. /\ IsNewest(first, Linked)
        /\ \A b \in Linked : IsNewest(next[b], {c \in Linked : c < b})
    BY <2>1 DEF ListInv, ChainShape, ListLockFree
  <2>3. \A b \in Linked : {c \in Linked : c < b} \in SUBSET Batch
    BY <2>1
  <2> QED
    BY <2>1, <2>2, <2>3, NewestIs DEF ListInv
<1> QED
  BY <1>1, <1>2, <1>3, Invariant, PTL DEF Spec

\* As long as no session gives up, its upstream thread does not end.
Staying == \A s \in Services : ~stop_sig[s] /\ spc[s] # "gone"

LEMMA StayingInvariant ==
  ASSUME Quitters = {}
  PROVE  Spec => []Staying
<1>1. Init => Staying
  BY DEF Init, Staying
<1>2. TypeOK /\ Staying /\ [Next]_vars => Staying'
  <2> SUFFICES ASSUME TypeOK, Staying, [Next]_vars PROVE Staying'
    OBVIOUS
  <2>0. spc \in [Services -> {"wait", "walk", "take", "handle", "gone"}]
    BY DEF TypeOK
  <2>1. CASE Up \/ Recycle \/ Exit \/ UNCHANGED vars
    BY <2>1 DEF Up, Recycle, Exit, Fetch, InsertHead, CheckSize, Post, RecycleBegin,
      RecycleKeep, RecycleUnlink, RecycleRelink, RecycleFree, RecycleEnd, vars, svars, wvars,
      Staying
  <2>2. ASSUME NEW s \in Services, Serve(s) PROVE Staying'
    <3>1. UNCHANGED stop_sig
      BY <2>2 DEF Serve, Wake, WalkEnd, WalkOn, WalkFound, Take, Stale, Handle, wvars
    <3>2. /\ ~stop_sig[s]
          /\ UNCHANGED spc \/ \E a \in {"wait", "walk", "take", "handle"} : spc' = [spc EXCEPT ![s] = a]
      BY <2>2 DEF Serve, Wake, WalkEnd, WalkOn, WalkFound, Take, Stale, Handle, svars, Staying
    <3> QED
      BY <2>0, <3>1, <3>2 DEF Staying
  <2>3. ASSUME NEW s \in Services, Report(s) \/ AutoQuit(s) PROVE Staying'
    BY <2>3 DEF Report, AutoQuit, svars, Staying
  <2> QED
    BY <2>1, <2>2, <2>3 DEF Next
<1> QED
  BY <1>1, <1>2, RxTypeCorrect, PTL DEF Spec

\* bind is the number of services that are still to take a batch, as long as no
\* session gives up: with autoquit it counts threads that have ended.
THEOREM BindCountsWaiting ==
  ASSUME Quitters = {}
  PROVE  Spec => []BindIsRemaining
<1>1. Inv /\ Staying => BindIsRemaining
  <2> SUFFICES ASSUME Inv, Staying, NEW b \in Linked
               PROVE  bind[b] = Cardinality({s \in Services : s \notin stamps[b] /\ spc[s] # "gone"})
    BY DEF BindIsRemaining
  <2>1. b \in Batch /\ heap[b] = "linked"
    BY DEF Linked
  <2>2. /\ stamps[b] \in SUBSET Services /\ bind[b] \in Nat
        /\ bind[b] + Cardinality(stamps[b]) = Cardinality(Services)
    BY <2>1 DEF Inv, TypeOK, MarkInv
  <2>3. {s \in Services : s \notin stamps[b] /\ spc[s] # "gone"} = Services \ stamps[b]
    BY DEF Staying
  <2>4. Cardinality(Services \ stamps[b]) = Cardinality(Services) - Cardinality(stamps[b])
    <3>1. IsFiniteSet(Services) /\ Services \cap stamps[b] = stamps[b]
      BY <2>2, RxAssumption
    <3> QED
      BY <3>1, FS_Difference
  <2>5. Cardinality(Services) \in Nat /\ Cardinality(stamps[b]) \in Nat
    BY <2>2, StampCount
  <2>6. bind[b] = Cardinality(Services \ stamps[b])
    <3>1. \A n, k, c \in Nat : \A d : n + k = c /\ d = c - k => n = d
      OBVIOUS
    <3>2. \A d : d = Cardinality(Services) - Cardinality(stamps[b]) => bind[b] = d
      BY <2>2, <2>5, <3>1, Zenon
    <3> QED
      BY <2>4, <3>2, Zenon
  <2> QED
    BY <2>3, <2>6, Zenon
<1> QED
  BY <1>1, Invariant, StayingInvariant, PTL

\* The dispatch implements the abstract one: at most one delivery of a batch to
\* a service, none after the batch was discarded, and no discard before all
\* the deliveries.
THEOREM RxImplementsFanout == Spec => Implements
<1>1. Init => Fan!FInit
  BY DEF Init, Fan!FInit, Linked, Discarded
<1>2. Inv /\ [Next]_vars => [Fan!FNext]_(Fan!fvars)
  <2> SUFFICES ASSUME Inv, [Next]_vars
               PROVE  Fan!FNext \/ UNCHANGED Fan!fvars
    OBVIOUS
  <2>0. /\ heap \in [Batch -> {"unused", "private", "linked", "freed"}]
        /\ got \in [Services -> [Batch -> Nat]]
        /\ cur \in [Services -> Ptr] /\ batch \in Ptr /\ rcur \in Ptr
    BY DEF Inv, TypeOK
  <2>1. CASE Fetch
    <3>1. /\ heap' = [heap EXCEPT ![batch + 1] = "private"]
          /\ UNCHANGED <<got, exit_sig>>
      BY <2>1 DEF Fetch, svars
    <3>2. batch + 1 \in Batch => heap[batch + 1] = "unused"
      <4>1. batch + 1 > batch
        BY <2>0 DEF Batch
      <4> QED
        BY <4>1 DEF Inv, UpInv
    <3>3. Linked' = Linked /\ Discarded' = Discarded
      BY <2>0, <3>1, <3>2 DEF Linked, Discarded
    <3> QED
      BY <3>1, <3>3 DEF Fan!fvars
  <2>2. CASE InsertHead
    <3>1. /\ batch \in Batch /\ heap[batch] = "private"
          /\ heap' = [heap EXCEPT ![batch] = "linked"]
          /\ UNCHANGED <<got, exit_sig>>
      BY <2>2 DEF InsertHead, svars, Inv, UpInv
    <3>2. Linked' = Linked \cup {batch} /\ Discarded' = Discarded
      BY <2>0, <3>1 DEF Linked, Discarded
    <3>3. batch \notin Linked \cup Discarded
      BY <3>1 DEF Linked, Discarded
    <3>4. Fan!Publish(batch)
      BY <3>1, <3>2, <3>3 DEF Fan!Publish
    <3> QED
      BY <3>1, <3>4 DEF Fan!FNext
  <2>3. CASE RecycleFree
    <3>1. /\ rcur \in Batch /\ heap[rcur] \in {"linked", "freed"}
          /\ exit_sig \/ stamps[rcur] = Services
          /\ heap' = [heap EXCEPT ![rcur] = "freed"]
          /\ UNCHANGED <<got, exit_sig>>
      BY <2>0, <2>3 DEF RecycleFree, svars, Inv, FreeInv, PtrInv, Known
    <3>2. /\ Linked' = Linked \ {rcur}
          /\ Discarded' = Discarded \cup {rcur}
          /\ Linked' \cup Discarded' = Linked \cup Discarded
      BY <2>0, <3>1 DEF Linked, Discarded
    <3>3. CASE heap[rcur] = "freed"
      <4>1. Linked' = Linked /\ Discarded' = Discarded
        BY <3>1, <3>2, <3>3 DEF Linked, Discarded
      <4> QED
        BY <3>1, <4>1 DEF Fan!fvars
    <3>4. CASE heap[rcur] = "linked"
      <4>1. rcur \in (Linked \cup Discarded) \ Discarded
        BY <3>1, <3>4 DEF Linked, Discarded
      <4>2. exit_sig \/ \A s \in Services : got[s][rcur] = 1
        BY <3>1 DEF Inv, MarkInv
      <4>3. Fan!Discard(rcur)
        BY <3>1, <3>2, <4>1, <4>2 DEF Fan!Discard
      <4> QED
        BY <3>1, <4>3 DEF Fan!FNext
    <3> QED
      BY <3>1, <3>3, <3>4
  <2>4. ASSUME NEW s \in Services, Take(s)
        PROVE  Fan!FNext
    <3>1. /\ cur[s] \in Batch /\ heap[cur[s]] = "linked"
          /\ s \notin stamps[cur[s]]
      <4>1. cur[s] \in Batch /\ heap[cur[s]] # "freed" /\ spc[s] = "take"
        BY <2>0, <2>4 DEF Take, Live
      <4>2. Known(cur[s]) /\ cur[s] # NULL
        BY <4>1 DEF Inv, PtrInv, Batch
      <4> QED
        BY <4>1, <4>2 DEF Known, Inv, MarkInv
    <3>2. got[s][cur[s]] = 0
      BY <3>1 DEF Inv, MarkInv
    <3>3. /\ got' = [got EXCEPT ![s][cur[s]] = 1]
          /\ UNCHANGED <<heap, exit_sig>>
      <4>1. got' = [got EXCEPT ![s][cur[s]] = got[s][cur[s]] + 1]
        BY <2>4 DEF Take
      <4> QED
        BY <2>4, <3>2, <4>1 DEF Take, lvars
    <3>4. Linked' = Linked /\ Discarded' = Discarded
      BY <3>3 DEF Linked, Discarded
    <3>5. cur[s] \in (Linked \cup Discarded) \ Discarded
      BY <3>1 DEF Linked, Discarded
    <3>6. Fan!Deliver(s, cur[s])
      BY <3>2, <3>3, <3>4, <3>5 DEF Fan!Deliver
    <3> QED
      BY <3>1, <3>6 DEF Fan!FNext
  <2>5. CASE Exit
    <3>1. exit_sig' = TRUE /\ UNCHANGED <<got, heap>>
      BY <2>5 DEF Exit, lvars, svars
    <3>2. Linked' = Linked /\ Discarded' = Discarded
      BY <3>1 DEF Linked, Discarded
    <3> QED
      BY <3>1, <3>2 DEF Fan!FNext, Fan!Close
  <2>6. CASE UNCHANGED <<heap, got, exit_sig>>
    <3>1. Linked' = Linked /\ Discarded' = Discarded
      BY <2>6 DEF Linked, Discarded
    <3> QED
      BY <2>6, <3>1 DEF Fan!fvars
  <2>7. \/ Fetch \/ InsertHead \/ RecycleFree \/ Exit
        \/ \E s \in Services : Take(s)
        \/ UNCHANGED <<heap, got, exit_sig>>
    BY DEF Next, Up, Recycle, Serve, vars, lvars, svars, CheckSize, Post,
           RecycleBegin, RecycleKeep, RecycleUnlink, RecycleRelink,
           RecycleEnd, Wake, WalkEnd, WalkOn, WalkFound,
           Stale, Handle, Report, AutoQuit
  <2> QED
    BY <2>1, <2>2, <2>3, <2>4, <2>5, <2>6, <2>7
<1> QED
  BY <1>1, <1>2, Invariant, PTL DEF Spec, Implements, Fan!FSpec
=============================================================================
