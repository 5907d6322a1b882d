------------------------ MODULE CustomDownlinkProofs ------------------------
(***************************************************************************)
(* What holds of the list of prepared downlinks for any devices, files,    *)
(* nodes and size of the list, although the upstream thread keeps pointers *)
(* to nodes that the downstream thread may free and be given again.        *)
(***************************************************************************)
EXTENDS CustomDownlink, FiniteSetTheorems, TLAPS

\* The downstream thread has a file and a node for it; the upstream thread has
\* found a node.
Building == down \notin {"dir", "end"}
Holding  == up \in {"frame", "enqueue", "remove"}

ThreadInv ==
  /\ up \in {"search", "frame", "enqueue", "remove"} => devinfo \in Dev /\ i <= load.size
  /\ Holding => dnelem \in Node
  /\ Building => /\ entry \in Node /\ file \in File
                 /\ files >= 1 /\ taken[files] = file

InList(n) == \E j \in DOMAIN dn_list : dn_list[j] = n

\* An allocated node is in the list or is the one being filled, never both.
HeapInv ==
  /\ \A j \in DOMAIN dn_list : dn_list[j] \in used
  /\ \A n \in used : InList(n) \/ (Building /\ n = entry)
  /\ Building => ~InList(entry)

Ordered ==
  \A j, k \in DOMAIN dn_list : j < k =>
    /\ content[dn_list[j]].addr # content[dn_list[k]].addr
    /\ content[dn_list[j]].id < content[dn_list[k]].id

\* A file's number is in one node at most, and the newest number is in the
\* node being filled once its address is copied.
IdInv ==
  /\ \A n \in Node : /\ content[n].id <= files
                     /\ down = "copyaddr" => content[n].id < files
  /\ \A j \in DOMAIN dn_list : /\ content[dn_list[j]].id >= 1
                               /\ Building => content[dn_list[j]].id < files
  /\ Building /\ down # "copyaddr" => content[entry].id = files
  /\ \A m, n \in Node : content[m].id = content[n].id /\ content[m].id >= 1 => m = n

\* Whatever is written to tmpstr in between, only an immediate file is dealt
\* with as immediate.
ModeInv ==
  /\ tmpstr = IMME => down \in {"copymode", "scanrest"} /\ file.mode = IMME
  /\ down = "scanrest" /\ content[entry].mode = IMME => file.mode = IMME
  /\ down \in {"keys", "frame", "enqueue"} => file.mode = IMME
  /\ down \in {"frame", "enqueue"} => content[entry].addr \in Text

Accepted(id) == \E k \in DOMAIN sent : sent[k].id = id

\* A number that was accepted is in a node the upstream thread is about to
\* remove, or in none that is still to be sent, except an immediate one.
SentInv ==
  /\ \A k \in DOMAIN sent : /\ sent[k].id <= files
                            /\ down = "copyaddr" => sent[k].id < files
  /\ \A j \in DOMAIN dn_list :
       Accepted(content[dn_list[j]].id) => up = "remove" /\ dnelem = dn_list[j]
  /\ Building /\ Accepted(files) => (up = "remove" /\ dnelem = entry) \/ entry \notin used
  /\ up \in {"frame", "enqueue"} /\ content[dnelem].id # 0 /\ Accepted(content[dnelem].id) =>
       taken[content[dnelem].id].mode = IMME

IInv ==
  /\ TypeOK /\ ThreadInv /\ HeapInv /\ size = Len(dn_list) /\ Ordered
  /\ IdInv /\ ModeInv /\ SentInv /\ AcceptedOnce

-----------------------------------------------------------------------------
(* What Kept keeps. *)

\* Every non-empty set of natural numbers has a least element.
LEMMA LeastNatural ==
  ASSUME NEW T \in SUBSET Nat, T # {}
  PROVE  \E n \in T : \A m \in T : n <= m
<1>1. IsWellFoundedOn(OpToRel(<, Nat), Nat)
  BY NatLessThanWellFounded
<1>2. PICK n \in T : \A m \in T : <<m, n>> \notin OpToRel(<, Nat)
  BY <1>1, WFMin
<1>3. \A m \in T : ~(m < n)
  BY <1>2 DEF OpToRel
<1> QED
  BY <1>3

\* The number of places grows by one at a place that holds a node of S, and
\* nowhere else.
LEMMA PlacesStep ==
  ASSUME NEW X, NEW l \in Seq(X), NEW S, NEW j \in Nat
  PROVE  /\ Cardinality(Places(l, S, j)) \in Nat
         /\ Cardinality(Places(l, S, j + 1)) =
              IF j + 1 \in DOMAIN l /\ l[j + 1] \in S
                THEN Cardinality(Places(l, S, j)) + 1 ELSE Cardinality(Places(l, S, j))
<1>1. IsFiniteSet(Places(l, S, j))
  <2>1. IsFiniteSet(1 .. j) /\ DOMAIN l = 1 .. Len(l) /\ Len(l) \in Nat
    BY FS_Interval
  <2>2. Places(l, S, j) \subseteq 1 .. j
    BY <2>1 DEF Places
  <2> QED
    BY <2>1, <2>2, FS_Subset
<1>2. Cardinality(Places(l, S, j)) \in Nat
  BY <1>1, FS_CardinalityType
<1>3. DOMAIN l \subseteq Nat
  OBVIOUS
<1>4. CASE j + 1 \in DOMAIN l /\ l[j + 1] \in S
  <2>1. Places(l, S, j + 1) = Places(l, S, j) \cup {j + 1}
    BY <1>3, <1>4 DEF Places
  <2>2. j + 1 \notin Places(l, S, j)
    BY DEF Places
  <2> QED
    BY <1>1, <1>2, <1>4, <2>1, <2>2, FS_AddElement
<1>5. CASE ~(j + 1 \in DOMAIN l /\ l[j + 1] \in S)
  <2>1. Places(l, S, j + 1) = Places(l, S, j)
    BY <1>3, <1>5 DEF Places
  <2> QED
    BY <1>2, <1>5, <2>1
<1> QED
  BY <1>4, <1>5

LEMMA PlacesGrow ==
  ASSUME NEW X, NEW l \in Seq(X), NEW S, NEW j \in Nat, NEW k \in Nat, j < k
  PROVE  /\ Cardinality(Places(l, S, j)) <= Cardinality(Places(l, S, k))
         /\ k \in DOMAIN l /\ l[k] \in S =>
              Cardinality(Places(l, S, j)) < Cardinality(Places(l, S, k))
<1> DEFINE C(m) == Cardinality(Places(l, S, m))
           T == {m \in Nat : m > j /\ C(m) < C(j)}
<1>1. \A m \in Nat : C(m) \in Nat /\ C(m + 1) \in {C(m), C(m) + 1}
  BY PlacesStep
<1>2. k \in DOMAIN l /\ l[k] \in S => C(k) = C(k - 1) + 1 /\ k - 1 \in Nat
  <2>1. k - 1 \in Nat /\ (k - 1) + 1 = k
    OBVIOUS
  <2> QED
    BY <2>1, PlacesStep
<1> HIDE DEF C
<1>3. T = {}
  <2> SUFFICES ASSUME T # {} PROVE FALSE
    OBVIOUS
  <2>1. PICK m \in T : \A n \in T : m <= n
    BY LeastNatural
  <2>2. m - 1 \in Nat /\ (m - 1) + 1 = m /\ m - 1 \notin T /\ m > j
    BY <2>1
  <2>3. C(m - 1) \in Nat /\ C(m) \in {C(m - 1), C(m - 1) + 1} /\ C(j) \in Nat /\ C(m) < C(j)
    <3>1. C((m - 1) + 1) \in {C(m - 1), C(m - 1) + 1}
      BY <1>1, <2>2
    <3> QED
      BY <1>1, <2>1, <2>2, <3>1
  <2>4. CASE m - 1 = j
    BY <2>3, <2>4
  <2>5. CASE m - 1 # j
    BY <2>2, <2>3, <2>5
  <2> QED
    BY <2>4, <2>5
<1>3a. \A m \in Nat : m > j => C(j) <= C(m)
  <2> SUFFICES ASSUME NEW m \in Nat, m > j, ~(C(j) <= C(m)) PROVE m \in T
    BY <1>3
  <2>1. C(m) \in Nat /\ C(j) \in Nat
    BY <1>1
  <2>2. C(m) < C(j)
    BY <2>1
  <2> QED
    BY <2>2
<1>4. C(j) <= C(k)
  BY <1>3a
<1>5. k \in DOMAIN l /\ l[k] \in S => C(j) < C(k)
  <2> SUFFICES ASSUME k \in DOMAIN l /\ l[k] \in S PROVE C(j) < C(k)
    OBVIOUS
  <2>1. C(k) = C(k - 1) + 1 /\ k - 1 \in Nat
    BY <1>2
  <2>2. C(j) <= C(k - 1)
    <3>1. k - 1 = j \/ k - 1 > j
      OBVIOUS
    <3>2. C(j) \in Nat
      BY <1>1
    <3> QED
      BY <1>3a, <2>1, <3>1, <3>2
  <2> QED
    BY <1>1, <2>1, <2>2
<1> QED
  BY <1>4, <1>5 DEF C

\* There is a place up to which k nodes of S stand, for every k there can be.
LEMMA PlaceOf ==
  ASSUME NEW X, NEW l \in Seq(X), NEW S, NEW k \in 1 .. Cardinality(Places(l, S, Len(l)))
  PROVE  \E j \in DOMAIN l : l[j] \in S /\ Cardinality(Places(l, S, j)) = k
<1> DEFINE C(m) == Cardinality(Places(l, S, m))
           T == {m \in Nat : C(m) >= k}
<1>1. Len(l) \in Nat /\ DOMAIN l = 1 .. Len(l)
  OBVIOUS
<1>2. k \in Nat /\ k >= 1 /\ C(Len(l)) \in Nat /\ C(Len(l)) >= k
  BY <1>1, PlacesStep
<1>3. PICK j \in T : \A m \in T : j <= m
  <2>1. Len(l) \in T
    BY <1>1, <1>2
  <2> HIDE DEF T
  <2>2. T \in SUBSET Nat
    BY DEF T
  <2> QED
    BY <2>1, <2>2, LeastNatural
<1>4. C(0) = 0
  <2>1. Places(l, S, 0) = {}
    BY <1>1 DEF Places
  <2> QED
    BY <2>1, FS_EmptySet
<1>5. j # 0
  BY <1>2, <1>3, <1>4
<1>6. j - 1 \in Nat /\ (j - 1) + 1 = j /\ j - 1 \notin T
  BY <1>3, <1>5
<1>7. C(j - 1) \in Nat /\ C(j - 1) < k
  BY <1>2, <1>6, PlacesStep
<1>8. C(j) = IF j \in DOMAIN l /\ l[j] \in S THEN C(j - 1) + 1 ELSE C(j - 1)
  <2>1. PICK m \in Nat : m = j - 1 /\ m + 1 = j
    BY <1>6
  <2>2. C(m + 1) = IF m + 1 \in DOMAIN l /\ l[m + 1] \in S THEN C(m) + 1 ELSE C(m)
    BY PlacesStep
  <2> HIDE DEF C
  <2> QED
    BY <2>1, <2>2
<1>9. C(j) >= k
  BY <1>3
<1> HIDE DEF C
<1>10. j \in DOMAIN l /\ l[j] \in S /\ C(j) = k
  BY <1>2, <1>7, <1>8, <1>9
<1> QED
  BY <1>10 DEF C

\* Kept takes the nodes of S, all of them and in their order.
LEMMA KeptPlaces ==
  ASSUME NEW X, NEW l \in Seq(X), NEW S
  PROVE  /\ Kept(l, S) \in Seq(X)
         /\ \E f \in [DOMAIN Kept(l, S) -> DOMAIN l] :
              /\ \A k \in DOMAIN Kept(l, S) : Kept(l, S)[k] = l[f[k]] /\ l[f[k]] \in S
              /\ \A j, k \in DOMAIN Kept(l, S) : j < k => f[j] < f[k]
              /\ \A m \in DOMAIN l : l[m] \in S => \E k \in DOMAIN Kept(l, S) : f[k] = m
<1> DEFINE C(m) == Cardinality(Places(l, S, m))
           N == C(Len(l))
           f == [k \in 1 .. N |-> CHOOSE j \in DOMAIN l : l[j] \in S /\ C(j) = k]
           q == Kept(l, S)
<1>1. Len(l) \in Nat /\ DOMAIN l = 1 .. Len(l) /\ \A m \in DOMAIN l : l[m] \in X
  OBVIOUS
<1>2. \A m \in Nat : C(m) \in Nat
  BY PlacesStep
<1>3. \A k \in 1 .. N : f[k] \in DOMAIN l /\ l[f[k]] \in S /\ C(f[k]) = k
  BY PlaceOf
<1>4. q = [k \in 1 .. N |-> l[f[k]]]
  BY DEF Kept
<1>5. DOMAIN q = 1 .. N /\ \A k \in 1 .. N : q[k] = l[f[k]]
  BY <1>4
<1>6. N \in Nat
  BY <1>1, <1>2
<1>7. \A j, k \in Nat : j < k => C(j) <= C(k) /\ (k \in DOMAIN l /\ l[k] \in S => C(j) < C(k))
  BY PlacesGrow
<1>8. f \in [1 .. N -> DOMAIN l]
  BY <1>3
<1> HIDE DEF C, N, f, q
<1>9. q \in Seq(X)
  <2>1. q \in [1 .. N -> X]
    BY <1>1, <1>3, <1>4
  <2> QED
    BY <1>6, <2>1
<1>10. \A j, k \in 1 .. N : j < k => f[j] < f[k]
  <2> SUFFICES ASSUME NEW j \in 1 .. N, NEW k \in 1 .. N, j < k, ~(f[j] < f[k])
               PROVE  FALSE
    OBVIOUS
  <2>1. f[j] \in Nat /\ f[k] \in Nat /\ C(f[j]) = j /\ C(f[k]) = k
    BY <1>1, <1>3
  <2>2. f[k] = f[j] \/ f[k] < f[j]
    BY <2>1
  <2>3. C(f[k]) <= C(f[j])
    <3>1. CASE f[k] = f[j]
      BY <2>1, <3>1
    <3>2. CASE f[k] < f[j]
      BY <1>7, <2>1, <3>2
    <3> QED
      BY <2>2, <3>1, <3>2
  <2> QED
    BY <1>6, <2>1, <2>3
<1>11. ASSUME NEW m \in DOMAIN l, l[m] \in S
       PROVE  \E k \in 1 .. N : f[k] = m
  <2>1. m \in Nat /\ m - 1 \in Nat /\ m - 1 < m /\ m <= Len(l)
    BY <1>1
  <2>2. C(m) \in Nat /\ C(m - 1) < C(m) /\ C(m - 1) \in Nat
    BY <1>2, <1>7, <1>11, <2>1
  <2>3. C(m) <= N
    BY <1>1, <1>2, <1>7, <2>1 DEF N
  <2>4. C(m) \in 1 .. N
    BY <1>6, <2>2, <2>3
  <2>5. f[C(m)] \in DOMAIN l /\ l[f[C(m)]] \in S /\ C(f[C(m)]) = C(m)
    BY <1>3, <2>4
  <2>6. f[C(m)] = m
    <3>1. f[C(m)] \in Nat
      BY <1>1, <2>5
    <3>2. ~(f[C(m)] < m) /\ ~(m < f[C(m)])
      BY <1>7, <1>11, <2>1, <2>2, <2>5, <3>1
    <3> QED
      BY <2>1, <3>1, <3>2
  <2> QED
    BY <2>4, <2>6
<1>12. /\ q \in Seq(X)
       /\ \E g \in [DOMAIN q -> DOMAIN l] :
            /\ \A k \in DOMAIN q : q[k] = l[g[k]] /\ l[g[k]] \in S
            /\ \A j, k \in DOMAIN q : j < k => g[j] < g[k]
            /\ \A m \in DOMAIN l : l[m] \in S => \E k \in DOMAIN q : g[k] = m
  <2>1. f \in [DOMAIN q -> DOMAIN l]
    BY <1>5, <1>8
  <2>2. \A k \in DOMAIN q : q[k] = l[f[k]] /\ l[f[k]] \in S
    BY <1>3, <1>5
  <2>3. \A j, k \in DOMAIN q : j < k => f[j] < f[k]
    BY <1>5, <1>10
  <2>4. \A m \in DOMAIN l : l[m] \in S => \E k \in DOMAIN q : f[k] = m
    BY <1>5, <1>11
  <2> QED
    BY <1>9, <2>1, <2>2, <2>3, <2>4
<1> QED
  BY <1>12 DEF q

\* q has entries of l in the order of l.
SubList(q, l) ==
  \E f \in [DOMAIN q -> DOMAIN l] :
    /\ \A k \in DOMAIN q : q[k] = l[f[k]]
    /\ \A j, k \in DOMAIN q : j < k => f[j] < f[k]

LEMMA KeptSubList ==
  ASSUME NEW X, NEW l \in Seq(X), NEW S
  PROVE  /\ Kept(l, S) \in Seq(X)
         /\ SubList(Kept(l, S), l)
         /\ ToSet(Kept(l, S)) = ToSet(l) \cap S
<1>1. PICK f \in [DOMAIN Kept(l, S) -> DOMAIN l] :
        /\ \A k \in DOMAIN Kept(l, S) : Kept(l, S)[k] = l[f[k]] /\ l[f[k]] \in S
        /\ \A j, k \in DOMAIN Kept(l, S) : j < k => f[j] < f[k]
        /\ \A m \in DOMAIN l : l[m] \in S => \E k \in DOMAIN Kept(l, S) : f[k] = m
  BY KeptPlaces
<1>2. SubList(Kept(l, S), l)
  BY <1>1 DEF SubList
<1>3. ToSet(Kept(l, S)) = ToSet(l) \cap S
  BY <1>1 DEF ToSet
<1> QED
  BY KeptPlaces, <1>2, <1>3

LEMMA TailSubList ==
  ASSUME NEW X, NEW l \in Seq(X), l # <<>>
  PROVE  Tail(l) \in Seq(X) /\ Len(Tail(l)) = Len(l) - 1 /\ SubList(Tail(l), l)
<1>1. /\ Tail(l) \in Seq(X) /\ Len(l) \in Nat \ {0} /\ Len(Tail(l)) = Len(l) - 1
      /\ DOMAIN l = 1 .. Len(l) /\ DOMAIN Tail(l) = 1 .. (Len(l) - 1)
      /\ \A k \in 1 .. (Len(l) - 1) : Tail(l)[k] = l[k + 1]
  OBVIOUS
<1>2. [k \in DOMAIN Tail(l) |-> k + 1] \in [DOMAIN Tail(l) -> DOMAIN l]
  BY <1>1
<1>3. \A k \in DOMAIN Tail(l) : [m \in DOMAIN Tail(l) |-> m + 1][k] = k + 1
  OBVIOUS
<1>4. SubList(Tail(l), l)
  <2> DEFINE f == [m \in DOMAIN Tail(l) |-> m + 1]
  <2>1. \A k \in DOMAIN Tail(l) : Tail(l)[k] = l[f[k]]
    BY <1>1
  <2>2. \A j, k \in DOMAIN Tail(l) : j < k => f[j] < f[k]
    BY <1>1
  <2> QED
    BY <1>2, <2>1, <2>2 DEF SubList
<1> QED
  BY <1>1, <1>4

LEMMA SubListTransitive ==
  ASSUME NEW p, NEW q, NEW l, SubList(p, q), SubList(q, l)
  PROVE  SubList(p, l)
<1>1. PICK f \in [DOMAIN p -> DOMAIN q] :
        /\ \A k \in DOMAIN p : p[k] = q[f[k]]
        /\ \A j, k \in DOMAIN p : j < k => f[j] < f[k]
  BY DEF SubList
<1>2. PICK g \in [DOMAIN q -> DOMAIN l] :
        /\ \A k \in DOMAIN q : q[k] = l[g[k]]
        /\ \A j, k \in DOMAIN q : j < k => g[j] < g[k]
  BY DEF SubList
<1> DEFINE h == [k \in DOMAIN p |-> g[f[k]]]
<1>3. h \in [DOMAIN p -> DOMAIN l]
  BY <1>1, <1>2
<1>4. \A k \in DOMAIN p : p[k] = l[h[k]]
  BY <1>1, <1>2
<1>5. \A j, k \in DOMAIN p : j < k => h[j] < h[k]
  BY <1>1, <1>2
<1> QED
  BY <1>3, <1>4, <1>5 DEF SubList

Distinct(l) == \A j, k \in DOMAIN l : l[j] = l[k] => j = k

\* A list without repetitions has as many entries as elements.
LEMMA DistinctLength ==
  ASSUME NEW X, NEW l \in Seq(X), Distinct(l)
  PROVE  IsFiniteSet(ToSet(l)) /\ Cardinality(ToSet(l)) = Len(l)
<1>1. Len(l) \in Nat /\ DOMAIN l = 1 .. Len(l)
  OBVIOUS
<1>2. l \in [1 .. Len(l) -> ToSet(l)]
  BY <1>1 DEF ToSet
<1>3. l \in Bijection(1 .. Len(l), ToSet(l))
  BY <1>1, <1>2 DEF Bijection, Injection, Surjection, IsInjective, Distinct, ToSet
<1>4. ExistsBijection(1 .. Len(l), ToSet(l))
  BY <1>3 DEF ExistsBijection
<1> QED
  BY <1>1, <1>4, FS_CountingElements, FS_NatBijection

\* What a sublist lacks is counted by the difference of the lengths.
LEMMA SubListLength ==
  ASSUME NEW X, NEW l \in Seq(X), NEW q \in Seq(X), Distinct(l), SubList(q, l)
  PROVE  /\ Distinct(q)
         /\ ToSet(q) \subseteq ToSet(l)
         /\ Len(l) \in Nat /\ Len(q) \in Nat
         /\ Cardinality(ToSet(l) \ ToSet(q)) \in Nat
         /\ Len(q) + Cardinality(ToSet(l) \ ToSet(q)) = Len(l)
<1>1. PICK f \in [DOMAIN q -> DOMAIN l] :
        /\ \A k \in DOMAIN q : q[k] = l[f[k]]
        /\ \A j, k \in DOMAIN q : j < k => f[j] < f[k]
  BY DEF SubList
<1>2. /\ Len(l) \in Nat /\ DOMAIN l = 1 .. Len(l)
      /\ Len(q) \in Nat /\ DOMAIN q = 1 .. Len(q)
  OBVIOUS
<1>3. ASSUME NEW j \in DOMAIN q, NEW k \in DOMAIN q, q[j] = q[k]
      PROVE  j = k
  <2>1. f[j] = f[k] /\ f[j] \in Nat
    BY <1>1, <1>2, <1>3 DEF Distinct
  <2>2. ~(j < k) /\ ~(k < j)
    BY <1>1, <2>1
  <2> QED
    BY <1>2, <2>2
<1>4. Distinct(q)
  BY <1>3 DEF Distinct
<1>5. ToSet(q) \subseteq ToSet(l)
  BY <1>1 DEF ToSet
<1>6. /\ IsFiniteSet(ToSet(l)) /\ Cardinality(ToSet(l)) = Len(l)
      /\ Cardinality(ToSet(q)) = Len(q)
  BY <1>4, DistinctLength
<1>7. ToSet(l) \cap ToSet(q) = ToSet(q)
  BY <1>5
<1>8. /\ Cardinality(ToSet(l) \ ToSet(q)) = Cardinality(ToSet(l)) - Cardinality(ToSet(q))
      /\ IsFiniteSet(ToSet(l) \ ToSet(q))
  <2>1. /\ IsFiniteSet(ToSet(l) \ ToSet(q))
        /\ Cardinality(ToSet(l) \ ToSet(q)) =
             Cardinality(ToSet(l)) - Cardinality(ToSet(l) \cap ToSet(q))
    BY <1>6, FS_Difference
  <2> QED
    BY <1>7, <2>1
<1>9. Cardinality(ToSet(l) \ ToSet(q)) \in Nat
  BY <1>8, FS_CardinalityType
<1> QED
  BY <1>2, <1>4, <1>5, <1>6, <1>8, <1>9

-----------------------------------------------------------------------------
(* The list when a node leaves it and when one comes. *)

LEMMA BoundedSeqs ==
  ASSUME NEW S, NEW n \in Nat, NEW s
  PROVE  s \in BoundedSeq(S, n) <=> s \in Seq(S) /\ Len(s) <= n
<1>1. ASSUME s \in BoundedSeq(S, n) PROVE s \in Seq(S) /\ Len(s) <= n
  <2>1. PICK m \in 0 .. n : s \in [1 .. m -> S]
    BY <1>1 DEF BoundedSeq, SeqOf
  <2> QED
    BY <2>1
<1>2. ASSUME s \in Seq(S), Len(s) <= n PROVE s \in BoundedSeq(S, n)
  <2>1. Len(s) \in 0 .. n /\ s \in [1 .. Len(s) -> S]
    BY <1>2
  <2> QED
    BY <2>1 DEF BoundedSeq, SeqOf
<1> QED
  BY <1>1, <1>2

LEMMA EmptyBounded ==
  ASSUME NEW S, NEW n \in Nat
  PROVE  <<>> \in BoundedSeq(S, n)
<1>1. <<>> \in Seq(S) /\ Len(<<>>) <= n
  OBVIOUS
<1> QED
  BY <1>1, BoundedSeqs

LEMMA AppendTypes ==
  ASSUME NEW S, NEW s \in Seq(S), NEW e \in S
  PROVE  /\ Append(s, e) \in Seq(S) /\ Len(Append(s, e)) = Len(s) + 1 /\ Len(s) \in Nat
         /\ DOMAIN s = 1 .. Len(s) /\ DOMAIN Append(s, e) = 1 .. (Len(s) + 1)
         /\ \A k \in 1 .. Len(s) : Append(s, e)[k] = s[k]
         /\ Append(s, e)[Len(s) + 1] = e
<1> QED
  OBVIOUS

LEMMA ElementsTypes ==
  ASSUME NEW S, NEW s \in Seq(S)
  PROVE  \A k \in DOMAIN s : s[k] \in S
<1> QED
  OBVIOUS

LEMMA ListTypes ==
  ASSUME TypeOK
  PROVE  /\ dn_list \in Seq(Node) /\ Len(dn_list) \in Nat /\ Len(dn_list) <= LIMIT + 1
         /\ DOMAIN dn_list = 1 .. Len(dn_list)
         /\ \A j \in DOMAIN dn_list : dn_list[j] \in Node
         /\ LIMIT \in Nat
<1>1. LIMIT \in Nat /\ LIMIT + 1 \in Nat
  BY CustomAssumption
<1>2. dn_list \in Seq(Node) /\ Len(dn_list) <= LIMIT + 1
  BY <1>1, BoundedSeqs DEF TypeOK
<1> QED
  BY <1>1, <1>2

LEMMA OrderedDistinct ==
  ASSUME TypeOK, Ordered
  PROVE  Distinct(dn_list)
<1> SUFFICES ASSUME NEW j \in DOMAIN dn_list, NEW k \in DOMAIN dn_list,
                    dn_list[j] = dn_list[k], j # k
             PROVE  FALSE
  BY DEF Distinct
<1>1. j < k \/ k < j
  BY ListTypes
<1> QED
  BY <1>1 DEF Ordered

\* Nothing but the node sent leaves the list, and the size follows.
LEMMA ListRemoveSent ==
  ASSUME TypeOK, Ordered, size = Len(dn_list), RemoveSent
  PROVE  /\ dn_list' \in Seq(Node) /\ SubList(dn_list', dn_list)
         /\ ToSet(dn_list') = ToSet(dn_list) \ {dnelem}
         /\ size' = Len(dn_list') /\ Len(dn_list') <= Len(dn_list)
<1>1. dn_list \in Seq(Node) /\ Distinct(dn_list) /\ ToSet(dn_list) \subseteq Node
  BY ListTypes, OrderedDistinct DEF ToSet
<1>2. dn_list' = Kept(dn_list, Node \ {dnelem})
  BY DEF RemoveSent, Removed
<1>3. /\ dn_list' \in Seq(Node) /\ SubList(dn_list', dn_list)
      /\ ToSet(dn_list') = ToSet(dn_list) \cap (Node \ {dnelem})
  BY <1>1, <1>2, KeptSubList
<1>4. ToSet(dn_list') = ToSet(dn_list) \ {dnelem}
  BY <1>1, <1>3
<1>5. /\ Len(dn_list) \in Nat /\ Len(dn_list') \in Nat
      /\ Cardinality(ToSet(dn_list) \ ToSet(dn_list')) \in Nat
      /\ Len(dn_list') + Cardinality(ToSet(dn_list) \ ToSet(dn_list')) = Len(dn_list)
  BY <1>1, <1>3, SubListLength
<1>6. CASE dnelem \in ToSet(dn_list)
  <2>1. ToSet(dn_list) \ ToSet(dn_list') = {dnelem}
    BY <1>4, <1>6
  <2>2. Cardinality(ToSet(dn_list) \ ToSet(dn_list')) = 1
    BY <2>1, FS_Singleton
  <2>3. Contains(dn_list, dnelem)
    BY <1>6 DEF Contains, ToSet
  <2>4. size' = size - 1
    BY <2>3 DEF RemoveSent
  <2> QED
    BY <1>3, <1>4, <1>5, <2>2, <2>4
<1>7. CASE dnelem \notin ToSet(dn_list)
  <2>1. ToSet(dn_list) \ ToSet(dn_list') = {}
    BY <1>4, <1>7
  <2>2. Cardinality(ToSet(dn_list) \ ToSet(dn_list')) = 0
    BY <2>1, FS_EmptySet
  <2>3. ~Contains(dn_list, dnelem)
    BY <1>7 DEF Contains, ToSet
  <2>4. size' = size
    BY <2>3 DEF RemoveSent
  <2> QED
    BY <1>3, <1>4, <1>5, <2>2, <2>4
<1> QED
  BY <1>6, <1>7

\* The new node is behind what the list keeps, which is shorter than LIMIT + 1
\* and free of its address; the others are freed.
LEMMA ListInsert ==
  ASSUME TypeOK, Ordered, size = Len(dn_list), Insert
  PROVE  \E kept \in Seq(Node) :
           /\ dn_list' = Append(kept, entry) /\ size' = Len(kept) + 1
           /\ SubList(kept, dn_list) /\ Len(kept) <= LIMIT
           /\ used' = used \ (ToSet(dn_list) \ ToSet(kept))
           /\ \A k \in DOMAIN kept : content[kept[k]].addr # content[entry].addr
<1> DEFINE rest == IF Full /\ dn_list # <<>> THEN Tail(dn_list) ELSE dn_list
           S == {n \in Node : content[n].addr # content[entry].addr}
           kept == Kept(rest, S)
           gone == ToSet(dn_list) \ ToSet(kept)
<1>1. /\ dn_list \in Seq(Node) /\ Len(dn_list) \in Nat /\ Len(dn_list) <= LIMIT + 1
      /\ LIMIT \in Nat /\ Distinct(dn_list)
  BY ListTypes, OrderedDistinct
<1>2. rest \in Seq(Node) /\ SubList(rest, dn_list) /\ Len(rest) <= LIMIT
  <2>1. CASE Full /\ dn_list # <<>>
    BY <1>1, <2>1, TailSubList
  <2>2. CASE ~(Full /\ dn_list # <<>>)
    <3>1. Len(dn_list) <= LIMIT
      <4>1. CASE ~Full
        BY <1>1, <4>1 DEF Full
      <4>2. CASE dn_list = <<>>
        BY <1>1, <4>2
      <4> QED
        BY <2>2, <4>1, <4>2
    <3>2. SubList(dn_list, dn_list)
      <4>1. [k \in DOMAIN dn_list |-> k] \in [DOMAIN dn_list -> DOMAIN dn_list]
        OBVIOUS
      <4> QED
        BY <4>1 DEF SubList
    <3> QED
      BY <1>1, <2>2, <3>1, <3>2
  <2> QED
    BY <2>1, <2>2
<1> HIDE DEF rest
<1>3. kept \in Seq(Node) /\ SubList(kept, rest) /\ ToSet(kept) = ToSet(rest) \cap S
  BY <1>2, KeptSubList
<1>4. Distinct(rest) /\ ToSet(rest) \subseteq Node
  <2>1. Distinct(rest)
    BY <1>1, <1>2, SubListLength
  <2>2. \A k \in DOMAIN rest : rest[k] \in Node
    BY <1>2
  <2> QED
    BY <2>1, <2>2 DEF ToSet
<1>5. Len(kept) \in Nat /\ Len(kept) <= LIMIT
  <2>1. /\ Len(rest) \in Nat /\ Len(kept) \in Nat
        /\ Cardinality(ToSet(rest) \ ToSet(kept)) \in Nat
        /\ Len(kept) + Cardinality(ToSet(rest) \ ToSet(kept)) = Len(rest)
    BY <1>2, <1>3, <1>4, SubListLength
  <2> QED
    BY <1>1, <1>2, <2>1
<1>6. SubList(kept, dn_list)
  BY <1>2, <1>3, SubListTransitive
<1>7. Cardinality(gone) \in Nat /\ Len(kept) + Cardinality(gone) = Len(dn_list)
  BY <1>1, <1>3, <1>6, SubListLength
<1>8. \A k \in DOMAIN kept : content[kept[k]].addr # content[entry].addr
  <2>1. \A k \in DOMAIN kept : kept[k] \in S
    BY <1>3 DEF ToSet
  <2> QED
    BY <2>1
<1>9. /\ dn_list' = Append(kept, entry) /\ size' = size - Cardinality(gone) + 1
      /\ used' = used \ gone
  BY DEF Insert, Older, rest
<1>10. size' = Len(kept) + 1
  BY <1>1, <1>5, <1>7, <1>9
<1> HIDE DEF kept
<1> QED
  BY <1>3, <1>5, <1>6, <1>8, <1>9, <1>10

-----------------------------------------------------------------------------
(* The invariant, part by part. *)

LEMMA Constants ==
  /\ IMME \notin Text /\ IMME # TIME /\ IMME # FIELD
  /\ \A d \in Dev : Upper(d) \in Text
  /\ \A t \in Text : t[1] \in Dev
  /\ Text \subseteq Field /\ {TIME, IMME, FIELD} \subseteq Field
  /\ NULL \notin Node /\ NULL \notin File
  /\ \A f \in File : f.addr \in Text /\ f.mode \in {TIME, IMME}
<1> QED
  BY CustomAssumption DEF Text, Upper, Field, File

LEMMA LoadTypes ==
  ASSUME TypeOK
  PROVE  /\ load.files \in Nat /\ load.batches \in Nat /\ load.size \in Nat
         /\ load.kinds \subseteq File
<1> QED
  BY CustomAssumption DEF TypeOK

LEMMA InitInv == Init => IInv
<1> SUFFICES ASSUME Init PROVE IInv
  OBVIOUS
<1>1. /\ load.files \in Nat /\ load.batches \in Nat /\ load.size \in Nat /\ LIMIT \in Nat
  BY CustomAssumption DEF Init
<1>2. TypeOK
  <2>1. <<>> \in BoundedSeq(Packet, load.size) /\ <<>> \in BoundedSeq(Node, LIMIT + 1)
    <3>1. LIMIT + 1 \in Nat
      BY <1>1
    <3> QED
      BY <1>1, <3>1, EmptyBounded
  <2>2. taken \in [1 .. files -> File]
    BY DEF Init
  <2>3. sent \in Seq([id : 0 .. load.files, dev : Dev])
    BY DEF Init
  <2>4. content \in [Node -> [id : 0 .. load.files, addr : Field, mode : Field]]
    BY <1>1 DEF Init, Zeroed, Field
  <2>5. /\ i \in 0 .. load.size + 1 /\ size \in 0 .. LIMIT + 1 /\ tmpstr \in Field
        /\ files \in 0 .. load.files /\ batches \in 0 .. load.batches
        /\ sema \in Nat /\ used \subseteq Node
    BY <1>1 DEF Init, Field
  <2>6. /\ batch \in BoundedSeq(Packet, load.size) /\ pending \in BoundedSeq(Packet, load.size)
        /\ dn_list \in BoundedSeq(Node, LIMIT + 1)
    BY <2>1 DEF Init
  <2>7. /\ up = "wait" /\ down = "dir" /\ main = "run" /\ devinfo = NULL /\ dnelem = NULL
        /\ file = NULL /\ entry = NULL /\ stop_sig = FALSE /\ undefined = FALSE
        /\ load \in Loads
    BY DEF Init
  <2> QED
    BY <2>2, <2>3, <2>4, <2>5, <2>6, <2>7 DEF TypeOK
<1>3. ThreadInv /\ HeapInv /\ size = Len(dn_list) /\ Ordered
  BY DEF Init, ThreadInv, HeapInv, Ordered, Building, Holding, InList
<1>4. IdInv
  BY DEF Init, Zeroed, IdInv, Building
<1>5. ModeInv
  BY Constants DEF Init, ModeInv
<1>6. SentInv /\ AcceptedOnce
  BY DEF Init, SentInv, AcceptedOnce, Accepted, Building
<1> QED
  BY <1>2, <1>3, <1>4, <1>5, <1>6 DEF IInv

\* What a step of the upstream thread changes.
LEMMA UpTypes ==
  ASSUME TypeOK,
         UNCHANGED <<downvars, mainvars, sema, input, lists, heap, undefined, load, files,
                     history>>,
         up' \in {"wait", "packet", "search", "frame", "enqueue", "remove", "end"},
         batch' \in BoundedSeq(Packet, load.size), i' \in 0 .. load.size + 1,
         devinfo' \in Dev \cup {NULL}, dnelem' \in Node \cup {NULL}, tmpstr' \in Field
  PROVE  TypeOK'
<1> USE DEF downvars, mainvars, lists, heap, input, history
<1>1. UNCHANGED <<down, file, entry, main, stop_sig, sema, pending, dn_list, size, used,
                  content, undefined, load, files, batches, taken, sent>>
  OBVIOUS
<1> QED
  BY <1>1 DEF TypeOK

\* What a step of the downstream thread changes.
LEMMA DownTypes ==
  ASSUME TypeOK,
         UNCHANGED <<upvars, mainvars, sema, input, lists, undefined, load, files, history>>,
         down' \in {"dir", "copyaddr", "scanmode", "copymode", "scanrest", "keys", "frame",
                    "enqueue", "insert", "end"},
         file' \in File \cup {NULL}, entry' \in Node \cup {NULL}, used' \subseteq Node,
         content' \in [Node -> [id : 0 .. load.files, addr : Field, mode : Field]],
         tmpstr' \in Field
  PROVE  TypeOK'
<1> USE DEF upvars, mainvars, lists, input, history
<1>1. UNCHANGED <<up, batch, i, devinfo, dnelem, main, stop_sig, sema, pending, dn_list, size,
                  undefined, load, files, batches, taken, sent>>
  OBVIOUS
<1> QED
  BY <1>1 DEF TypeOK

LEMMA TypeStep ==
  ASSUME IInv, Next
  PROVE  TypeOK'
<1> USE DEF upvars, downvars, mainvars, lists, heap, input, history
<1>1. /\ load.files \in Nat /\ load.batches \in Nat /\ load.size \in Nat
      /\ load.kinds \subseteq File /\ LIMIT \in Nat /\ load' = load
      /\ TypeOK /\ ThreadInv /\ FIELD \in Field
  <2>1. load' = load
    BY DEF Next, Uplink, Up, Wake, DealUp, Search, Frame, Enqueue, RemoveSent, Down,
           TakeFile, CopyAddr, ScanMode, CopyMode, ScanRest, Keys, ImmediateFrame,
           ImmediateEnqueue, Insert, EndDir, UseFreed, Stop, Join
  <2> QED
    BY <2>1, CustomAssumption, LoadTypes DEF IInv, Field
<1>0. \A s : s \in BoundedSeq(Packet, load.size) <=>
              s \in Seq(Packet) /\ Len(s) <= load.size
  BY <1>1, BoundedSeqs
<1>2. CASE Uplink
  <2>1. pending' \in BoundedSeq(Packet, load.size)
    <3>1. PICK n \in 1 .. load.size : pending' \in [1 .. n -> Packet]
      BY <1>2 DEF Uplink
    <3> QED
      BY <1>0, <1>1, <3>1
  <2>2. batches' \in 0 .. load.batches /\ sema' \in Nat
    BY <1>1, <1>2 DEF Uplink, TypeOK
  <2>3. UNCHANGED <<upvars, downvars, mainvars, lists, heap, tmpstr, undefined, load, files,
                    history>>
    BY <1>2 DEF Uplink
  <2> QED
    BY <1>1, <2>1, <2>2, <2>3 DEF TypeOK
<1>3. CASE Wake
  <2>1. <<>> \in BoundedSeq(Packet, load.size)
    BY <1>1, EmptyBounded
  <2> QED
    BY <1>1, <1>3, <2>1 DEF Wake, TypeOK, Loop
<1>4. CASE DealUp
  <2>1. <<>> \in BoundedSeq(Packet, load.size)
    BY <1>1, EmptyBounded
  <2>2. batch \in Seq(Packet) /\ Len(batch) <= load.size /\ i \in Nat
    BY <1>0, <1>1 DEF TypeOK
  <2>3. ASSUME i < Len(batch)
        PROVE  /\ batch[i + 1] \in Packet /\ i + 1 \in 0 .. load.size + 1
               /\ i \in 0 .. load.size + 1 /\ 1 <= load.size
    BY <1>1, <2>2, <2>3
  <2>4. ASSUME i < Len(batch)
        PROVE  /\ Decoded(batch[i + 1]) \subseteq 0 .. load.size + 1
               /\ batch[i + 1].dev \in Dev /\ Upper(batch[i + 1].dev) \in Field
    BY <1>1, <2>3, <2>4, Constants DEF Decoded, Packet
  <2>5. /\ batch' \in BoundedSeq(Packet, load.size) /\ i' \in 0 .. load.size + 1
        /\ devinfo' \in Dev \cup {NULL} /\ tmpstr' \in Field
        /\ up' \in {"wait", "end", "packet", "search"}
    <3>1. /\ batch \in BoundedSeq(Packet, load.size) /\ devinfo \in Dev \cup {NULL}
          /\ tmpstr \in Field
      BY <1>1 DEF TypeOK
    <3>2. CASE i >= Len(batch) /\ batch' = <<>> /\ i' = 0 /\ up' = Loop("wait")
               /\ UNCHANGED <<devinfo, tmpstr>>
      BY <1>1, <2>1, <3>1, <3>2 DEF Loop
    <3>3. CASE i < Len(batch) /\ i' = i + 1 /\ UNCHANGED <<up, batch, devinfo, tmpstr>>
      BY <1>4, <2>3, <3>1, <3>3 DEF DealUp
    <3>4. CASE /\ i < Len(batch) /\ i' \in Decoded(batch[i + 1])
               /\ devinfo' = batch[i + 1].dev /\ tmpstr' = Upper(batch[i + 1].dev)
               /\ up' = "search" /\ UNCHANGED batch
      BY <2>4, <3>1, <3>4
    <3> QED
      BY <1>4, <3>2, <3>3, <3>4 DEF DealUp
  <2>6. /\ dnelem' \in Node \cup {NULL}
        /\ UNCHANGED <<downvars, mainvars, sema, input, lists, heap, undefined, load, files,
                       history>>
    BY <1>1, <1>4 DEF DealUp, TypeOK
  <2> QED
    BY <1>1, <2>5, <2>6, UpTypes
<1>5. ASSUME NextPacket, i <= load.size PROVE i' \in 0 .. load.size + 1
  BY <1>1, <1>5 DEF TypeOK, NextPacket
<1>6. CASE Search
  <2>1. \A j \in DOMAIN dn_list : dn_list[j] \in Node
    BY <1>1, ListTypes
  <2>2. i' \in 0 .. load.size + 1
    <3>1. i \in 0 .. load.size + 1 /\ i <= load.size
      BY <1>1, <1>6 DEF Search, TypeOK, ThreadInv
    <3> QED
      BY <1>5, <1>6, <3>1 DEF Search
  <2>3. /\ up' \in {"frame", "packet"} /\ dnelem' \in Node \cup {NULL}
        /\ devinfo' \in Dev \cup {NULL}
    BY <1>1, <1>6, <2>1 DEF Search, NextPacket, TypeOK
  <2>4. /\ batch' \in BoundedSeq(Packet, load.size) /\ tmpstr' \in Field
        /\ UNCHANGED <<downvars, mainvars, sema, input, lists, heap, undefined, load, files,
                       history>>
    BY <1>1, <1>6 DEF Search, TypeOK
  <2> QED
    BY <1>1, <2>2, <2>3, <2>4, UpTypes
<1>7. CASE Frame
  <2>1. /\ batch' \in BoundedSeq(Packet, load.size) /\ i' \in 0 .. load.size + 1
        /\ devinfo' \in Dev \cup {NULL} /\ dnelem' \in Node \cup {NULL}
        /\ tmpstr' \in Field /\ up' = "enqueue"
    BY <1>1, <1>7 DEF Frame, TypeOK
  <2>2. UNCHANGED <<downvars, mainvars, sema, input, lists, heap, undefined, load, files,
                      history>>
    BY <1>7 DEF Frame
  <2> QED
    BY <1>1, <2>1, <2>2, UpTypes
<1>8. CASE Enqueue
  <2>1. [id |-> content[dnelem].id, dev |-> devinfo] \in [id : 0 .. load.files, dev : Dev]
    BY <1>1, <1>8 DEF Enqueue, TypeOK, ThreadInv, Holding
  <2>2. sent' \in Seq([id : 0 .. load.files, dev : Dev])
    <3>1. sent \in Seq([id : 0 .. load.files, dev : Dev])
      BY <1>1 DEF TypeOK
    <3>2. Append(sent, [id |-> content[dnelem].id, dev |-> devinfo])
            \in Seq([id : 0 .. load.files, dev : Dev])
      BY <2>1, <3>1, AppendTypes
    <3> QED
      BY <1>8, <3>1, <3>2 DEF Enqueue, Accept
  <2> QED
    BY <1>1, <1>5, <1>8, <2>2 DEF Enqueue, NextPacket, TypeOK, ThreadInv
<1>9. CASE RemoveSent
  <2>1. dn_list' \in BoundedSeq(Node, LIMIT + 1) /\ size' \in 0 .. LIMIT + 1
    <3>1. dn_list' \in Seq(Node) /\ size' = Len(dn_list') /\ Len(dn_list') <= Len(dn_list)
      BY <1>9, ListRemoveSent DEF IInv
    <3>2. Len(dn_list') \in Nat /\ Len(dn_list') <= LIMIT + 1 /\ LIMIT + 1 \in Nat
      BY <1>1, <3>1, ListTypes
    <3> QED
      BY <3>1, <3>2, BoundedSeqs
  <2> QED
    BY <1>1, <1>5, <1>9, <2>1 DEF RemoveSent, NextPacket, TypeOK, ThreadInv
<1>10. CASE TakeFile
  <2>1. files' \in 0 .. load.files /\ files \in Nat /\ files' = files + 1
    BY <1>1, <1>10 DEF TakeFile, TypeOK
  <2>2. PICK f \in load.kinds :
          /\ taken' = Append(taken, f)
          /\ \/ UNCHANGED <<downvars, used, content, tmpstr>>
             \/ \E n \in Node \ used :
                  /\ used' = used \cup {n} /\ content' = [content EXCEPT ![n] = Zeroed]
                  /\ entry' = n /\ file' = f /\ tmpstr' = f.addr /\ down' = "copyaddr"
    BY <1>10 DEF TakeFile
  <2>3. f \in File /\ f.addr \in Field
    BY <1>1, <2>2, Constants
  <2>4. taken' \in [1 .. files' -> File]
    <3>1. taken \in Seq(File) /\ Len(taken) = files
      BY <1>1, <2>1 DEF TypeOK
    <3>2. Append(taken, f) \in Seq(File) /\ Len(Append(taken, f)) = files + 1
      BY <2>3, <3>1
    <3>3. taken' \in Seq(File) /\ Len(taken') = files'
      BY <2>1, <2>2, <3>2
    <3> QED
      BY <3>3
  <2>5. /\ down' \in {"dir", "copyaddr"} /\ file' \in File \cup {NULL} /\ tmpstr' \in Field
        /\ entry' \in Node \cup {NULL} /\ used' \subseteq Node
    BY <1>1, <1>10, <2>2, <2>3 DEF TakeFile, TypeOK
  <2>6. UNCHANGED <<upvars, mainvars, sema, input, lists, undefined, load, sent>>
    BY <1>10 DEF TakeFile
  <2>7. content' \in [Node -> [id : 0 .. load.files, addr : Field, mode : Field]]
    <3>1. Zeroed \in [id : 0 .. load.files, addr : Field, mode : Field]
      BY <1>1 DEF Zeroed
    <3> QED
      BY <1>1, <2>2, <3>1 DEF TypeOK
  <2> QED
    BY <1>1, <2>1, <2>4, <2>5, <2>6, <2>7 DEF TypeOK
<1>11. CASE CopyAddr
  <2>1. /\ content' \in [Node -> [id : 0 .. load.files, addr : Field, mode : Field]]
        /\ file' \in File \cup {NULL} /\ entry' \in Node \cup {NULL} /\ used' \subseteq Node
        /\ tmpstr' \in Field /\ down' = "scanmode"
    BY <1>1, <1>11 DEF CopyAddr, TypeOK
  <2>2. UNCHANGED <<upvars, mainvars, sema, input, lists, undefined, load, files, history>>
    BY <1>11 DEF CopyAddr
  <2> QED
    BY <1>1, <2>1, <2>2, DownTypes
<1>12. CASE ScanMode
  <2>1. file.mode \in Field
    BY <1>1, <1>12, Constants DEF ScanMode, ThreadInv, Building
  <2>2. /\ content' \in [Node -> [id : 0 .. load.files, addr : Field, mode : Field]]
        /\ file' \in File \cup {NULL} /\ entry' \in Node \cup {NULL} /\ used' \subseteq Node
        /\ tmpstr' \in Field /\ down' = "copymode"
    BY <1>1, <1>12, <2>1 DEF ScanMode, TypeOK
  <2>3. UNCHANGED <<upvars, mainvars, sema, input, lists, undefined, load, files, history>>
    BY <1>12 DEF ScanMode
  <2> QED
    BY <1>1, <2>2, <2>3, DownTypes
<1>13. CASE CopyMode
  <2>1. /\ content' \in [Node -> [id : 0 .. load.files, addr : Field, mode : Field]]
        /\ file' \in File \cup {NULL} /\ entry' \in Node \cup {NULL} /\ used' \subseteq Node
        /\ tmpstr' \in Field /\ down' = "scanrest"
    BY <1>1, <1>13 DEF CopyMode, TypeOK
  <2>2. UNCHANGED <<upvars, mainvars, sema, input, lists, undefined, load, files, history>>
    BY <1>13 DEF CopyMode
  <2> QED
    BY <1>1, <2>1, <2>2, DownTypes
<1>14. CASE ScanRest \/ Keys \/ ImmediateFrame \/ EndDir
  <2>1. /\ file' \in {file, NULL} /\ entry' \in {entry, NULL}
        /\ used' \in {used, used \ {entry}} /\ tmpstr' \in {tmpstr, FIELD}
        /\ UNCHANGED content
    BY <1>14 DEF ScanRest, Keys, ImmediateFrame, EndDir, NextFile
  <2>2. /\ content' \in [Node -> [id : 0 .. load.files, addr : Field, mode : Field]]
        /\ file' \in File \cup {NULL} /\ entry' \in Node \cup {NULL} /\ used' \subseteq Node
        /\ tmpstr' \in Field
    BY <1>1, <2>1 DEF TypeOK
  <2>3. /\ down' \in {"dir", "keys", "insert", "frame", "enqueue", "end"}
        /\ UNCHANGED <<upvars, mainvars, sema, input, lists, undefined, load, files, history>>
    BY <1>14 DEF ScanRest, Keys, ImmediateFrame, EndDir, NextFile
  <2> QED
    BY <1>1, <2>2, <2>3, DownTypes
<1>15. CASE ImmediateEnqueue
  <2>1. /\ [id |-> content[entry].id, dev |-> content[entry].addr[1]]
             \in [id : 0 .. load.files, dev : Dev]
    <3>1. content[entry].addr[1] \in Dev
      BY <1>15, Constants DEF ImmediateEnqueue, IInv, ModeInv
    <3>2. content[entry].id = files /\ files >= 1
      BY <1>1, <1>15 DEF ImmediateEnqueue, IInv, IdInv, ThreadInv, Building
    <3> QED
      BY <1>1, <3>1, <3>2 DEF TypeOK
  <2>2. sent' \in Seq([id : 0 .. load.files, dev : Dev])
    <3>1. sent \in Seq([id : 0 .. load.files, dev : Dev])
      BY <1>1 DEF TypeOK
    <3>2. Append(sent, [id |-> content[entry].id, dev |-> content[entry].addr[1]])
            \in Seq([id : 0 .. load.files, dev : Dev])
      BY <2>1, <3>1, AppendTypes
    <3> QED
      BY <1>15, <3>1, <3>2 DEF ImmediateEnqueue, Accept
  <2> QED
    BY <1>1, <1>15, <2>2 DEF ImmediateEnqueue, NextFile, TypeOK
<1>16. CASE Insert
  <2>1. dn_list' \in BoundedSeq(Node, LIMIT + 1) /\ size' \in 0 .. LIMIT + 1
    <3>1. PICK kept \in Seq(Node) :
            dn_list' = Append(kept, entry) /\ size' = Len(kept) + 1 /\ Len(kept) <= LIMIT
      BY <1>16, ListInsert DEF IInv
    <3>2. entry \in Node
      BY <1>1, <1>16 DEF Insert, TypeOK
    <3>3. /\ dn_list' \in Seq(Node) /\ Len(dn_list') = Len(kept) + 1
          /\ Len(kept) \in Nat /\ LIMIT + 1 \in Nat
      BY <1>1, <3>1, <3>2
    <3> QED
      <4>1. Len(dn_list') <= LIMIT + 1 /\ size' \in 0 .. LIMIT + 1
        BY <1>1, <3>1, <3>3
      <4> QED
        BY <3>3, <4>1, BoundedSeqs
  <2>2. used' \subseteq Node
    BY <1>1, <1>16 DEF Insert, TypeOK
  <2>3. /\ NextFile
        /\ UNCHANGED <<upvars, mainvars, sema, input, content, tmpstr, undefined,
                       load, files, history>>
    BY <1>16 DEF Insert
  <2>4. down' = "dir" /\ file' = NULL /\ entry' = NULL
    BY <2>3 DEF NextFile
  <2> QED
    BY <1>1, <2>1, <2>2, <2>3, <2>4 DEF TypeOK
<1>17. CASE UseFreed
  BY <1>1, <1>17 DEF UseFreed, TypeOK
<1>18. CASE Join
  BY <1>1, <1>18 DEF Join, TypeOK
<1>19. CASE Stop
  BY <1>1, <1>19 DEF Stop, Woken, TypeOK
<1> QED
  BY <1>2, <1>3, <1>4, <1>6, <1>7, <1>8, <1>9, <1>10, <1>11, <1>12, <1>13, <1>14, <1>15,
     <1>16, <1>17, <1>18, <1>19 DEF Next, Up, Down

\* The steps that leave the list, the heap and the downstream thread alone.
Quiet == Uplink \/ Wake \/ DealUp \/ Search \/ Frame \/ UseFreed \/ Stop \/ Join

LEMMA QuietStep ==
  ASSUME Quiet
  PROVE  /\ UNCHANGED <<dn_list, size, used, content, down, file, entry, files, taken, sent,
                       load>>
         /\ \/ UNCHANGED <<up, dnelem>>
            \/ up = "frame" /\ up' = "enqueue" /\ dnelem' = dnelem
            \/ ~Holding /\ ~Holding'
            \/ /\ up = "search" /\ up' = "frame"
               /\ \E j \in DOMAIN dn_list : dnelem' = dn_list[j]
<1> USE DEF upvars, downvars, mainvars, lists, heap, input, history, Holding
<1>1. CASE Uplink \/ UseFreed \/ Stop \/ Join
  BY <1>1 DEF Uplink, UseFreed, Stop, Join
<1>2. CASE Wake \/ DealUp
  BY <1>2 DEF Wake, DealUp, Loop
<1>3. CASE Search
  BY <1>3 DEF Search, NextPacket
<1>4. CASE Frame
  BY <1>4 DEF Frame
<1> QED
  BY <1>1, <1>2, <1>3, <1>4 DEF Quiet

LEMMA NextSteps ==
  ASSUME Next
  PROVE  \/ Quiet \/ Enqueue \/ RemoveSent \/ TakeFile \/ CopyAddr \/ ScanMode \/ CopyMode
         \/ ScanRest \/ Keys \/ ImmediateFrame \/ ImmediateEnqueue \/ Insert \/ EndDir
<1> QED
  BY DEF Next, Up, Down, Quiet

LEMMA RemoveShape ==
  ASSUME IInv, RemoveSent
  PROVE  \E f \in [DOMAIN dn_list' -> DOMAIN dn_list] :
           /\ DOMAIN dn_list' \subseteq Nat
           /\ \A k \in DOMAIN dn_list' : dn_list'[k] = dn_list[f[k]] /\ dn_list'[k] # dnelem
           /\ \A j, k \in DOMAIN dn_list' : j < k => f[j] < f[k]
           /\ \A j \in DOMAIN dn_list :
                dn_list[j] # dnelem => \E k \in DOMAIN dn_list' : dn_list'[k] = dn_list[j]
<1>1. /\ dn_list' \in Seq(Node) /\ SubList(dn_list', dn_list)
      /\ ToSet(dn_list') = ToSet(dn_list) \ {dnelem}
  BY ListRemoveSent DEF IInv
<1>2. PICK f \in [DOMAIN dn_list' -> DOMAIN dn_list] :
        /\ \A k \in DOMAIN dn_list' : dn_list'[k] = dn_list[f[k]]
        /\ \A j, k \in DOMAIN dn_list' : j < k => f[j] < f[k]
  BY <1>1 DEF SubList
<1>3. \A k \in DOMAIN dn_list' : dn_list'[k] # dnelem
  BY <1>1 DEF ToSet
<1>4. \A j \in DOMAIN dn_list :
        dn_list[j] # dnelem => \E k \in DOMAIN dn_list' : dn_list'[k] = dn_list[j]
  BY <1>1 DEF ToSet
<1>5. DOMAIN dn_list' \subseteq Nat
  BY <1>1
<1> QED
  BY <1>2, <1>3, <1>4, <1>5

LEMMA InsertShape ==
  ASSUME IInv, Insert
  PROVE  \E L \in Nat : \E f \in [1 .. L -> DOMAIN dn_list] :
           /\ L <= LIMIT /\ size' = L + 1 /\ Len(dn_list') = L + 1
           /\ DOMAIN dn_list' = 1 .. (L + 1) /\ dn_list'[L + 1] = entry
           /\ \A k \in 1 .. L : /\ dn_list'[k] = dn_list[f[k]]
                                /\ content[dn_list'[k]].addr # content[entry].addr
           /\ \A j, k \in 1 .. L : j < k => f[j] < f[k]
           /\ used' = {n \in used : InList(n) => \E k \in 1 .. L : dn_list'[k] = n}
<1>1. PICK kept \in Seq(Node) :
        /\ dn_list' = Append(kept, entry) /\ size' = Len(kept) + 1
        /\ SubList(kept, dn_list) /\ Len(kept) <= LIMIT
        /\ used' = used \ (ToSet(dn_list) \ ToSet(kept))
        /\ \A k \in DOMAIN kept : content[kept[k]].addr # content[entry].addr
  BY ListInsert DEF IInv
<1>2. entry \in Node
  BY DEF IInv, ThreadInv, Building, Insert
<1>3. /\ Len(kept) \in Nat /\ DOMAIN kept = 1 .. Len(kept)
      /\ Len(dn_list') = Len(kept) + 1
      /\ DOMAIN dn_list' = 1 .. (Len(kept) + 1) /\ dn_list'[Len(kept) + 1] = entry
      /\ \A k \in 1 .. Len(kept) : dn_list'[k] = kept[k]
  BY <1>1, <1>2, AppendTypes
<1>4. PICK f \in [DOMAIN kept -> DOMAIN dn_list] :
        /\ \A k \in DOMAIN kept : kept[k] = dn_list[f[k]]
        /\ \A j, k \in DOMAIN kept : j < k => f[j] < f[k]
  BY <1>1 DEF SubList
<1>5. used' = {n \in used : InList(n) => \E k \in 1 .. Len(kept) : dn_list'[k] = n}
  <2>1. \A n : n \in ToSet(dn_list) <=> InList(n)
    BY DEF ToSet, InList
  <2>2. \A n : n \in ToSet(kept) <=> \E k \in 1 .. Len(kept) : dn_list'[k] = n
    BY <1>3 DEF ToSet
  <2> QED
    BY <1>1, <2>1, <2>2
<1>6. f \in [1 .. Len(kept) -> DOMAIN dn_list] /\ Len(kept) \in Nat
  BY <1>3, <1>4
<1>7. /\ \A k \in 1 .. Len(kept) : /\ dn_list'[k] = dn_list[f[k]]
                                   /\ content[dn_list'[k]].addr # content[entry].addr
      /\ \A j, k \in 1 .. Len(kept) : j < k => f[j] < f[k]
  BY <1>1, <1>3, <1>4
<1> QED
  BY <1>1, <1>3, <1>5, <1>6, <1>7

LEMMA ThreadStep ==
  ASSUME IInv, Next
  PROVE  ThreadInv'
<1> USE DEF upvars, downvars, mainvars, lists, heap, input, history, Building, Holding
<1>1. TypeOK /\ ThreadInv
  BY DEF IInv
<1>2. CASE Quiet
  <2>1. up' \in {"search", "frame", "enqueue", "remove"} =>
          devinfo' \in Dev /\ i' <= load'.size
    <3>1. CASE Uplink \/ UseFreed \/ Stop \/ Join
      BY <1>1, <3>1 DEF Uplink, UseFreed, Stop, Join, ThreadInv
    <3>2. CASE Wake
      BY <3>2 DEF Wake, Loop
    <3>3. CASE DealUp
      <4>1. batch \in Seq(Packet) /\ Len(batch) <= load.size /\ i \in Nat /\ load.size \in Nat
        BY <1>1, LoadTypes, BoundedSeqs DEF TypeOK
      <4>2. ASSUME i < Len(batch)
            PROVE  /\ \A k \in Decoded(batch[i + 1]) : k <= load.size
                   /\ batch[i + 1].dev \in Dev
        <5>1. batch[i + 1] \in Packet
          BY <4>1, <4>2
        <5>2. 1 <= load.size /\ i <= load.size
          BY <4>1, <4>2
        <5>3. batch[i + 1].fsize <= load.size /\ batch[i + 1].dev \in Dev
          BY <4>1, <5>1, <5>2 DEF Packet
        <5>4. Decoded(batch[i + 1]) \subseteq {i, batch[i + 1].fsize}
          BY DEF Decoded
        <5> QED
          BY <5>2, <5>3, <5>4
      <4> QED
        BY <3>3, <4>2 DEF DealUp, Loop
    <3>4. CASE Search \/ Frame
      BY <1>1, <3>4 DEF Search, Frame, NextPacket, ThreadInv
    <3> QED
      BY <1>2, <3>1, <3>2, <3>3, <3>4 DEF Quiet
  <2>2. Holding' => dnelem' \in Node
    BY <1>1, <1>2, QuietStep, ListTypes DEF ThreadInv
  <2>3. Building' => entry' \in Node /\ file' \in File /\ files' >= 1 /\ taken'[files'] = file'
    BY <1>1, <1>2, QuietStep DEF ThreadInv
  <2> QED
    BY <2>1, <2>2, <2>3 DEF ThreadInv
<1>3. CASE Enqueue \/ RemoveSent
  BY <1>1, <1>3 DEF Enqueue, RemoveSent, NextPacket, ThreadInv
<1>4. CASE TakeFile
  <2>1. PICK f \in load.kinds :
          /\ taken' = Append(taken, f)
          /\ \/ UNCHANGED downvars
             \/ \E n \in Node \ used : entry' = n /\ file' = f
    BY <1>4 DEF TakeFile
  <2>2. f \in File /\ files \in Nat /\ taken \in Seq(File) /\ Len(taken) = files
    BY <1>1, <2>1, LoadTypes DEF TypeOK
  <2>3. taken'[files + 1] = f
    BY <2>1, <2>2, AppendTypes
  <2> QED
    BY <1>1, <1>4, <2>1, <2>2, <2>3 DEF TakeFile, ThreadInv
<1>5. CASE CopyAddr \/ ScanMode \/ CopyMode \/ ImmediateFrame
  BY <1>1, <1>5 DEF CopyAddr, ScanMode, CopyMode, ImmediateFrame, ThreadInv
<1>6. CASE ScanRest \/ Keys
  BY <1>1, <1>6 DEF ScanRest, Keys, NextFile, ThreadInv
<1>7. CASE ImmediateEnqueue \/ Insert \/ EndDir
  BY <1>1, <1>7 DEF ImmediateEnqueue, Insert, EndDir, NextFile, ThreadInv
<1> QED
  BY <1>2, <1>3, <1>4, <1>5, <1>6, <1>7, NextSteps

LEMMA HeapStep ==
  ASSUME IInv, Next
  PROVE  HeapInv' /\ size' = Len(dn_list')
<1> USE DEF upvars, downvars, mainvars, lists, heap, input, history, Building
<1>1. TypeOK /\ ThreadInv /\ HeapInv /\ size = Len(dn_list)
  BY DEF IInv
<1>2. CASE Quiet
  BY <1>1, <1>2, QuietStep DEF HeapInv, InList
<1>3. CASE Enqueue \/ CopyAddr \/ ScanMode \/ CopyMode \/ ImmediateFrame \/ EndDir
  <2>1. UNCHANGED <<dn_list, size, used, entry>> /\ (Building <=> Building')
    BY <1>3 DEF Enqueue, CopyAddr, ScanMode, CopyMode, ImmediateFrame, EndDir
  <2> QED
    BY <1>1, <2>1 DEF HeapInv, InList
<1>4. CASE RemoveSent
  <2>1. PICK f \in [DOMAIN dn_list' -> DOMAIN dn_list] :
          /\ \A k \in DOMAIN dn_list' : dn_list'[k] = dn_list[f[k]] /\ dn_list'[k] # dnelem
          /\ \A j \in DOMAIN dn_list :
               dn_list[j] # dnelem => \E k \in DOMAIN dn_list' : dn_list'[k] = dn_list[j]
    BY <1>4, RemoveShape
  <2>2. used' = used \ {dnelem} /\ UNCHANGED <<down, entry>>
    BY <1>4 DEF RemoveSent
  <2>3. size' = Len(dn_list')
    BY <1>4, ListRemoveSent DEF IInv
  <2>4. \A j \in DOMAIN dn_list' : dn_list'[j] \in used'
    BY <1>1, <2>1, <2>2 DEF HeapInv
  <2>5. \A n \in used' : InList(n)' \/ (Building /\ n = entry)
    BY <1>1, <2>1, <2>2 DEF HeapInv, InList
  <2>6. Building => ~InList(entry)'
    BY <1>1, <2>1, <2>2 DEF HeapInv, InList
  <2> QED
    BY <2>2, <2>3, <2>4, <2>5, <2>6 DEF HeapInv, InList
<1>5. CASE TakeFile
  <2>1. UNCHANGED <<dn_list, size>> /\ down = "dir"
    BY <1>5 DEF TakeFile
  <2>2. CASE UNCHANGED <<downvars, used>>
    BY <1>1, <2>1, <2>2 DEF HeapInv, InList
  <2>3. CASE /\ \E n \in Node \ used : used' = used \cup {n} /\ entry' = n
             /\ down' = "copyaddr"
    BY <1>1, <2>1, <2>3 DEF HeapInv, InList
  <2> QED
    BY <1>5, <2>2, <2>3 DEF TakeFile
<1>6. CASE ScanRest \/ Keys
  <2>1. /\ UNCHANGED <<dn_list, size>> /\ Building
        /\ \/ used' = used \ {entry} /\ down' = "dir"
           \/ Building' /\ UNCHANGED <<entry, used>>
    BY <1>6 DEF ScanRest, Keys, NextFile
  <2> QED
    BY <1>1, <2>1 DEF HeapInv, InList
<1>7. CASE ImmediateEnqueue
  <2>1. UNCHANGED <<dn_list, size>> /\ Building /\ used' = used \ {entry} /\ down' = "dir"
    BY <1>7 DEF ImmediateEnqueue, NextFile
  <2> QED
    BY <1>1, <2>1 DEF HeapInv, InList
<1>8. CASE Insert
  <2>0. PICK L \in Nat : \E f \in [1 .. L -> DOMAIN dn_list] :
            /\ size' = L + 1 /\ Len(dn_list') = L + 1
            /\ DOMAIN dn_list' = 1 .. (L + 1) /\ dn_list'[L + 1] = entry
            /\ \A k \in 1 .. L : dn_list'[k] = dn_list[f[k]]
            /\ used' = {n \in used : InList(n) => \E k \in 1 .. L : dn_list'[k] = n}
    BY <1>8, InsertShape
  <2>1. PICK f \in [1 .. L -> DOMAIN dn_list] :
          /\ size' = L + 1 /\ Len(dn_list') = L + 1
          /\ DOMAIN dn_list' = 1 .. (L + 1) /\ dn_list'[L + 1] = entry
          /\ \A k \in 1 .. L : dn_list'[k] = dn_list[f[k]]
          /\ used' = {n \in used : InList(n) => \E k \in 1 .. L : dn_list'[k] = n}
    BY <2>0
  <2>2. Building /\ entry \in used /\ down' = "dir"
    BY <1>8 DEF Insert, NextFile
  <2>3. \A j \in DOMAIN dn_list' : dn_list'[j] \in used'
    <3>1. ASSUME NEW j \in 1 .. L PROVE dn_list'[j] \in used'
      BY <1>1, <2>1 DEF HeapInv
    <3>2. entry \in used'
      BY <1>1, <2>1, <2>2 DEF HeapInv
    <3>3. \A j \in 1 .. (L + 1) : j \in 1 .. L \/ j = L + 1
      OBVIOUS
    <3> QED
      BY <2>1, <3>1, <3>2, <3>3
  <2>4. \A n \in used' : InList(n)'
    <3>1. \A j \in 1 .. L : j \in 1 .. (L + 1)
      OBVIOUS
    <3>2. L + 1 \in 1 .. (L + 1)
      OBVIOUS
    <3> QED
      BY <1>1, <2>1, <3>1, <3>2 DEF HeapInv, InList
  <2> QED
    BY <2>1, <2>2, <2>3, <2>4 DEF HeapInv
<1> QED
  BY <1>2, <1>3, <1>4, <1>5, <1>6, <1>7, <1>8, NextSteps

\* malloc gives a node that is in no list: it is zeroed, and no other changes.
LEMMA ZeroedNode ==
  ASSUME IInv, TakeFile
  PROVE  /\ \A n \in Node : content'[n] = content[n] \/ content'[n].id = 0
         /\ \A j \in DOMAIN dn_list : content'[dn_list[j]] = content[dn_list[j]]
<1>1. /\ content \in [Node -> [id : 0 .. load.files, addr : Field, mode : Field]]
      /\ \A j \in DOMAIN dn_list : dn_list[j] \in Node /\ dn_list[j] \in used
  BY ListTypes DEF IInv, TypeOK, HeapInv
<1>2. CASE content' = content
  BY <1>2
<1>3. CASE \E n \in Node \ used : content' = [content EXCEPT ![n] = Zeroed]
  BY <1>1, <1>3 DEF Zeroed
<1> QED
  BY <1>2, <1>3 DEF TakeFile, heap

LEMMA OrderedStep ==
  ASSUME IInv, Next
  PROVE  Ordered'
<1> USE DEF upvars, downvars, mainvars, lists, heap, input, history, Building
<1>1. /\ TypeOK /\ ThreadInv /\ HeapInv /\ Ordered /\ IdInv
      /\ DOMAIN dn_list \subseteq Nat /\ \A j \in DOMAIN dn_list : dn_list[j] \in Node
  BY ListTypes DEF IInv
<1>2. CASE Quiet
  BY <1>1, <1>2, QuietStep DEF Ordered
<1>3. CASE Enqueue \/ ScanMode \/ ScanRest \/ Keys \/ ImmediateFrame
           \/ ImmediateEnqueue \/ EndDir
  <2>1. UNCHANGED <<dn_list, content>>
    BY <1>3 DEF Enqueue, ScanMode, ScanRest, Keys, ImmediateFrame, ImmediateEnqueue, EndDir
  <2> QED
    BY <1>1, <2>1 DEF Ordered
<1>7. CASE TakeFile
  <2>1. dn_list' = dn_list
    BY <1>7 DEF TakeFile
  <2>2. \A j \in DOMAIN dn_list : content'[dn_list[j]] = content[dn_list[j]]
    BY <1>7, ZeroedNode
  <2> QED
    BY <1>1, <2>1, <2>2 DEF Ordered
<1>4. CASE CopyAddr \/ CopyMode
  <2>1. dn_list' = dn_list /\ \A n \in Node : n # entry => content'[n] = content[n]
    BY <1>1, <1>4 DEF CopyAddr, CopyMode, TypeOK
  <2>2. \A j \in DOMAIN dn_list : dn_list[j] # entry
    BY <1>1, <1>4 DEF HeapInv, InList, CopyAddr, CopyMode
  <2>3. \A j \in DOMAIN dn_list : content'[dn_list[j]] = content[dn_list[j]]
    BY <1>1, <2>1, <2>2
  <2> QED
    BY <1>1, <2>1, <2>3 DEF Ordered
<1>5. CASE RemoveSent
  <2>1. PICK f \in [DOMAIN dn_list' -> DOMAIN dn_list] :
          /\ \A k \in DOMAIN dn_list' : dn_list'[k] = dn_list[f[k]]
          /\ \A j, k \in DOMAIN dn_list' : j < k => f[j] < f[k]
    BY <1>5, RemoveShape
  <2>2. content' = content
    BY <1>5 DEF RemoveSent
  <2> QED
    BY <1>1, <2>1, <2>2 DEF Ordered
<1>6. CASE Insert
  <2>0. PICK L \in Nat : \E f \in [1 .. L -> DOMAIN dn_list] :
            /\ DOMAIN dn_list' = 1 .. (L + 1) /\ dn_list'[L + 1] = entry
            /\ \A k \in 1 .. L : /\ dn_list'[k] = dn_list[f[k]]
                                 /\ content[dn_list'[k]].addr # content[entry].addr
            /\ \A j, k \in 1 .. L : j < k => f[j] < f[k]
    BY <1>6, InsertShape
  <2>1. PICK f \in [1 .. L -> DOMAIN dn_list] :
          /\ DOMAIN dn_list' = 1 .. (L + 1) /\ dn_list'[L + 1] = entry
          /\ \A k \in 1 .. L : /\ dn_list'[k] = dn_list[f[k]]
                               /\ content[dn_list'[k]].addr # content[entry].addr
          /\ \A j, k \in 1 .. L : j < k => f[j] < f[k]
    BY <2>0
  <2>2. content' = content /\ Building /\ down # "copyaddr"
    BY <1>6 DEF Insert
  <2> SUFFICES ASSUME NEW j \in 1 .. (L + 1), NEW k \in 1 .. (L + 1), j < k
               PROVE  /\ content[dn_list'[j]].addr # content[dn_list'[k]].addr
                      /\ content[dn_list'[j]].id < content[dn_list'[k]].id
    BY <2>1, <2>2 DEF Ordered
  <2>3. j \in 1 .. L
    OBVIOUS
  <2>4. CASE k \in 1 .. L
    BY <1>1, <2>1, <2>3, <2>4 DEF Ordered
  <2>5. CASE k = L + 1
    <3>1. content[entry].id = files
      BY <1>1, <2>2 DEF IdInv
    <3>2. content[dn_list[f[j]]].id < files
      BY <1>1, <2>1, <2>2, <2>3 DEF IdInv
    <3> QED
      BY <2>1, <2>3, <2>5, <3>1, <3>2
  <2> QED
    BY <2>4, <2>5
<1> QED
  BY <1>2, <1>3, <1>4, <1>5, <1>6, <1>7, NextSteps

LEMMA ModeStep ==
  ASSUME IInv, Next
  PROVE  ModeInv'
<1> USE DEF upvars, downvars, mainvars, lists, heap, input, history, Building
<1>1. TypeOK /\ ThreadInv /\ ModeInv
  BY DEF IInv
<1>2. CASE Quiet
  <2>1. tmpstr' = tmpstr \/ tmpstr' # IMME
    <3>1. CASE DealUp
      <4>1. batch \in Seq(Packet) /\ i \in Nat
        BY <1>1, LoadTypes, BoundedSeqs DEF TypeOK
      <4>2. ASSUME i < Len(batch) PROVE Upper(batch[i + 1].dev) # IMME
        <5>1. batch[i + 1] \in Packet
          BY <4>1, <4>2
        <5>2. batch[i + 1].dev \in Dev
          BY <5>1 DEF Packet
        <5> QED
          BY <5>2, Constants
      <4> QED
        BY <3>1, <4>2 DEF DealUp
    <3>2. CASE Frame
      BY <3>2, Constants DEF Frame
    <3>3. CASE Uplink \/ Wake \/ Search \/ UseFreed \/ Stop \/ Join
      BY <3>3 DEF Uplink, Wake, Search, UseFreed, Stop, Join
    <3> QED
      BY <1>2, <3>1, <3>2, <3>3 DEF Quiet
  <2> QED
    BY <1>1, <1>2, <2>1, QuietStep DEF ModeInv
<1>3. CASE Enqueue \/ RemoveSent
  <2>1. UNCHANGED <<tmpstr, down, file, entry, content>>
    BY <1>3 DEF Enqueue, RemoveSent
  <2> QED
    BY <1>1, <2>1 DEF ModeInv
<1>4. CASE TakeFile
  <2>1. PICK f \in load.kinds :
          \/ UNCHANGED <<downvars, used, tmpstr>>
          \/ \E n \in Node \ used : tmpstr' = f.addr /\ down' = "copyaddr"
    BY <1>4 DEF TakeFile
  <2>2. f \in File /\ f.addr # IMME
    BY <1>1, LoadTypes, Constants
  <2> QED
    BY <1>1, <1>4, <2>1, <2>2 DEF TakeFile, ModeInv
<1>5. CASE CopyAddr
  BY <1>1, <1>5 DEF CopyAddr, ModeInv
<1>6. CASE ScanMode \/ ImmediateFrame
  BY <1>1, <1>6, Constants DEF ScanMode, ImmediateFrame, ModeInv
<1>7. CASE CopyMode
  <2>1. content'[entry].mode = tmpstr
    BY <1>1, <1>7 DEF CopyMode, TypeOK, ThreadInv
  <2> QED
    BY <1>1, <1>7, <2>1 DEF CopyMode, ModeInv
<1>8. CASE ScanRest \/ Keys
  BY <1>1, <1>8, Constants DEF ScanRest, Keys, NextFile, ModeInv
<1>9. CASE ImmediateEnqueue \/ Insert \/ EndDir
  BY <1>1, <1>9 DEF ImmediateEnqueue, Insert, EndDir, NextFile, ModeInv
<1> QED
  BY <1>2, <1>3, <1>4, <1>5, <1>6, <1>7, <1>8, <1>9, NextSteps

LEMMA IdStep ==
  ASSUME IInv, Next
  PROVE  IdInv'
<1> USE DEF upvars, downvars, mainvars, lists, heap, input, history, Building, Holding
<1>1. /\ TypeOK /\ ThreadInv /\ HeapInv /\ IdInv /\ files \in Nat
      /\ \A j \in DOMAIN dn_list : dn_list[j] \in Node
      /\ \A n \in Node : content[n].id \in Nat
  <2>1. load.files \in Nat
    BY LoadTypes DEF IInv
  <2> QED
    BY <2>1, ListTypes DEF IInv, TypeOK
<1>2. CASE Quiet
  <2>1. /\ UNCHANGED <<dn_list, content, down, entry, files>>
        /\ \/ UNCHANGED <<up, dnelem>>
           \/ up = "frame" /\ dnelem' = dnelem
           \/ ~Holding'
           \/ \E j \in DOMAIN dn_list : dnelem' = dn_list[j]
    BY <1>2, QuietStep
  <2> QED
    BY <1>1, <2>1 DEF IdInv
<1>3. CASE Enqueue
  <2>1. UNCHANGED <<dn_list, content, down, entry, files>>
    BY <1>3 DEF Enqueue
  <2> QED
    BY <1>1, <2>1 DEF IdInv
<1>4. CASE RemoveSent
  <2>1. PICK f \in [DOMAIN dn_list' -> DOMAIN dn_list] :
          \A k \in DOMAIN dn_list' : dn_list'[k] = dn_list[f[k]]
    BY <1>4, RemoveShape
  <2>2. UNCHANGED <<content, down, entry, files>> /\ ~Holding'
    BY <1>4 DEF RemoveSent, NextPacket
  <2> QED
    BY <1>1, <2>1, <2>2 DEF IdInv
<1>5. CASE TakeFile
  <2>1. /\ UNCHANGED dn_list /\ files' = files + 1
        /\ (Building' => down' = "copyaddr")
    BY <1>5 DEF TakeFile
  <2>2. /\ \A n \in Node : content'[n] = content[n] \/ content'[n].id = 0
        /\ \A j \in DOMAIN dn_list : content'[dn_list[j]] = content[dn_list[j]]
    BY <1>5, ZeroedNode
  <2>3. \A n \in Node : content'[n].id < files + 1
    BY <1>1, <2>2 DEF IdInv
  <2>4. \A n \in Node : content'[n].id \in Nat
    BY <1>1, <2>2
  <2>5. \A j \in DOMAIN dn_list :
          content'[dn_list[j]].id >= 1 /\ content'[dn_list[j]].id < files + 1
    BY <1>1, <2>2, <2>3 DEF IdInv
  <2>6. \A m, n \in Node : content'[m].id = content'[n].id /\ content'[m].id >= 1 => m = n
    BY <1>1, <2>2 DEF IdInv
  <2> QED
    BY <1>1, <2>1, <2>3, <2>4, <2>5, <2>6 DEF IdInv
<1>6. CASE CopyAddr
  <2>1. /\ UNCHANGED <<dn_list, up, dnelem, entry, files>> /\ down' = "scanmode"
        /\ down = "copyaddr" /\ entry \in Node
    BY <1>1, <1>6 DEF CopyAddr, ThreadInv
  <2>2. /\ content'[entry].id = files
        /\ \A n \in Node : n # entry => content'[n] = content[n]
    BY <1>1, <1>6, <2>1 DEF CopyAddr, TypeOK
  <2>3. \A j \in DOMAIN dn_list : dn_list[j] # entry
    BY <1>1, <2>1 DEF HeapInv, InList
  <2>4. \A n \in Node : content[n].id < files
    BY <1>1, <2>1 DEF IdInv
  <2>5. files >= 1
    BY <1>1, <2>1 DEF ThreadInv
  <2>6. \A n \in Node : content'[n].id <= files
    BY <1>1, <2>2, <2>4
  <2>7. \A j \in DOMAIN dn_list : content'[dn_list[j]].id >= 1 /\ content'[dn_list[j]].id < files
    BY <1>1, <2>2, <2>3, <2>4 DEF IdInv
  <2>9. \A m, n \in Node : content'[m].id = content'[n].id /\ content'[m].id >= 1 => m = n
    BY <1>1, <2>1, <2>2, <2>4 DEF IdInv
  <2> QED
    BY <2>1, <2>2, <2>6, <2>7, <2>9 DEF IdInv
<1>7. CASE CopyMode
  <2>1. /\ UNCHANGED <<dn_list, up, dnelem, entry, files>> /\ down' = "scanrest"
        /\ down = "copymode" /\ entry \in Node
    BY <1>1, <1>7 DEF CopyMode, ThreadInv
  <2>2. \A n \in Node : content'[n].id = content[n].id
    BY <1>1, <1>7, <2>1 DEF CopyMode, TypeOK
  <2> QED
    BY <1>1, <2>1, <2>2 DEF IdInv
<1>8. CASE ScanMode \/ ImmediateFrame \/ ScanRest \/ Keys \/ ImmediateEnqueue \/ EndDir
  <2>1. /\ UNCHANGED <<dn_list, content, up, dnelem, files>> /\ down # "copyaddr"
        /\ down' # "copyaddr" /\ (Building' => Building /\ entry' = entry)
    BY <1>8 DEF ScanMode, ImmediateFrame, ScanRest, Keys, ImmediateEnqueue, EndDir, NextFile
  <2> QED
    BY <1>1, <2>1 DEF IdInv
<1>9. CASE Insert
  <2>0. PICK L \in Nat : \E f \in [1 .. L -> DOMAIN dn_list] :
          /\ DOMAIN dn_list' = 1 .. (L + 1) /\ dn_list'[L + 1] = entry
          /\ \A k \in 1 .. L : dn_list'[k] = dn_list[f[k]]
    BY <1>9, InsertShape
  <2>1. PICK f \in [1 .. L -> DOMAIN dn_list] :
          /\ DOMAIN dn_list' = 1 .. (L + 1) /\ dn_list'[L + 1] = entry
          /\ \A k \in 1 .. L : dn_list'[k] = dn_list[f[k]]
    BY <2>0
  <2>2. /\ UNCHANGED <<content, up, dnelem, files>> /\ down' = "dir" /\ down = "insert"
    BY <1>9 DEF Insert, NextFile
  <2>3. content[entry].id >= 1
    BY <1>1, <2>2 DEF IdInv, ThreadInv
  <2>4. \A j \in DOMAIN dn_list' : content[dn_list'[j]].id >= 1
    <3>1. ASSUME NEW j \in 1 .. L PROVE content[dn_list'[j]].id >= 1
      BY <1>1, <2>1 DEF IdInv
    <3>2. \A j \in 1 .. (L + 1) : j \in 1 .. L \/ j = L + 1
      OBVIOUS
    <3> QED
      BY <2>1, <2>3, <3>1, <3>2
  <2> QED
    BY <1>1, <2>2, <2>4 DEF IdInv
<1> QED
  BY <1>2, <1>3, <1>4, <1>5, <1>6, <1>7, <1>8, <1>9, NextSteps

\* One more downlink is accepted: its number is the only new one.
LEMMA AcceptOne ==
  ASSUME TypeOK, NEW e, sent' = Append(sent, e), UNCHANGED taken
  PROVE  /\ \A x : Accepted(x)' <=> Accepted(x) \/ x = e.id
         /\ \A k \in DOMAIN sent' : (k \in DOMAIN sent /\ sent'[k] = sent[k]) \/ sent'[k] = e
         /\ AcceptedOnce /\ (e.id # 0 /\ Accepted(e.id) => taken[e.id].mode = IMME)
              => AcceptedOnce'
<1>1. /\ Len(sent) \in Nat /\ DOMAIN sent = 1 .. Len(sent)
      /\ Len(sent') = Len(sent) + 1 /\ DOMAIN sent' = 1 .. (Len(sent) + 1)
      /\ \A k \in 1 .. Len(sent) : sent'[k] = sent[k]
      /\ sent'[Len(sent) + 1] = e
  BY DEF TypeOK
<1>2. \A k \in 1 .. (Len(sent) + 1) : k \in 1 .. Len(sent) \/ k = Len(sent) + 1
  BY <1>1
<1>3. \A x : Accepted(x)' <=> Accepted(x) \/ x = e.id
  <2>1. ASSUME NEW x, Accepted(x)' PROVE Accepted(x) \/ x = e.id
    BY <1>1, <1>2, <2>1 DEF Accepted
  <2>2. ASSUME NEW x, Accepted(x) PROVE Accepted(x)'
    <3>1. PICK k \in 1 .. Len(sent) : sent[k].id = x
      BY <1>1, <2>2 DEF Accepted
    <3>2. k \in 1 .. (Len(sent) + 1)
      BY <1>1
    <3> QED
      BY <1>1, <3>1, <3>2 DEF Accepted
  <2>3. Accepted(e.id)'
    <3>1. Len(sent) + 1 \in 1 .. (Len(sent) + 1)
      BY <1>1
    <3> QED
      BY <1>1, <3>1 DEF Accepted
  <2> QED
    BY <2>1, <2>2, <2>3
<1>4. ASSUME AcceptedOnce, e.id # 0 /\ Accepted(e.id) => taken[e.id].mode = IMME
      PROVE  AcceptedOnce'
  <2> SUFFICES ASSUME NEW j \in 1 .. (Len(sent) + 1), NEW k \in 1 .. (Len(sent) + 1),
                      j # k, sent'[j].id = sent'[k].id, sent'[j].id # 0
               PROVE  taken[sent'[j].id].mode = IMME
    BY <1>1 DEF AcceptedOnce
  <2>1. CASE j \in 1 .. Len(sent) /\ k \in 1 .. Len(sent)
    BY <1>1, <1>4, <2>1 DEF AcceptedOnce
  <2>2. CASE j = Len(sent) + 1 \/ k = Len(sent) + 1
    <3>1. sent'[j].id = e.id
      BY <1>1, <2>2
    <3>2. j \in 1 .. Len(sent) \/ k \in 1 .. Len(sent)
      BY <1>2
    <3>3. Accepted(e.id)
      BY <1>1, <3>1, <3>2 DEF Accepted
    <3> QED
      BY <1>4, <3>1, <3>3
  <2> QED
    BY <1>2, <2>1, <2>2
<1> QED
  BY <1>1, <1>2, <1>3, <1>4

LEMMA SentStep ==
  ASSUME IInv, Next
  PROVE  SentInv' /\ AcceptedOnce'
<1> USE DEF upvars, downvars, mainvars, lists, heap, input, history, Building, Holding
<1>1. /\ TypeOK /\ ThreadInv /\ HeapInv /\ IdInv /\ ModeInv /\ SentInv /\ AcceptedOnce
      /\ files \in Nat
      /\ \A j \in DOMAIN dn_list : dn_list[j] \in Node
      /\ \A n \in Node : content[n].id \in Nat
      /\ DOMAIN sent = 1 .. Len(sent) /\ \A k \in DOMAIN sent : sent[k].id \in Nat
  <2>1. load.files \in Nat
    BY LoadTypes DEF IInv
  <2>2. sent \in Seq([id : 0 .. load.files, dev : Dev])
    BY DEF IInv, TypeOK
  <2>3. \A k \in DOMAIN sent : sent[k].id \in Nat
    <3>1. \A k \in DOMAIN sent : sent[k] \in [id : 0 .. load.files, dev : Dev]
      BY <2>2, ElementsTypes
    <3>2. \A r \in [id : 0 .. load.files, dev : Dev] : r.id \in Nat
      BY <2>1
    <3> QED
      BY <3>1, <3>2
  <2> QED
    BY <2>1, <2>2, <2>3, ListTypes DEF IInv, TypeOK
<1>2. ASSUME UNCHANGED <<sent, taken>>
      PROVE  AcceptedOnce' /\ \A x : Accepted(x)' <=> Accepted(x)
  BY <1>1, <1>2 DEF AcceptedOnce, Accepted
<1>3. CASE Quiet
  <2>1. /\ UNCHANGED <<dn_list, used, content, down, entry, files, taken, sent>>
        /\ \/ UNCHANGED <<up, dnelem>>
           \/ up = "frame" /\ up' = "enqueue" /\ dnelem' = dnelem
           \/ ~Holding /\ ~Holding'
           \/ /\ up = "search" /\ up' = "frame"
              /\ \E j \in DOMAIN dn_list : dnelem' = dn_list[j]
    BY <1>3, QuietStep
  <2>2. \A k \in DOMAIN sent : sent[k].id <= files /\ (down = "copyaddr" => sent[k].id < files)
    BY <1>1 DEF SentInv
  <2>3. \A j \in DOMAIN dn_list :
          Accepted(content[dn_list[j]].id) => up' = "remove" /\ dnelem' = dn_list[j]
    BY <1>1, <2>1 DEF SentInv
  <2>4. Building /\ Accepted(files) => (up' = "remove" /\ dnelem' = entry) \/ entry \notin used
    BY <1>1, <2>1 DEF SentInv
  <2>5. up' \in {"frame", "enqueue"} /\ content[dnelem'].id # 0 /\ Accepted(content[dnelem'].id) =>
          taken[content[dnelem'].id].mode = IMME
    BY <1>1, <2>1 DEF SentInv
  <2> QED
    BY <1>2, <2>1, <2>2, <2>3, <2>4, <2>5 DEF SentInv
<1>4. CASE Enqueue
  <2>1. /\ UNCHANGED <<dn_list, used, content, down, entry, files, taken>> /\ up = "enqueue"
        /\ \/ UNCHANGED sent /\ up' = "packet"
           \/ /\ sent' = Append(sent, [id |-> content[dnelem].id, dev |-> devinfo])
              /\ up' = "remove" /\ dnelem' = dnelem
    BY <1>4 DEF Enqueue, Accept, Leaves, NextPacket
  <2>2. CASE UNCHANGED sent /\ up' = "packet"
    BY <1>1, <1>2, <2>1, <2>2 DEF SentInv
  <2>3. CASE /\ sent' = Append(sent, [id |-> content[dnelem].id, dev |-> devinfo])
             /\ up' = "remove" /\ dnelem' = dnelem
    <3> DEFINE id == content[dnelem].id
    <3>1. dnelem \in Node /\ id \in Nat /\ id <= files
          /\ (down = "copyaddr" => id < files)
      BY <1>1, <2>1 DEF ThreadInv, IdInv
    <3>2. id # 0 /\ Accepted(id) => taken[id].mode = IMME
      BY <1>1, <2>1 DEF SentInv
    <3>3. /\ \A x : Accepted(x)' <=> Accepted(x) \/ x = id
          /\ \A k \in DOMAIN sent' : (k \in DOMAIN sent /\ sent'[k] = sent[k]) \/ sent'[k].id = id
          /\ AcceptedOnce'
      BY <1>1, <2>1, <2>3, <3>2, AcceptOne
    <3>4. \A k \in DOMAIN sent' :
            sent'[k].id <= files /\ (down = "copyaddr" => sent'[k].id < files)
      BY <1>1, <3>1, <3>3 DEF SentInv
    <3>5. \A j \in DOMAIN dn_list : Accepted(content[dn_list[j]].id)' => dnelem = dn_list[j]
      <4>1. \A j \in DOMAIN dn_list : content[dn_list[j]].id = id => dnelem = dn_list[j]
        BY <1>1, <3>1 DEF IdInv
      <4> QED
        BY <1>1, <2>1, <3>3, <4>1 DEF SentInv, Accepted
    <3>6. Building /\ Accepted(files)' => dnelem = entry \/ entry \notin used
      <4>1. Building /\ files = id => dnelem = entry
        BY <1>1, <3>1 DEF IdInv, ThreadInv
      <4> QED
        BY <1>1, <2>1, <3>3, <4>1 DEF SentInv, Accepted
    <3> HIDE DEF id
    <3> QED
      BY <2>1, <2>3, <3>3, <3>4, <3>5, <3>6 DEF SentInv, Accepted
  <2> QED
    BY <2>1, <2>2, <2>3
<1>5. CASE RemoveSent
  <2>1. PICK f \in [DOMAIN dn_list' -> DOMAIN dn_list] :
          \A k \in DOMAIN dn_list' : dn_list'[k] = dn_list[f[k]] /\ dn_list'[k] # dnelem
    BY <1>5, RemoveShape
  <2>2. /\ UNCHANGED <<content, down, entry, files, taken, sent>>
        /\ up' = "packet" /\ used' = used \ {dnelem}
    BY <1>5 DEF RemoveSent, NextPacket
  <2>3. \A j \in DOMAIN dn_list' : ~Accepted(content[dn_list'[j]].id)
    BY <1>1, <2>1 DEF SentInv
  <2>4. Building /\ Accepted(files) => entry \notin used'
    BY <1>1, <2>2 DEF SentInv
  <2> QED
    BY <1>1, <1>2, <2>2, <2>3, <2>4 DEF SentInv
<1>6. CASE TakeFile
  <2>1. /\ UNCHANGED <<dn_list, sent, up, dnelem>> /\ files' = files + 1
        /\ (Building' => down' = "copyaddr")
        /\ \E g \in load.kinds : taken' = Append(taken, g)
    BY <1>6 DEF TakeFile
  <2>2. \A k \in 1 .. files : taken'[k] = taken[k]
    <3>1. taken \in Seq(File) /\ Len(taken) = files
      BY <1>1 DEF TypeOK
    <3> QED
      BY <1>1, <2>1, <3>1, LoadTypes, AppendTypes
  <2>3. \A x : Accepted(x)' <=> Accepted(x)
    BY <2>1 DEF Accepted
  <2>4. \A k \in DOMAIN sent : sent[k].id \in 0 .. files /\ sent[k].id < files + 1
    BY <1>1 DEF SentInv
  <2>5. ~Accepted(files + 1)
    BY <1>1, <2>4 DEF Accepted
  <2>9. /\ \A n \in Node : content'[n] = content[n] \/ content'[n].id = 0
        /\ \A j \in DOMAIN dn_list : content'[dn_list[j]] = content[dn_list[j]]
    BY <1>6, ZeroedNode
  <2>6. up \in {"frame", "enqueue"} /\ content'[dnelem].id # 0 /\ Accepted(content'[dnelem].id)
          => taken'[content'[dnelem].id].mode = IMME
    <3>1. \A x : x # 0 /\ Accepted(x) => taken'[x] = taken[x]
      BY <1>1, <2>2, <2>4 DEF Accepted
    <3> QED
      BY <1>1, <2>9, <3>1 DEF SentInv, ThreadInv
  <2>7. AcceptedOnce'
    <3>1. \A k \in DOMAIN sent : sent[k].id # 0 => taken'[sent[k].id] = taken[sent[k].id]
      BY <1>1, <2>2, <2>4
    <3> SUFFICES ASSUME NEW j \in DOMAIN sent, NEW k \in DOMAIN sent,
                        j # k, sent[j].id = sent[k].id, sent[j].id # 0
                 PROVE  taken'[sent[j].id].mode = IMME
      BY <1>1, <2>1 DEF AcceptedOnce
    <3>2. taken[sent[j].id].mode = IMME
      BY <1>1 DEF AcceptedOnce
    <3> QED
      BY <3>1, <3>2
  <2>8. \A k \in DOMAIN sent : sent[k].id <= files + 1
    BY <1>1, <2>4
  <2> QED
    BY <1>1, <2>1, <2>3, <2>4, <2>5, <2>6, <2>7, <2>8, <2>9 DEF SentInv
<1>7. CASE CopyAddr
  <2>1. /\ UNCHANGED <<dn_list, sent, taken, up, dnelem, entry, files, used>>
        /\ down' = "scanmode" /\ down = "copyaddr" /\ entry \in Node
    BY <1>1, <1>7 DEF CopyAddr, ThreadInv
  <2>2. /\ content'[entry].id = files
        /\ \A n \in Node : n # entry => content'[n] = content[n]
    BY <1>1, <1>7, <2>1 DEF CopyAddr, TypeOK
  <2>3. ~Accepted(files)
    BY <1>1, <2>1 DEF SentInv, Accepted
  <2>4. \A j \in DOMAIN dn_list : content'[dn_list[j]] = content[dn_list[j]]
    BY <1>1, <2>1, <2>2 DEF HeapInv, InList
  <2>5. up \in {"frame", "enqueue"} /\ content'[dnelem].id # 0 /\ Accepted(content'[dnelem].id) =>
          taken[content'[dnelem].id].mode = IMME
    BY <1>1, <2>2, <2>3 DEF SentInv, ThreadInv
  <2> QED
    BY <1>1, <1>2, <2>1, <2>3, <2>4, <2>5 DEF SentInv
<1>8. CASE CopyMode
  <2>1. /\ UNCHANGED <<dn_list, sent, taken, up, dnelem, entry, files, used>>
        /\ down' = "scanrest" /\ down = "copymode" /\ entry \in Node
    BY <1>1, <1>8 DEF CopyMode, ThreadInv
  <2>2. \A n \in Node : content'[n].id = content[n].id
    BY <1>1, <1>8, <2>1 DEF CopyMode, TypeOK
  <2>3. Holding => dnelem \in Node
    BY <1>1 DEF ThreadInv
  <2> QED
    BY <1>1, <1>2, <2>1, <2>2, <2>3 DEF SentInv
<1>9. CASE ScanMode \/ ImmediateFrame \/ ScanRest \/ Keys \/ EndDir
  <2>1. /\ UNCHANGED <<dn_list, content, sent, taken, up, dnelem, files>>
        /\ down' # "copyaddr" /\ (Building' => Building /\ UNCHANGED <<entry, used>>)
    BY <1>9 DEF ScanMode, ImmediateFrame, ScanRest, Keys, EndDir, NextFile
  <2> QED
    BY <1>1, <1>2, <2>1 DEF SentInv
<1>10. CASE ImmediateEnqueue
  <2>1. /\ UNCHANGED <<dn_list, content, taken, up, dnelem, files>>
        /\ down' = "dir" /\ down = "enqueue"
        /\ sent' = Append(sent, [id |-> content[entry].id, dev |-> content[entry].addr[1]])
             \/ UNCHANGED sent
    BY <1>10 DEF ImmediateEnqueue, Accept, NextFile
  <2>2. content[entry].id = files /\ taken[files].mode = IMME
    BY <1>1, <2>1 DEF IdInv, ThreadInv, ModeInv
  <2>3. CASE UNCHANGED sent
    BY <1>1, <1>2, <2>1, <2>3 DEF SentInv
  <2>4. CASE sent' = Append(sent, [id |-> content[entry].id, dev |-> content[entry].addr[1]])
    <3>1. /\ \A x : Accepted(x)' <=> Accepted(x) \/ x = files
          /\ \A k \in DOMAIN sent' :
               (k \in DOMAIN sent /\ sent'[k] = sent[k]) \/ sent'[k].id = files
          /\ AcceptedOnce'
      BY <1>1, <2>1, <2>2, <2>4, AcceptOne
    <3>2. \A k \in DOMAIN sent' : sent'[k].id <= files
      BY <1>1, <3>1 DEF SentInv
    <3>3. \A j \in DOMAIN dn_list : content[dn_list[j]].id # files
      BY <1>1, <2>1 DEF IdInv
    <3> QED
      BY <1>1, <2>1, <2>2, <3>1, <3>2, <3>3 DEF SentInv
  <2> QED
    BY <2>1, <2>3, <2>4
<1>11. CASE Insert
  <2>0. PICK L \in Nat : \E f \in [1 .. L -> DOMAIN dn_list] :
          /\ DOMAIN dn_list' = 1 .. (L + 1) /\ dn_list'[L + 1] = entry
          /\ \A k \in 1 .. L : dn_list'[k] = dn_list[f[k]]
    BY <1>11, InsertShape
  <2>1. PICK f \in [1 .. L -> DOMAIN dn_list] :
          /\ DOMAIN dn_list' = 1 .. (L + 1) /\ dn_list'[L + 1] = entry
          /\ \A k \in 1 .. L : dn_list'[k] = dn_list[f[k]]
    BY <2>0
  <2>2. /\ UNCHANGED <<content, sent, taken, up, dnelem, files>> /\ entry \in used
        /\ down' = "dir" /\ down = "insert"
    BY <1>11 DEF Insert, NextFile
  <2>3. Accepted(content[entry].id) => up = "remove" /\ dnelem = entry
    BY <1>1, <2>2 DEF SentInv, IdInv
  <2>4. \A j \in DOMAIN dn_list' :
          Accepted(content[dn_list'[j]].id) => up = "remove" /\ dnelem = dn_list'[j]
    <3>1. ASSUME NEW j \in 1 .. L
          PROVE  Accepted(content[dn_list'[j]].id) => up = "remove" /\ dnelem = dn_list'[j]
      BY <1>1, <2>1 DEF SentInv
    <3>2. \A j \in 1 .. (L + 1) : j \in 1 .. L \/ j = L + 1
      OBVIOUS
    <3> QED
      BY <2>1, <2>3, <3>1, <3>2
  <2> QED
    BY <1>1, <1>2, <2>2, <2>4 DEF SentInv
<1> QED
  BY <1>3, <1>4, <1>5, <1>6, <1>7, <1>8, <1>9, <1>10, <1>11, NextSteps

-----------------------------------------------------------------------------
LEMMA Inductive == Spec => []IInv
<1>1. IInv /\ [Next]_vars => IInv'
  <2> SUFFICES ASSUME IInv, [Next]_vars PROVE IInv'
    OBVIOUS
  <2>1. CASE Next
    BY <2>1, TypeStep, ThreadStep, HeapStep, OrderedStep, IdStep, ModeStep, SentStep DEF IInv
  <2>2. CASE UNCHANGED vars
    <3>1. TypeOK' /\ (size = Len(dn_list))'
      BY <2>2 DEF vars, upvars, downvars, mainvars, lists, heap, input, history, IInv, TypeOK
    <3>2. ThreadInv' /\ HeapInv' /\ Ordered'
      BY <2>2 DEF vars, upvars, downvars, mainvars, lists, heap, input, history, IInv,
                  ThreadInv, HeapInv, Ordered, Building, Holding, InList
    <3>3. IdInv' /\ ModeInv' /\ SentInv' /\ AcceptedOnce'
      BY <2>2 DEF vars, upvars, downvars, mainvars, lists, heap, input, history, IInv,
                  IdInv, ModeInv, SentInv, AcceptedOnce, Building, Holding, Accepted
    <3> QED
      BY <3>1, <3>2, <3>3 DEF IInv
  <2> QED
    BY <2>1, <2>2
<1> QED
  BY <1>1, InitInv, PTL DEF Spec

\* Whatever files come, whichever nodes malloc gives and however the threads
\* interleave, the variables of both threads stay in their types.
THEOREM CustomTypes == Spec => []TypeOK
<1>1. IInv => TypeOK
  BY DEF IInv
<1> QED
  BY <1>1, Inductive, PTL

\* The list both threads change (pkt_serv.c:193, 395) holds allocated nodes
\* only, one for an address and the newer behind the older, at most LIMIT + 1,
\* and its size field counts them.
THEOREM ListKeepsNewest == Spec => []KeptNewest
<1>1. IInv => KeptNewest
  <2> SUFFICES ASSUME IInv PROVE KeptNewest
    OBVIOUS
  <2>1. DOMAIN dn_list = 1 .. Len(dn_list)
    BY ListTypes DEF IInv
  <2> QED
    BY <2>1 DEF IInv, KeptNewest, HeapInv, Ordered, ToSet
<1> QED
  BY <1>1, Inductive, PTL

\* A timed downlink is accepted for transmission once at most, although the
\* upstream thread may hold a node that was freed and allocated again.
THEOREM TimedAcceptedOnce == Spec => []AcceptedOnce
<1>1. IInv => AcceptedOnce
  BY DEF IInv
<1> QED
  BY <1>1, Inductive, PTL

=============================================================================
