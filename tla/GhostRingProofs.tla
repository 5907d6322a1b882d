--------------------------- MODULE GhostRingProofs ---------------------------
(***************************************************************************)
(* Proofs about the ghost ring, for a ring and a batch of any size.        *)
(*                                                                         *)
(* All the reasoning about the two indices rests on lemma Indices, which   *)
(* replaces every reduction modulo GHST_NM_RCV by a case distinction.      *)
(***************************************************************************)
EXTENDS GhostRing, SequenceTheorems, TLAPS

Reduced(x) == x % GHST_NM_RCV

\* A number below twice the modulus is reduced by at most one subtraction.
LEMMA ModStep ==
  ASSUME NEW x \in Nat, x < GHST_NM_RCV + GHST_NM_RCV
  PROVE  Reduced(x) = IF x < GHST_NM_RCV THEN x ELSE x - GHST_NM_RCV
<1>. DEFINE n == GHST_NM_RCV
<1>1. n \in Nat \ {0}
  BY GhostAssumption
<1>2. CASE x < n
  BY <1>1, <1>2 DEF Reduced
<1>3. CASE x >= n
  <2>1. x = n + (x - n) /\ x - n \in 0 .. n - 1
    BY <1>1, <1>3
  <2>. QED
    BY <1>1, <2>1, <1>3 DEF Reduced
<1>. QED
  BY <1>1, <1>2, <1>3

\* The k-th slot after slot e.
At(e, k) == (e + k) % GHST_NM_RCV

\* How far slot b is after slot e.
Dist(b, e) == (b - e + GHST_NM_RCV) % GHST_NM_RCV

LEMMA Indices ==
  ASSUME NEW b \in Slot, NEW e \in Slot, NEW k \in 0 .. GHST_NM_RCV
  PROVE  /\ At(e, k) = IF e + k < GHST_NM_RCV THEN e + k ELSE e + k - GHST_NM_RCV
         /\ At(e, k) \in Slot
         /\ After(b) = IF b = GHST_NM_RCV - 1 THEN 0 ELSE b + 1
         /\ After(b) \in Slot
         /\ Dist(b, e) = IF b >= e THEN b - e ELSE b - e + GHST_NM_RCV
         /\ Dist(b, e) \in Slot
<1>1. GHST_NM_RCV \in Nat /\ GHST_NM_RCV >= 2
  BY GhostAssumption
<1>2. /\ b \in Nat /\ e \in Nat /\ k \in Nat
      /\ b < GHST_NM_RCV /\ e < GHST_NM_RCV /\ k <= GHST_NM_RCV
  BY <1>1 DEF Slot
<1>3. Reduced(e + k) = IF e + k < GHST_NM_RCV THEN e + k ELSE e + k - GHST_NM_RCV
  <2>. DEFINE x == e + k
  <2>1. x \in Nat /\ x < GHST_NM_RCV + GHST_NM_RCV
    BY <1>1, <1>2
  <2>. HIDE DEF x
  <2>2. Reduced(x) = IF x < GHST_NM_RCV THEN x ELSE x - GHST_NM_RCV
    BY <2>1, ModStep
  <2>. QED
    BY <1>1, <1>2, <2>2 DEF x
<1>4. Reduced(b + 1) = IF b + 1 < GHST_NM_RCV THEN b + 1 ELSE b + 1 - GHST_NM_RCV
  <2>. DEFINE x == b + 1
  <2>1. x \in Nat /\ x < GHST_NM_RCV + GHST_NM_RCV
    BY <1>1, <1>2
  <2>. HIDE DEF x
  <2>2. Reduced(x) = IF x < GHST_NM_RCV THEN x ELSE x - GHST_NM_RCV
    BY <2>1, ModStep
  <2>. QED
    BY <1>1, <1>2, <2>2 DEF x
<1>5. Reduced(b - e + GHST_NM_RCV) =
        IF b - e + GHST_NM_RCV < GHST_NM_RCV THEN b - e + GHST_NM_RCV
                                             ELSE b - e + GHST_NM_RCV - GHST_NM_RCV
  <2>. DEFINE x == b - e + GHST_NM_RCV
  <2>1. x \in Nat /\ x < GHST_NM_RCV + GHST_NM_RCV
    BY <1>1, <1>2
  <2>. HIDE DEF x
  <2>2. Reduced(x) = IF x < GHST_NM_RCV THEN x ELSE x - GHST_NM_RCV
    BY <2>1, ModStep
  <2>. QED
    BY <1>1, <1>2, <2>2 DEF x
<1>6. At(e, k) = Reduced(e + k) /\ After(b) = Reduced(b + 1)
      /\ Dist(b, e) = Reduced(b - e + GHST_NM_RCV)
  BY DEF At, After, Dist, Reduced
<1>. QED
  BY <1>1, <1>2, <1>3, <1>4, <1>5, <1>6 DEF Slot

-----------------------------------------------------------------------------
(* The inductive invariant. *)

\* While a packet is being written its slot is not the last free one.
WriteInv ==
  /\ gpc # "recv" => msg \in Packet
  /\ gpc \in {"copy", "copying", "publish"} =>
       nextslot = After(ghst_bgn) /\ nextslot # ghst_end
  /\ gpc = "publish" => buffRX[ghst_bgn] = msg

\* What ghost_get decided to take is still there.
ReadInv ==
  /\ upc = "avail" => copied = <<>>
  /\ upc = "read" => /\ get_pkt <= Avail
                     /\ get_pkt <= NB_PKT_MAX - nb_pkt
                     /\ Len(copied) <= get_pkt
                     /\ \A i \in 1 .. Len(copied) :
                          copied[i] = buffRX[At(ghst_end, i - 1)]

\* The slots between the two indices hold whole packets.
WholeInv ==
  /\ \A k \in 0 .. Avail - 1 : buffRX[At(ghst_end, k)] # Torn
  /\ NoTornRead

\* The datagram being handled was neither queued, handed over nor dropped yet.
LastPacket == IF gpc = "recv" THEN msg ELSE msg - 1

FreshInv ==
  /\ \A k \in 0 .. Avail - 1 : buffRX[At(ghst_end, k)] <= LastPacket
  /\ \A i \in 1 .. Len(got) : got[i] <= LastPacket
  /\ \A p \in lost : p <= LastPacket

Inv == TypeOK /\ WriteInv /\ ReadInv /\ WholeInv /\ FreshInv

-----------------------------------------------------------------------------
(* The arithmetic of the four moments that move or use an index. *)

LEMMA AvailSlot ==
  ASSUME TypeOK
  PROVE  Avail \in Slot
<1>1. ghst_bgn \in Slot /\ ghst_end \in Slot /\ 0 \in 0 .. GHST_NM_RCV
  BY GhostAssumption DEF TypeOK
<1>2. Dist(ghst_bgn, ghst_end) \in Slot
  BY <1>1, Indices
<1>. QED
  BY <1>2 DEF Avail, Dist

\* No queued slot is touched by a copy to the first free one.
LEMMA UntouchedQueue ==
  ASSUME TypeOK, After(ghst_bgn) # ghst_end, NEW k \in 0 .. Avail - 1
  PROVE  At(ghst_end, k) \in Slot \ Touched(ghst_bgn)
<1>1. /\ ghst_bgn \in Slot /\ ghst_end \in Slot
      /\ Avail \in Slot /\ Avail = Dist(ghst_bgn, ghst_end)
  BY AvailSlot DEF TypeOK, Avail, Dist
<1>2. k \in 0 .. GHST_NM_RCV
  BY <1>1, GhostAssumption DEF Slot
<1>3. /\ At(ghst_end, k) = IF ghst_end + k < GHST_NM_RCV THEN ghst_end + k
                                                         ELSE ghst_end + k - GHST_NM_RCV
      /\ At(ghst_end, k) \in Slot
      /\ After(ghst_bgn) = IF ghst_bgn = GHST_NM_RCV - 1 THEN 0 ELSE ghst_bgn + 1
      /\ Avail = IF ghst_bgn >= ghst_end THEN ghst_bgn - ghst_end
                                         ELSE ghst_bgn - ghst_end + GHST_NM_RCV
  BY <1>1, <1>2, Indices
<1>4. /\ At(ghst_end, k) # ghst_bgn
      /\ ghst_bgn < GHST_NM_RCV - 1 => At(ghst_end, k) # ghst_bgn + 1
  BY <1>1, <1>3, GhostAssumption DEF Slot
<1>. QED
  BY <1>3, <1>4 DEF Touched

LEMMA QueuedKind ==
  ASSUME TypeOK, NEW k \in 0 .. Avail - 1
  PROVE  At(ghst_end, k) \in Slot /\ buffRX[At(ghst_end, k)] \in Nat
<1>1. ghst_end \in Slot /\ k \in 0 .. GHST_NM_RCV
  BY AvailSlot, GhostAssumption DEF TypeOK, Slot
<1>2. At(ghst_end, k) \in Slot
  BY <1>1, Indices
<1>. QED
  BY <1>2 DEF TypeOK, Packet, Torn

\* Publishing adds the written slot at the end of the queue.
LEMMA AvailAfterPublish ==
  ASSUME TypeOK, After(ghst_bgn) # ghst_end
  PROVE  /\ Dist(After(ghst_bgn), ghst_end) = Avail + 1
         /\ At(ghst_end, Avail) = ghst_bgn
         /\ Avail < GHST_NM_RCV - 1
<1>1. /\ ghst_bgn \in Slot /\ ghst_end \in Slot
      /\ Avail \in Slot /\ Avail = Dist(ghst_bgn, ghst_end)
  BY AvailSlot DEF TypeOK, Avail, Dist
<1>2. Avail \in 0 .. GHST_NM_RCV /\ After(ghst_bgn) \in Slot
  BY <1>1, Indices, GhostAssumption DEF Slot
<1>3. At(ghst_end, Avail) = IF ghst_end + Avail < GHST_NM_RCV THEN ghst_end + Avail
                                               ELSE ghst_end + Avail - GHST_NM_RCV
  BY <1>1, <1>2, Indices
<1>4. /\ After(ghst_bgn) = IF ghst_bgn = GHST_NM_RCV - 1 THEN 0 ELSE ghst_bgn + 1
      /\ Avail = IF ghst_bgn >= ghst_end THEN ghst_bgn - ghst_end
                                         ELSE ghst_bgn - ghst_end + GHST_NM_RCV
  BY <1>1, <1>2, Indices
<1>5. Dist(After(ghst_bgn), ghst_end) =
        IF After(ghst_bgn) >= ghst_end THEN After(ghst_bgn) - ghst_end
                                       ELSE After(ghst_bgn) - ghst_end + GHST_NM_RCV
  BY <1>1, <1>2, Indices
<1>. QED
  BY <1>1, <1>3, <1>4, <1>5, GhostAssumption DEF Slot

\* Releasing g slots removes them from the front of the queue.
LEMMA AvailAfterAdvance ==
  ASSUME TypeOK, NEW g \in 0 .. Avail
  PROVE  /\ At(ghst_end, g) \in Slot
         /\ Dist(ghst_bgn, At(ghst_end, g)) = Avail - g
         /\ \A k \in 0 .. Avail - g - 1 : At(At(ghst_end, g), k) = At(ghst_end, g + k)
<1>1. /\ ghst_bgn \in Slot /\ ghst_end \in Slot
      /\ Avail \in Slot /\ Avail = Dist(ghst_bgn, ghst_end)
  BY AvailSlot DEF TypeOK, Avail, Dist
<1>2. g \in 0 .. GHST_NM_RCV
  BY <1>1, GhostAssumption DEF Slot
<1>3. /\ At(ghst_end, g) = IF ghst_end + g < GHST_NM_RCV THEN ghst_end + g
                                                         ELSE ghst_end + g - GHST_NM_RCV
      /\ At(ghst_end, g) \in Slot
      /\ Avail = IF ghst_bgn >= ghst_end THEN ghst_bgn - ghst_end
                                         ELSE ghst_bgn - ghst_end + GHST_NM_RCV
  BY <1>1, <1>2, Indices
<1>4. Dist(ghst_bgn, At(ghst_end, g)) =
        IF ghst_bgn >= At(ghst_end, g) THEN ghst_bgn - At(ghst_end, g)
                                       ELSE ghst_bgn - At(ghst_end, g) + GHST_NM_RCV
  BY <1>1, <1>2, <1>3, Indices
<1>5. Dist(ghst_bgn, At(ghst_end, g)) = Avail - g
  BY <1>1, <1>3, <1>4, GhostAssumption DEF Slot
<1>6. ASSUME NEW k \in 0 .. Avail - g - 1
      PROVE  At(At(ghst_end, g), k) = At(ghst_end, g + k)
  <2>1. k \in 0 .. GHST_NM_RCV /\ g + k \in 0 .. GHST_NM_RCV
    BY <1>1, GhostAssumption DEF Slot
  <2>2. At(At(ghst_end, g), k) =
          IF At(ghst_end, g) + k < GHST_NM_RCV THEN At(ghst_end, g) + k
                                               ELSE At(ghst_end, g) + k - GHST_NM_RCV
    <3>. DEFINE f == At(ghst_end, g)
    <3>1. f \in Slot
      BY <1>3
    <3>. HIDE DEF f
    <3>2. At(f, k) = IF f + k < GHST_NM_RCV THEN f + k ELSE f + k - GHST_NM_RCV
      BY <2>1, <3>1, Indices
    <3>. QED
      BY <3>2 DEF f
  <2>3. At(ghst_end, g + k) =
          IF ghst_end + (g + k) < GHST_NM_RCV THEN ghst_end + (g + k)
                                              ELSE ghst_end + (g + k) - GHST_NM_RCV
    BY <2>1, <1>1, Indices
  <2>. QED
    BY <2>1, <2>2, <2>3, <1>1, <1>3, GhostAssumption DEF Slot
<1>. QED
  BY <1>3, <1>5, <1>6

-----------------------------------------------------------------------------
(* The invariant is inductive. *)

LEMMA InvInit == Init => Inv
<1>. SUFFICES ASSUME Init PROVE Inv
  OBVIOUS
<1>1. TypeOK
  BY GhostAssumption DEF Init, TypeOK, Slot, Torn
<1>2. Avail = 0
  <2>1. Dist(0, 0) = 0
    BY GhostAssumption, Indices DEF Slot
  <2>. QED
    BY <2>1 DEF Init, Avail, Dist
<1>3. \A k \in 0 .. Avail - 1 : FALSE
  BY <1>2
<1>. QED
  BY <1>1, <1>3 DEF Init, Inv, WriteInv, ReadInv, WholeInv, NoTornRead, FreshInv

LEMMA RecvKeepsInv == Inv /\ Recv => Inv'
<1>. SUFFICES ASSUME Inv, Recv PROVE Inv'
  OBVIOUS
<1>. USE DEF Inv, Recv, gvars, uvars
<1>1. TypeOK'
  BY GhostAssumption DEF TypeOK
<1>2. WriteInv'
  BY <1>1 DEF TypeOK, WriteInv, Packet
<1>3. ReadInv' /\ WholeInv'
  BY DEF ReadInv, WholeInv, NoTornRead, At, Avail
<1>4. FreshInv'
  <2>1. LastPacket' = LastPacket
    BY DEF LastPacket, TypeOK
  <2>. QED
    BY <2>1 DEF FreshInv, At, Avail
<1>. QED
  BY <1>1, <1>2, <1>3, <1>4

LEMMA TestFullKeepsInv == Inv /\ TestFull => Inv'
<1>. SUFFICES ASSUME Inv, TestFull PROVE Inv'
  OBVIOUS
<1>. USE DEF Inv, TestFull, gvars, uvars
<1>1. nextslot' \in Slot
  <2>1. ghst_bgn \in Slot /\ 0 \in 0 .. GHST_NM_RCV
    BY GhostAssumption DEF TypeOK
  <2>. QED
    BY <2>1, Indices
<1>2. msg \in Packet
  BY DEF WriteInv
<1>3. TypeOK'
  BY <1>1, <1>2 DEF TypeOK
<1>4. WriteInv'
  BY <1>2 DEF WriteInv, Full, After
<1>5. ReadInv' /\ WholeInv'
  BY DEF ReadInv, WholeInv, NoTornRead, At, Avail
<1>6. FreshInv'
  <2>1. CASE gpc' = "recv"
    <3>1. LastPacket' = msg /\ LastPacket = msg - 1 /\ lost' = lost \cup {msg}
      BY <2>1 DEF LastPacket
    <3>2. \A k \in 0 .. Avail' - 1 : buffRX'[At(ghst_end, k)'] <= msg
      BY <3>1, <1>2, QueuedKind DEF FreshInv, At, Avail, Packet
    <3>3. \A i \in 1 .. Len(got') : got'[i] <= msg
      BY <3>1, <1>2 DEF FreshInv, TypeOK, Packet, Torn
    <3>4. \A q \in lost' : q <= msg
      BY <3>1, <1>2 DEF FreshInv, TypeOK, Packet
    <3>. QED
      BY <3>1, <3>2, <3>3, <3>4 DEF FreshInv
  <2>2. CASE gpc' = "copy"
    BY <2>2 DEF LastPacket, FreshInv, At, Avail
  <2>. QED
    BY <2>1, <2>2
<1>. QED
  BY <1>3, <1>4, <1>5, <1>6

LEMMA CopyBeginKeepsInv == Inv /\ CopyBegin => Inv'
<1>. SUFFICES ASSUME Inv, CopyBegin PROVE Inv'
  OBVIOUS
<1>. USE DEF Inv, CopyBegin, gvars, uvars
<1>1. TypeOK'
  BY DEF TypeOK, Torn
<1>2. WriteInv'
  BY DEF WriteInv, After
<1>3. Avail' = Avail /\ \A k : At(ghst_end, k)' = At(ghst_end, k)
  BY DEF Avail, At
<1>4. \A k \in 0 .. Avail - 1 : buffRX'[At(ghst_end, k)] = buffRX[At(ghst_end, k)]
  BY UntouchedQueue DEF WriteInv, Touched
<1>5. ReadInv'
  <2>1. ASSUME upc = "read", NEW i \in 1 .. Len(copied)
        PROVE  i - 1 \in 0 .. Avail - 1
    BY <2>1, AvailSlot DEF ReadInv, TypeOK, Slot
  <2>. QED
    BY <1>3, <1>4, <2>1 DEF ReadInv
<1>6. WholeInv' /\ FreshInv'
  BY <1>3, <1>4 DEF WholeInv, NoTornRead, FreshInv, LastPacket
<1>. QED
  BY <1>1, <1>2, <1>5, <1>6

LEMMA CopyEndKeepsInv == Inv /\ CopyEnd => Inv'
<1>. SUFFICES ASSUME Inv, CopyEnd PROVE Inv'
  OBVIOUS
<1>. USE DEF Inv, CopyEnd, gvars, uvars
<1>1. TypeOK'
  BY DEF TypeOK, WriteInv
<1>2. WriteInv'
  BY DEF WriteInv, After, TypeOK
<1>3. Avail' = Avail /\ \A k : At(ghst_end, k)' = At(ghst_end, k)
  BY DEF Avail, At
<1>4. \A k \in 0 .. Avail - 1 : buffRX'[At(ghst_end, k)] = buffRX[At(ghst_end, k)]
  BY UntouchedQueue DEF WriteInv, Touched, TypeOK
<1>5. ReadInv'
  <2>1. ASSUME upc = "read", NEW i \in 1 .. Len(copied)
        PROVE  i - 1 \in 0 .. Avail - 1
    BY <2>1, AvailSlot DEF ReadInv, TypeOK, Slot
  <2>. QED
    BY <1>3, <1>4, <2>1 DEF ReadInv
<1>6. WholeInv' /\ FreshInv'
  BY <1>3, <1>4 DEF WholeInv, NoTornRead, FreshInv, LastPacket
<1>. QED
  BY <1>1, <1>2, <1>5, <1>6

LEMMA PublishKeepsInv == Inv /\ Publish => Inv'
<1>. SUFFICES ASSUME Inv, Publish PROVE Inv'
  OBVIOUS
<1>. USE DEF Inv, Publish, gvars, uvars
<1>1. TypeOK'
  BY DEF TypeOK
<1>2. WriteInv'
  BY DEF WriteInv
<1>3. /\ nextslot = After(ghst_bgn) /\ After(ghst_bgn) # ghst_end
      /\ buffRX[ghst_bgn] = msg /\ msg \in Packet
  BY DEF WriteInv
<1>4. Avail' = Avail + 1 /\ At(ghst_end, Avail) = ghst_bgn /\ Avail \in Nat
  BY <1>3, AvailAfterPublish, AvailSlot DEF Avail, Dist, Slot
<1>5. \A k : At(ghst_end, k)' = At(ghst_end, k)
  BY DEF At
<1>6. \A k \in 0 .. Avail' - 1 : k = Avail \/ k \in 0 .. Avail - 1
  BY <1>4
<1>7. ReadInv'
  BY <1>4, <1>5 DEF ReadInv, TypeOK
<1>8. WholeInv'
  BY <1>3, <1>4, <1>5, <1>6 DEF WholeInv, NoTornRead, Packet, Torn
<1>9. FreshInv'
  <2>1. LastPacket' = msg /\ LastPacket = msg - 1
    BY DEF LastPacket
  <2>2. \A k \in 0 .. Avail - 1 : buffRX[At(ghst_end, k)] <= msg
    BY <2>1, <1>3, QueuedKind DEF FreshInv, Packet
  <2>3. \A i \in 1 .. Len(got) : got[i] <= msg
    BY <2>1, <1>3 DEF FreshInv, TypeOK, Packet, Torn
  <2>4. \A q \in lost : q <= msg
    BY <2>1, <1>3 DEF FreshInv, TypeOK, Packet
  <2>. QED
    BY <2>1, <2>2, <2>3, <2>4, <1>3, <1>4, <1>5, <1>6 DEF FreshInv, Packet
<1>. QED
  BY <1>1, <1>2, <1>7, <1>8, <1>9

LEMMA ReceiveKeepsInv ==
  ASSUME Inv, NEW n \in 0 .. NB_PKT_MAX, Receive(n)
  PROVE  Inv'
<1>. USE DEF Inv, Receive, gvars, uvars
<1>1. TypeOK'
  BY DEF TypeOK
<1>2. WriteInv' /\ ReadInv'
  BY DEF WriteInv, ReadInv, After
<1>3. WholeInv' /\ FreshInv'
  BY DEF WholeInv, NoTornRead, FreshInv, LastPacket, At, Avail
<1>. QED
  BY <1>1, <1>2, <1>3

LEMMA GetAvailKeepsInv == Inv /\ GetAvail => Inv'
<1>. SUFFICES ASSUME Inv, GetAvail PROVE Inv'
  OBVIOUS
<1>. USE DEF Inv, GetAvail, gvars, uvars
<1>1. /\ get_pkt' \in 0 .. 255
      /\ get_pkt' <= Avail /\ get_pkt' <= NB_PKT_MAX - nb_pkt
  <2>. DEFINE room == NB_PKT_MAX - nb_pkt
  <2>1. Avail \in 0 .. 255
    BY AvailSlot, GhostAssumption DEF Slot
  <2>2. room \in 0 .. 255
    BY GhostAssumption DEF TypeOK
  <2>3. get_pkt' = IF Avail < room THEN Avail ELSE room
    BY DEF Wanted
  <2>. HIDE DEF room, Inv, GetAvail
  <2>4. get_pkt' \in 0 .. 255 /\ get_pkt' <= Avail /\ get_pkt' <= room
    BY <2>1, <2>2, <2>3
  <2>. QED
    BY <2>4 DEF room
<1>2. TypeOK'
  BY <1>1 DEF TypeOK
<1>3. WriteInv'
  BY DEF WriteInv, After
<1>4. ReadInv'
  <2>1. copied' = <<>> /\ Len(copied') = 0
    BY DEF ReadInv
  <2>2. Avail' = Avail /\ nb_pkt' = nb_pkt /\ upc' = "read"
    BY DEF Avail
  <2>. HIDE DEF Inv, GetAvail
  <2>3. Len(copied') <= get_pkt' /\ \A i \in 1 .. Len(copied') : FALSE
    BY <1>1, <2>1
  <2>. QED
    BY <1>1, <2>2, <2>3 DEF ReadInv
<1>5. WholeInv' /\ FreshInv'
  BY DEF WholeInv, NoTornRead, FreshInv, LastPacket, At, Avail
<1>. QED
  BY <1>2, <1>3, <1>4, <1>5

LEMMA ReadKeepsInv == Inv /\ Read => Inv'
<1>. SUFFICES ASSUME Inv, Read PROVE Inv'
  OBVIOUS
<1>. USE DEF Inv, Read, gvars, uvars
<1>. DEFINE x == buffRX[At(ghst_end, Len(copied))]
<1>1. copied' = Append(copied, x) /\ copied \in Seq(Packet \cup {Torn})
  BY DEF At, TypeOK
<1>2. Len(copied) \in 0 .. Avail - 1
  BY <1>1, AvailSlot, LenProperties DEF ReadInv, TypeOK, Slot
<1>3. x \in Packet \cup {Torn} /\ x # Torn
  <2>1. At(ghst_end, Len(copied)) \in Slot
    BY <1>2, QueuedKind
  <2>. QED
    BY <2>1, <1>2 DEF TypeOK, WholeInv
<1>. HIDE DEF x
<1>4. /\ copied' \in Seq(Packet \cup {Torn})
      /\ Len(copied') = Len(copied) + 1
      /\ \A i \in 1 .. Len(copied) : copied'[i] = copied[i]
      /\ copied'[Len(copied) + 1] = x
      /\ Len(copied) \in Nat
  BY <1>1, <1>3, AppendProperties, LenProperties
<1>5. \A i \in 1 .. Len(copied') : i \in 1 .. Len(copied) \/ i = Len(copied) + 1
  BY <1>4
<1>6. TypeOK'
  BY <1>4 DEF TypeOK
<1>7. WriteInv'
  BY DEF WriteInv, After
<1>8. ReadInv'
  <2>1. Avail' = Avail /\ \A k : At(ghst_end, k)' = At(ghst_end, k)
    BY DEF Avail, At
  <2>2. Len(copied') <= get_pkt
    <3>1. Len(copied) < get_pkt /\ get_pkt \in Nat
      BY DEF TypeOK
    <3>2. Len(copied) \in Nat /\ Len(copied') = Len(copied) + 1
      BY <1>4
    <3>. HIDE DEF Inv, Read
    <3>. QED
      BY <3>1, <3>2
  <2>3. \A i \in 1 .. Len(copied') : copied'[i] = buffRX[At(ghst_end, i - 1)]
    <3>1. (Len(copied) + 1) - 1 = Len(copied)
      BY <1>4
    <3>. QED
      BY <1>4, <1>5, <3>1 DEF ReadInv, x
  <2>. QED
    BY <2>1, <2>2, <2>3 DEF ReadInv
<1>9. WholeInv'
  <2>1. NoTornRead'
    BY <1>1, <1>3, <1>4, <1>5, LenProperties DEF WholeInv, NoTornRead
  <2>. QED
    BY <2>1 DEF WholeInv, At, Avail
<1>10. FreshInv'
  BY DEF FreshInv, LastPacket, At, Avail
<1>. QED
  BY <1>6, <1>7, <1>8, <1>9, <1>10

LEMMA AdvanceKeepsInv == Inv /\ Advance => Inv'
<1>. SUFFICES ASSUME Inv, Advance PROVE Inv'
  OBVIOUS
<1>. USE DEF Inv, Advance, gvars, uvars
<1>1. /\ get_pkt \in 0 .. Avail /\ get_pkt <= NB_PKT_MAX - nb_pkt
      /\ Avail \in 0 .. 255
  <2>1. Avail \in 0 .. 255
    <3>1. Avail \in Slot
      BY AvailSlot
    <3>. HIDE DEF Inv, Advance
    <3>. QED
      BY <3>1, GhostAssumption DEF Slot
  <2>2. get_pkt \in Nat /\ get_pkt <= Avail /\ get_pkt <= NB_PKT_MAX - nb_pkt
    BY DEF ReadInv, TypeOK
  <2>. QED
    BY <2>1, <2>2
<1>2. ghst_end' = At(ghst_end, get_pkt) /\ ghst_end' \in Slot
  BY <1>1, AvailAfterAdvance DEF At
<1>3. Avail' = Avail - get_pkt
  BY <1>1, <1>2, AvailAfterAdvance DEF Avail, Dist
<1>4. ASSUME NEW k \in 0 .. Avail' - 1
      PROVE  /\ get_pkt + k \in 0 .. Avail - 1
             /\ At(ghst_end, k)' = At(ghst_end, get_pkt + k)
  <2>1. k \in 0 .. Avail - get_pkt - 1
    BY <1>3
  <2>2. At(ghst_end', k) = At(ghst_end, get_pkt + k)
    BY <1>1, <1>2, <2>1, AvailAfterAdvance
  <2>. QED
    BY <1>1, <2>1, <2>2 DEF At
<1>5. /\ got' \in Seq(Packet \cup {Torn})
      /\ Len(got) \in Nat /\ Len(copied) \in Nat
      /\ Len(got') = Len(got) + Len(copied)
      /\ \A i \in 1 .. Len(got') :
           got'[i] = IF i <= Len(got) THEN got[i] ELSE copied[i - Len(got)]
  <2>1. got' = got \o copied
        /\ got \in Seq(Packet \cup {Torn}) /\ copied \in Seq(Packet \cup {Torn})
    BY DEF TypeOK
  <2>. HIDE DEF Inv, Advance
  <2>. QED
    BY <2>1, ConcatProperties, LenProperties
<1>6. TypeOK'
  <2>1. nb_pkt' \in 0 .. NB_PKT_MAX
    BY <1>1, GhostAssumption DEF TypeOK
  <2>. QED
    BY <1>2, <1>5, <2>1 DEF TypeOK
<1>7. WriteInv'
  <2>1. ASSUME After(ghst_bgn) # ghst_end
        PROVE  After(ghst_bgn) # ghst_end'
    <3>1. ghst_bgn \in Slot /\ After(ghst_bgn) \in Slot
      <4>1. ghst_bgn \in Slot /\ 0 \in 0 .. GHST_NM_RCV
        BY GhostAssumption DEF TypeOK
      <4>. QED
        BY <4>1, Indices
    <3>2. Dist(After(ghst_bgn), ghst_end) = Avail + 1
      BY <2>1, AvailAfterPublish
    <3>3. ghst_end \in Slot
      BY DEF TypeOK
    <3>4. /\ Dist(After(ghst_bgn), ghst_end) =
               IF After(ghst_bgn) >= ghst_end THEN After(ghst_bgn) - ghst_end
                                 ELSE After(ghst_bgn) - ghst_end + GHST_NM_RCV
          /\ At(ghst_end, get_pkt) =
               IF ghst_end + get_pkt < GHST_NM_RCV THEN ghst_end + get_pkt
                                 ELSE ghst_end + get_pkt - GHST_NM_RCV
      <4>1. get_pkt \in 0 .. GHST_NM_RCV
        BY <1>1, AvailSlot, GhostAssumption DEF Slot
      <4>. DEFINE b == After(ghst_bgn)
      <4>2. b \in Slot
        BY <3>1
      <4>. HIDE DEF b, Inv, Advance
      <4>3. /\ Dist(b, ghst_end) = IF b >= ghst_end THEN b - ghst_end
                                                    ELSE b - ghst_end + GHST_NM_RCV
            /\ At(ghst_end, get_pkt) =
                 IF ghst_end + get_pkt < GHST_NM_RCV THEN ghst_end + get_pkt
                                   ELSE ghst_end + get_pkt - GHST_NM_RCV
        BY <4>1, <4>2, <3>3, Indices
      <4>. QED
        BY <4>3 DEF b
    <3>. HIDE DEF Inv, Advance
    <3>. QED
      BY <1>1, <1>2, <3>1, <3>2, <3>3, <3>4, GhostAssumption DEF Slot
  <2>. QED
    BY <2>1 DEF WriteInv, After
<1>8. ReadInv'
  BY DEF ReadInv
<1>9. WholeInv'
  BY <1>4 DEF WholeInv, NoTornRead
<1>10. FreshInv'
  <2>1. LastPacket' = LastPacket
    BY DEF LastPacket
  <2>2. \A k \in 0 .. Avail' - 1 : buffRX[At(ghst_end, k)'] <= LastPacket
    BY <1>4 DEF FreshInv
  <2>3. ASSUME NEW i \in 1 .. Len(got')
        PROVE  got'[i] <= LastPacket
    <3>1. CASE i <= Len(got)
      BY <3>1, <1>5 DEF FreshInv
    <3>2. CASE i > Len(got)
      <4>. DEFINE j == i - Len(got)
      <4>1. j \in 1 .. Len(copied) /\ got'[i] = copied[j]
        BY <3>2, <1>5
      <4>2. copied[j] = buffRX[At(ghst_end, j - 1)] /\ j - 1 \in 0 .. Avail - 1
        BY <4>1, <1>1, <1>5 DEF ReadInv
      <4>. QED
        BY <4>1, <4>2 DEF FreshInv
    <3>. QED
      BY <3>1, <3>2, <1>5
  <2>. QED
    BY <2>1, <2>2, <2>3 DEF FreshInv
<1>. QED
  BY <1>6, <1>7, <1>8, <1>9, <1>10

LEMMA InvNext == Inv /\ [Next]_vars => Inv'
<1>. SUFFICES ASSUME Inv, [Next]_vars PROVE Inv'
  OBVIOUS
<1>1. CASE Ghost
  BY <1>1, RecvKeepsInv, TestFullKeepsInv, CopyBeginKeepsInv, CopyEndKeepsInv,
     PublishKeepsInv DEF Ghost
<1>2. CASE Up
  BY <1>2, ReceiveKeepsInv, GetAvailKeepsInv, ReadKeepsInv, AdvanceKeepsInv DEF Up
<1>3. CASE UNCHANGED vars
  BY <1>3 DEF vars, gvars, uvars, Inv, TypeOK, WriteInv, ReadInv, WholeInv, NoTornRead,
     FreshInv, LastPacket, At, Avail, After
<1>. QED
  BY <1>1, <1>2, <1>3 DEF Next

LEMMA Invariance == Spec => []Inv
<1>1. Init => Inv
  BY InvInit
<1>2. Inv /\ [Next]_vars => Inv'
  BY InvNext
<1>. QED
  BY <1>1, <1>2, PTL DEF Spec

\* The indices, counters and batches keep their types: in particular ghost_get
\* never completes a batch beyond NB_PKT_MAX packets.
THEOREM GhostTypeCorrect == Spec => []TypeOK
<1>1. Inv => TypeOK
  BY DEF Inv
<1>. QED
  BY <1>1, Invariance, PTL

\* thread_up never copies a packet that thread_ghost is writing, whatever the
\* size of the ring and of a batch.
THEOREM NeverTorn == Spec => []NoTornRead
<1>1. Inv => NoTornRead
  BY DEF Inv, WholeInv
<1>. QED
  BY <1>1, Invariance, PTL

-----------------------------------------------------------------------------
(* The ring implements the bounded FIFO. *)

QueueFacts ==
  /\ Queue \in Seq(Packet \cup {Torn})
  /\ Len(Queue) = Avail
  /\ Avail \in Nat /\ Avail <= GHST_NM_RCV - 1
  /\ DOMAIN Queue = 1 .. Avail
  /\ \A i \in 1 .. Avail : Queue[i] = buffRX[At(ghst_end, i - 1)]

LEMMA QueueIsSeq == TypeOK => QueueFacts
<1>. SUFFICES ASSUME TypeOK PROVE QueueFacts
  OBVIOUS
<1>1. Avail \in Nat /\ Avail <= GHST_NM_RCV - 1
  BY AvailSlot, GhostAssumption DEF Slot
<1>2. ASSUME NEW i \in 1 .. Avail
      PROVE  /\ i - 1 \in 0 .. Avail - 1
             /\ (ghst_end + i - 1) % GHST_NM_RCV = At(ghst_end, i - 1)
             /\ buffRX[At(ghst_end, i - 1)] \in Packet \cup {Torn}
  <2>1. i - 1 \in 0 .. Avail - 1 /\ ghst_end + i - 1 = ghst_end + (i - 1)
    BY <1>1 DEF TypeOK, Slot
  <2>2. At(ghst_end, i - 1) \in Slot
    BY <2>1, QueuedKind
  <2>. QED
    BY <2>1, <2>2 DEF At, TypeOK
<1>3. Queue \in [1 .. Avail -> Packet \cup {Torn}]
  BY <1>2 DEF Queue
<1>4. Queue \in Seq(Packet \cup {Torn})
  BY <1>1, <1>3, SeqDef
<1>5. Len(Queue) = Avail
  <2>1. Len(Queue) \in Nat /\ 1 .. Len(Queue) = 1 .. Avail
    BY <1>3, <1>4, LenProperties
  <2>. QED
    BY <2>1, <1>1
<1>. QED
  BY <1>1, <1>2, <1>3, <1>4, <1>5 DEF Queue, QueueFacts

LEMMA NextQueueIsSeq == TypeOK' => QueueFacts'
BY QueueIsSeq, PTL

\* The datagram being handled is new to the buffer.
LEMMA MsgIsFresh ==
  ASSUME Inv, gpc # "recv"
  PROVE  Fifo!Fresh(msg)
<1>1. msg \in Packet /\ LastPacket = msg - 1 /\ msg \in Nat
  BY DEF Inv, WriteInv, LastPacket, Packet
<1>2. msg \notin lost
  BY <1>1 DEF Inv, FreshInv
<1>3. \A i \in DOMAIN Queue : Queue[i] # msg
  <2>1. ASSUME NEW i \in 1 .. Avail PROVE buffRX[At(ghst_end, i - 1)] # msg
    <3>1. i - 1 \in 0 .. Avail - 1
      BY QueueIsSeq DEF Inv, QueueFacts
    <3>. QED
      BY <3>1, <1>1 DEF Inv, FreshInv
  <2>. QED
    BY <2>1, QueueIsSeq DEF Inv, QueueFacts
<1>4. \A i \in DOMAIN got : got[i] # msg
  BY <1>1, LenProperties DEF Inv, FreshInv, TypeOK
<1>. QED
  BY <1>2, <1>3, <1>4 DEF Fifo!Fresh

LEMMA InitIsFifoInit == Init => Fifo!FifoInit
<1>. SUFFICES ASSUME Init PROVE Fifo!FifoInit
  OBVIOUS
<1>1. TypeOK
  BY InvInit DEF Inv
<1>2. Avail = 0
  <2>1. Dist(0, 0) = 0
    BY GhostAssumption, Indices DEF Slot
  <2>. QED
    BY <2>1 DEF Init, Avail, Dist
<1>3. Queue = <<>>
  BY <1>1, <1>2, QueueIsSeq, EmptySeq DEF QueueFacts
<1>. QED
  BY <1>3 DEF Init, Fifo!FifoInit

\* Steps that move no index leave the queue alone, even if they write a slot.
LEMMA SameQueue ==
  ASSUME Inv, Inv', UNCHANGED <<ghst_bgn, ghst_end>>,
         \A k \in 0 .. Avail - 1 : buffRX'[At(ghst_end, k)] = buffRX[At(ghst_end, k)]
  PROVE  Queue' = Queue
<1>1. Avail' = Avail /\ \A k : At(ghst_end, k)' = At(ghst_end, k)
  BY DEF Avail, At
<1>2. /\ Queue \in Seq(Packet \cup {Torn}) /\ Len(Queue) = Avail
      /\ \A i \in 1 .. Avail : Queue[i] = buffRX[At(ghst_end, i - 1)]
      /\ Avail \in Nat
  BY QueueIsSeq DEF Inv, QueueFacts
<1>3. /\ Queue' \in Seq(Packet \cup {Torn}) /\ Len(Queue') = Avail'
      /\ \A i \in 1 .. Avail' : Queue'[i] = buffRX'[At(ghst_end, i - 1)']
  BY NextQueueIsSeq DEF Inv, QueueFacts
<1>4. ASSUME NEW i \in 1 .. Avail PROVE Queue'[i] = Queue[i]
  <2>1. i - 1 \in 0 .. Avail - 1
    BY <1>2
  <2>. QED
    BY <2>1, <1>1, <1>2, <1>3 DEF Inv
<1>. QED
  BY <1>1, <1>2, <1>3, <1>4, SeqEqual DEF Inv

\* A step that writes no slot and moves no index is invisible.
LEMMA Invisible ==
  ASSUME Inv, Inv', UNCHANGED <<ghst_bgn, ghst_end, buffRX, got, lost>>
  PROVE  UNCHANGED <<Queue, got, lost>>
BY SameQueue

\* A copy is invisible: its slots are not in the queue.
LEMMA CopyInvisible ==
  ASSUME Inv, Inv', CopyBegin \/ CopyEnd
  PROVE  UNCHANGED <<Queue, got, lost>>
<1>1. /\ TypeOK /\ After(ghst_bgn) # ghst_end
      /\ UNCHANGED <<ghst_bgn, ghst_end, got, lost>>
  BY DEF Inv, WriteInv, CopyBegin, CopyEnd
<1>2. \A k \in 0 .. Avail - 1 : At(ghst_end, k) \in Slot \ Touched(ghst_bgn)
  BY <1>1, UntouchedQueue
<1>3. \A i \in Slot \ Touched(ghst_bgn) : buffRX'[i] = buffRX[i]
  BY <1>1 DEF CopyBegin, CopyEnd, Touched, TypeOK
<1>. QED
  BY <1>1, <1>2, <1>3, SameQueue

LEMMA TestFullIsLose ==
  ASSUME Inv, Inv', TestFull
  PROVE  Fifo!Lose(msg) \/ UNCHANGED <<Queue, got, lost>>
<1>1. CASE ~Full(nextslot')
  BY <1>1, Invisible DEF TestFull, gvars, uvars
<1>2. CASE Full(nextslot')
  <2>1. /\ After(ghst_bgn) = ghst_end /\ lost' = lost \cup {msg} /\ gpc # "recv"
        /\ UNCHANGED <<ghst_bgn, ghst_end, buffRX, got>>
    BY <1>2 DEF TestFull, Full, uvars
  <2>2. Queue' = Queue
    BY <2>1, SameQueue
  <2>3. Avail = GHST_NM_RCV - 1
    <3>1. ghst_bgn \in Slot /\ ghst_end \in Slot /\ 0 \in 0 .. GHST_NM_RCV
      BY GhostAssumption DEF Inv, TypeOK
    <3>2. /\ After(ghst_bgn) = IF ghst_bgn = GHST_NM_RCV - 1 THEN 0 ELSE ghst_bgn + 1
          /\ Avail = IF ghst_bgn >= ghst_end THEN ghst_bgn - ghst_end
                                             ELSE ghst_bgn - ghst_end + GHST_NM_RCV
      BY <3>1, Indices DEF Avail, Dist
    <3>3. /\ GHST_NM_RCV \in Nat /\ GHST_NM_RCV >= 2
          /\ ghst_bgn \in Nat /\ ghst_bgn < GHST_NM_RCV /\ ghst_end \in Nat
      BY <3>1, GhostAssumption DEF Slot
    <3>4. CASE ghst_bgn = GHST_NM_RCV - 1
      <4>1. ghst_end = 0
        BY <2>1, <3>2, <3>4
      <4>2. ghst_bgn >= ghst_end /\ ghst_bgn - ghst_end = GHST_NM_RCV - 1
        BY <4>1, <3>3, <3>4
      <4>. QED
        BY <4>2, <3>2
    <3>5. CASE ghst_bgn # GHST_NM_RCV - 1
      <4>1. ghst_end = ghst_bgn + 1
        BY <2>1, <3>2, <3>5
      <4>2. /\ ~(ghst_bgn >= ghst_end)
            /\ ghst_bgn - ghst_end + GHST_NM_RCV = GHST_NM_RCV - 1
        BY <4>1, <3>3
      <4>. QED
        BY <4>2, <3>2
    <3>. QED
      BY <3>4, <3>5
  <2>4. Len(Queue) = GHST_NM_RCV - 1
    BY <2>3, QueueIsSeq DEF QueueFacts, Inv
  <2>. QED
    BY <2>1, <2>2, <2>4, MsgIsFresh DEF Fifo!Lose
<1>. QED
  BY <1>1, <1>2

LEMMA PublishIsPut ==
  ASSUME Inv, Inv', Publish
  PROVE  Fifo!Put(msg)
<1>1. /\ After(ghst_bgn) # ghst_end /\ buffRX[ghst_bgn] = msg /\ msg \in Packet
      /\ ghst_bgn' = After(ghst_bgn)
      /\ UNCHANGED <<ghst_end, buffRX, got, lost>> /\ gpc # "recv"
  BY DEF Inv, WriteInv, Publish, uvars
<1>2. /\ Avail' = Avail + 1 /\ At(ghst_end, Avail) = ghst_bgn
      /\ Avail < GHST_NM_RCV - 1
  BY <1>1, AvailAfterPublish DEF Avail, Dist, Inv
<1>3. QueueFacts /\ QueueFacts'
  BY QueueIsSeq, NextQueueIsSeq DEF Inv
<1>4. \A i \in 1 .. Avail' :
        Queue'[i] = IF i = Avail + 1 THEN msg ELSE Queue[i]
  <2>1. ASSUME NEW i \in 1 .. Avail'
        PROVE  Queue'[i] = buffRX[At(ghst_end, i - 1)]
    BY <1>1, <1>3 DEF QueueFacts, At
  <2>2. ASSUME NEW i \in 1 .. Avail', i # Avail + 1
        PROVE  Queue[i] = buffRX[At(ghst_end, i - 1)]
    BY <1>2, <1>3, <2>2 DEF QueueFacts
  <2>3. (Avail + 1) - 1 = Avail
    BY <1>3 DEF QueueFacts
  <2>. QED
    BY <1>1, <1>2, <2>1, <2>2, <2>3
<1>5. Queue' = Append(Queue, msg)
  <2>. DEFINE S == Packet \cup {Torn}
              q == Append(Queue, msg)
  <2>1. /\ q \in Seq(S) /\ Len(q) = Avail + 1
        /\ \A i \in 1 .. Avail : q[i] = Queue[i]
        /\ q[Avail + 1] = msg
    <3>1. Queue \in Seq(S) /\ Len(Queue) = Avail /\ msg \in S
      BY <1>1, <1>3 DEF QueueFacts
    <3>. HIDE DEF S
    <3>. QED
      BY <3>1, AppendProperties
  <2>2. Queue' \in Seq(S) /\ Len(Queue') = Avail + 1 /\ Avail \in Nat
    BY <1>2, <1>3 DEF QueueFacts
  <2>. HIDE DEF q, S
  <2>3. \A i \in 1 .. Len(Queue') : Queue'[i] = q[i]
    BY <1>2, <1>4, <2>1, <2>2
  <2>4. Queue' = q
    BY <2>1, <2>2, <2>3, SeqEqual
  <2>. QED
    BY <2>4 DEF q
<1>. QED
  BY <1>1, <1>2, <1>3, <1>5, MsgIsFresh DEF Fifo!Put, QueueFacts

LEMMA AdvanceIsGet ==
  ASSUME Inv, Inv', Advance
  PROVE  \/ \E k \in 1 .. Len(Queue) : Fifo!Get(k)
         \/ UNCHANGED <<Queue, got, lost>>
<1>1. /\ get_pkt \in Nat /\ get_pkt <= Avail /\ Len(copied) = get_pkt
      /\ \A i \in 1 .. get_pkt : copied[i] = buffRX[At(ghst_end, i - 1)]
      /\ copied \in Seq(Packet \cup {Torn}) /\ got \in Seq(Packet \cup {Torn})
      /\ ghst_end' = At(ghst_end, get_pkt) /\ got' = got \o copied
      /\ UNCHANGED <<ghst_bgn, buffRX, lost>>
  BY DEF Inv, ReadInv, TypeOK, Advance, gvars, At
<1>2. QueueFacts /\ QueueFacts'
  BY QueueIsSeq, NextQueueIsSeq DEF Inv
<1>3. get_pkt \in 0 .. Avail /\ Avail \in Nat
  BY <1>1, <1>2 DEF QueueFacts
<1>4. /\ Avail' = Avail - get_pkt
      /\ \A k \in 0 .. Avail - get_pkt - 1 : At(ghst_end', k) = At(ghst_end, get_pkt + k)
  BY <1>1, <1>3, AvailAfterAdvance DEF Avail, Dist, Inv
<1>. DEFINE S     == Packet \cup {Torn}
            front == SubSeq(Queue, 1, get_pkt)
            back  == SubSeq(Queue, get_pkt + 1, Len(Queue))
<1>5. Queue \in Seq(S) /\ Len(Queue) = Avail /\ \A i \in 1 .. Avail : Queue[i] \in S
  BY <1>2, ElementOfSeq DEF QueueFacts
<1>6. copied = front
  <2>1. /\ front \in Seq(S)
        /\ Len(front) = IF 1 <= get_pkt THEN get_pkt - 1 + 1 ELSE 0
        /\ \A i \in 1 .. get_pkt - 1 + 1 : front[i] = Queue[1 + i - 1]
    <3>1. \A i \in 1 .. get_pkt : Queue[i] \in S
      BY <1>3, <1>5
    <3>. HIDE DEF S
    <3>. QED
      BY <1>3, <3>1, SubSeqProperties
  <2>2. Len(front) = get_pkt
    BY <2>1, <1>3
  <2>3. ASSUME NEW i \in 1 .. Len(copied) PROVE copied[i] = front[i]
    <3>1. i \in 1 .. get_pkt /\ i \in 1 .. Avail /\ i \in 1 .. get_pkt - 1 + 1
          /\ 1 + i - 1 = i
      BY <1>1, <1>3
    <3>2. front[i] = Queue[i]
      BY <2>1, <3>1
    <3>. QED
      BY <1>1, <1>2, <3>1, <3>2 DEF QueueFacts
  <2>. HIDE DEF front
  <2>. QED
    BY <1>1, <2>1, <2>2, <2>3, SeqEqual
<1>7. Queue' = back
  <2>1. /\ back \in Seq(S)
        /\ Len(back) = IF get_pkt + 1 <= Len(Queue) THEN Len(Queue) - (get_pkt + 1) + 1 ELSE 0
        /\ \A i \in 1 .. Len(Queue) - (get_pkt + 1) + 1 :
             back[i] = Queue[(get_pkt + 1) + i - 1]
    <3>1. \A i \in get_pkt + 1 .. Len(Queue) : Queue[i] \in S
      BY <1>3, <1>5
    <3>2. get_pkt + 1 \in Int /\ Len(Queue) \in Int
      BY <1>3, <1>5
    <3>. HIDE DEF S
    <3>. QED
      BY <3>1, <3>2, SubSeqProperties
  <2>2. Len(back) = Avail - get_pkt
    BY <2>1, <1>3, <1>5
  <2>3. Queue' \in Seq(S) /\ Len(Queue') = Avail - get_pkt
    BY <1>2, <1>4 DEF QueueFacts
  <2>4. ASSUME NEW i \in 1 .. Avail - get_pkt PROVE Queue'[i] = back[i]
    <3>1. /\ i \in 1 .. Len(Queue) - (get_pkt + 1) + 1
          /\ (get_pkt + 1) + i - 1 = get_pkt + i
          /\ get_pkt + i \in 1 .. Avail
          /\ i - 1 \in 0 .. Avail - get_pkt - 1
          /\ get_pkt + (i - 1) = (get_pkt + i) - 1
      BY <1>3, <1>5
    <3>2. back[i] = Queue[get_pkt + i]
      BY <2>1, <3>1
    <3>3. Queue[get_pkt + i] = buffRX[At(ghst_end, (get_pkt + i) - 1)]
      BY <1>2, <3>1 DEF QueueFacts
    <3>4. Queue'[i] = buffRX[At(ghst_end', i - 1)]
      BY <1>1, <1>2, <1>4 DEF QueueFacts, At
    <3>5. At(ghst_end', i - 1) = At(ghst_end, get_pkt + (i - 1))
      BY <1>4, <3>1
    <3>. QED
      BY <3>1, <3>2, <3>3, <3>4, <3>5
  <2>. HIDE DEF back
  <2>. QED
    BY <2>1, <2>2, <2>3, <2>4, SeqEqual
<1>8. CASE get_pkt = 0
  <2>1. copied = <<>> /\ got' = got
    BY <1>1, <1>8, EmptySeq, ConcatEmptySeq
  <2>2. UNCHANGED <<ghst_bgn, buffRX>> /\ ghst_end' = ghst_end
    <3>1. ghst_end \in Slot /\ 0 \in 0 .. GHST_NM_RCV
      BY GhostAssumption DEF Inv, TypeOK
    <3>2. At(ghst_end, 0) = IF ghst_end + 0 < GHST_NM_RCV THEN ghst_end + 0
                                                          ELSE ghst_end + 0 - GHST_NM_RCV
      BY <3>1, Indices
    <3>. QED
      BY <1>1, <1>8, <3>1, <3>2, GhostAssumption DEF Slot
  <2>. QED
    BY <1>1, <2>1, <2>2, Invisible
<1>9. CASE get_pkt # 0
  <2>1. get_pkt \in 1 .. Len(Queue)
    BY <1>3, <1>5, <1>9
  <2>2. Fifo!Get(get_pkt)
    BY <1>1, <1>6, <1>7 DEF Fifo!Get
  <2>. QED
    BY <2>1, <2>2
<1>. QED
  BY <1>8, <1>9

\* The circular buffer of ghost.c implements a bounded FIFO: whatever the sizes
\* of the ring and of a batch, packets come out once, whole and in order, and
\* only a full ring drops one.
THEOREM GhostImplementsFifo == Spec => Implements
<1>1. Inv /\ Inv' /\ [Next]_vars => [Fifo!FifoNext]_<<Queue, got, lost>>
  <2>. SUFFICES ASSUME Inv, Inv', [Next]_vars
                PROVE  Fifo!FifoNext \/ UNCHANGED <<Queue, got, lost>>
    OBVIOUS
  <2>1. CASE Recv
    BY <2>1, Invisible DEF Recv, uvars
  <2>2. CASE TestFull
    <3>1. msg \in Packet
      BY <2>2 DEF Inv, WriteInv, TestFull
    <3>. QED
      BY <2>2, <3>1, TestFullIsLose DEF Fifo!FifoNext
  <2>3. CASE CopyBegin \/ CopyEnd
    BY <2>3, CopyInvisible
  <2>4. CASE Publish
    <3>1. msg \in Packet
      BY <2>4 DEF Inv, WriteInv, Publish
    <3>. QED
      BY <2>4, <3>1, PublishIsPut DEF Fifo!FifoNext
  <2>5. ASSUME NEW n \in 0 .. NB_PKT_MAX, Receive(n)
        PROVE  UNCHANGED <<Queue, got, lost>>
    BY <2>5, Invisible DEF Receive
  <2>6. CASE GetAvail \/ Read
    BY <2>6, Invisible DEF GetAvail, Read
  <2>7. CASE Advance
    BY <2>7, AdvanceIsGet DEF Fifo!FifoNext
  <2>8. CASE UNCHANGED vars
    BY <2>8, Invisible DEF vars
  <2>. QED
    BY <2>1, <2>2, <2>3, <2>4, <2>5, <2>6, <2>7, <2>8 DEF Next, Ghost, Up
<1>2. Init => Fifo!FifoInit
  BY InitIsFifoInit
<1>. QED
  BY <1>1, <1>2, Invariance, PTL DEF Spec, Implements, Fifo!FifoSpec, Fifo!fifovars
=============================================================================
