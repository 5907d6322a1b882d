----------------------------- MODULE MCJitQueue -----------------------------
(***************************************************************************)
(* Instances of JitQueue for TLC.  One unit of time stands for about 7 ms  *)
(* among the short delays; the long ones (guard time, a beacon's length,   *)
(* the second of an immediate downlink, TX_MAX_ADVANCE_DELAY, the counter  *)
(* itself) are shortened, keeping their order.                             *)
(***************************************************************************)
EXTENDS JitQueue, TLC

\* The enqueuers run the same code; only safety is checked.
EnqueuerSymmetry == Permutations(Enqueuers)
=============================================================================
