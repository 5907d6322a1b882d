---------------------------- MODULE MCRxDispatch ----------------------------
(* Small instances of RxDispatch for TLC. *)
EXTENDS RxDispatch, TLC

CONSTANTS s1, s2

\* Services neither reporting nor giving up are interchangeable.
ServiceSymmetry == Permutations(Services \ (Reporters \cup Quitters))
=============================================================================
