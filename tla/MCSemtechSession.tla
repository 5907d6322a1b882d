-------------------------- MODULE MCSemtechSession --------------------------
(* Small instances of SemtechSession for TLC. *)
EXTENDS SemtechSession, TLC

CONSTANTS f1, f2

Load(b, r, a, q, s, f) ==
  [batches |-> b, reports |-> r, answers |-> a, autoquit |-> q, stop |-> s, fails |-> f]

\* Packets against reports, with a session that gives up and without; a
\* healthy session that goes silent; one that gives up after answers; a stop;
\* reports that cannot be printed.
ThreadLoads == {Load(1, 2, 0, 3, FALSE, FALSE), Load(1, 1, 0, 0, FALSE, FALSE),
                Load(0, 0, 3, 0, FALSE, FALSE), Load(1, 0, 2, 2, FALSE, FALSE),
                Load(0, 1, 1, 0, TRUE, FALSE), Load(1, 1, 0, 1, FALSE, TRUE)}
=============================================================================
