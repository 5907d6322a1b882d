-------------------------- MODULE MCCustomDownlink --------------------------
(* Small instances of CustomDownlink for TLC. *)
EXTENDS CustomDownlink, TLC

CONSTANTS d1, d2, n1, n2, n3

Load(k, f, b, s, m, q) ==
  [kinds |-> k, files |-> f, batches |-> b, size |-> s, mac_decoded |-> m, stop |-> q]

Timed(d, case) == [addr |-> <<d, case>>, mode |-> TIME]
Now(d)         == [addr |-> Upper(d), mode |-> IMME]

\* Replacement, overflow and nodes given again against an uplink; the two
\* spellings of an address; an immediate downlink in a node given again; two
\* packets decoded; a stop.
ListLoads == {
  Load({Timed(d1, "upper"), Timed(d2, "upper")}, 3, 1, 1, FALSE, FALSE),
  Load({Timed(d1, "upper"), Timed(d1, "lower"), Now(d1)}, 2, 1, 1, FALSE, FALSE),
  Load({Timed(d1, "upper"), Now(d1)}, 3, 1, 1, FALSE, FALSE),
  Load({Timed(d1, "upper")}, 1, 1, 2, TRUE, FALSE),
  Load({Timed(d1, "upper"), Now(d2)}, 1, 2, 1, FALSE, TRUE)}

RaceLoads == {Load({Timed(d1, "upper"), Timed(d2, "upper")}, 2, 1, 1, FALSE, FALSE)}
=============================================================================
