----------------------------- MODULE MCShutdown -----------------------------
(* Small instances of Shutdown: the packet service, which always comes     *)
(* first, alone with the GPS threads, with the spectral scan, with its own *)
(* downstream thread, or before a service of another kind.                 *)
EXTENDS Shutdown

Plain(services) == [services |-> services, gps |-> FALSE, scan |-> FALSE, custom |-> FALSE]

SomeConfigs ==
  {[Plain(<<"pkt">>) EXCEPT !.gps = TRUE],
   [Plain(<<"pkt">>) EXCEPT !.scan = TRUE],
   [Plain(<<"pkt">>) EXCEPT !.custom = TRUE],
   [Plain(<<"pkt", "semtech">>) EXCEPT !.custom = TRUE],
   Plain(<<"pkt", "mqtt">>)}
=============================================================================
