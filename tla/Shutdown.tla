------------------------------ MODULE Shutdown ------------------------------
(***************************************************************************)
(* How the packet forwarder ends (main of fwd/src/fwd.c from its loop on): *)
(* a signal sets exit_sig, main cancels thread_jit and the GPS threads     *)
(* without joining them, joins thread_up and the spectral scan, stops each *)
(* service (which joins its upstream thread and joins or cancels its       *)
(* downstream one), frees the services, runs the exit handlers and stops   *)
(* the concentrator.                                                       *)
(*                                                                         *)
(* Of a thread the module keeps the critical sections of one iteration, in *)
(* order, each of which an iteration may leave out; of a critical section  *)
(* whether it has a cancellation point.  A thread cancelled there ends and *)
(* leaves the mutex locked: no cleanup handler is pushed anywhere.         *)
(*                                                                         *)
(* Left out: the watchdog, which exit_sig stops, the timer thread of the   *)
(* SX1301, the ghost stream's thread and the detached recycling threads,   *)
(* which main neither joins nor cancels, the recycling main does itself at *)
(* the end (fwd.c:725), the locks of lists, mx_xcorr, mx_meas_gps and      *)
(* mx_report.  A service's upstream thread keeps its mx_report while it    *)
(* waits for mx_dblock (the filters) or for an acknowledgement; main has   *)
(* left the loop that reports, and the downstream thread, which may still  *)
(* wait for it, is cancelled after the upstream one was joined and holds   *)
(* nothing else then.  What the exit handler of the database does is       *)
(* DbSync, a process killed before its end too.                            *)
(***************************************************************************)
EXTENDS Integers, Sequences

CONSTANTS
  NONE,
  Configs,    \* what may be configured: services in their order, gps_enabled,
              \* spectral_scan_params.enable, custom_downlink
  MaxSema     \* bound: wake-ups of a service not yet used

\* What a thread runs, with the number of its service (0 for those of main).
Name == {"receive", "jit", "gps", "valid", "scan", "up", "down"}

ASSUME ShutdownAssumption ==
  /\ NONE \notin Name \X Nat
  /\ Configs \subseteq [services : Seq({"pkt", "semtech", "mqtt"}), gps : BOOLEAN,
                        scan : BOOLEAN, custom : BOOLEAN]
  /\ \A c \in Configs : Len(c.services) > 0
  /\ MaxSema \in Nat \ {0}

VARIABLES
  config,
  exit_sig,
  main, serv,   \* the main thread, the service it stops
  stop_sig,     \* services told to stop
  sema,         \* of each service
  pc,           \* of each thread: <<"loop", "wait" or "end", 0>>, or <<"want" or
                \* "in", n>> for its n-th critical section
  cancelled,    \* threads pthread_cancel was called for
  held          \* of each mutex: the thread that locked it

shared == <<config, exit_sig, stop_sig, sema, cancelled>>
vars   == <<shared, main, serv, pc, held>>

-----------------------------------------------------------------------------
(* The threads. *)

Mutex == {"mx_concent", "mx_jit_queue", "mx_timeref", "mx_dblock"}

\* The HAL reads and writes its device, SQLite its file, and the queue logs;
\* under mx_timeref only structures are copied and computed.
Cancellable == {"mx_concent", "mx_jit_queue", "mx_dblock"}

GpsThreads == {<<"gps", 0>>, <<"valid", 0>>}
Up(i)   == <<"up", i>>
Down(i) == <<"down", i>>

Services == DOMAIN config.services
Kind(i)  == config.services[i]

\* thread_up is "receive"; a service without a downstream thread has none.
Threads ==
  {<<"receive", 0>>, <<"jit", 0>>}
  \cup (IF config.gps THEN GpsThreads ELSE {})
  \cup (IF config.scan THEN {<<"scan", 0>>} ELSE {})
  \cup {Up(i) : i \in Services}
  \cup {Down(i) : i \in {j \in Services : \/ Kind(j) = "semtech"
                                          \/ Kind(j) = "pkt" /\ config.custom}}

\* The mutexes of an iteration: of peek and dequeue, and of status and send,
\* the first stands for both.
Sections(t) ==
  CASE t[1] \in {"receive", "scan"} -> <<"mx_concent">>
    [] t[1] = "jit"   -> <<"mx_concent", "mx_jit_queue", "mx_concent">>
    [] t[1] = "gps"   -> <<"mx_concent", "mx_timeref">>
    [] t[1] = "valid" -> <<"mx_timeref">>
    [] t[1] = "up" /\ Kind(t[2]) = "mqtt"      -> <<"mx_dblock">>
    [] t[1] = "up" /\ Kind(t[2]) = "semtech"   -> <<"mx_timeref", "mx_dblock">>
    [] t[1] = "down" /\ Kind(t[2]) = "semtech" ->
         <<"mx_dblock", "mx_timeref", "mx_concent", "mx_jit_queue">>
    [] OTHER -> IF config.custom THEN <<"mx_dblock", "mx_concent", "mx_jit_queue">>
                                 ELSE <<"mx_dblock">>  \* the packet service

LOOP == <<"loop", 0>>
WAIT == <<"wait", 0>>
END  == <<"end", 0>>

\* The condition of the thread's loop is false.
Told(t) == IF t[1] \in {"up", "down"} THEN t[2] \in stop_sig ELSE exit_sig

\* After section n an iteration enters a later one, or is over.
After(t, n) == {LOOP} \cup {<<"want", k>> : k \in (n + 1) .. Len(Sections(t))}

-----------------------------------------------------------------------------
Init ==
  /\ config \in Configs
  /\ exit_sig = FALSE
  /\ main = "serve" /\ serv = 1
  /\ stop_sig = {}
  /\ sema = [i \in Services |-> 0]
  /\ pc = [t \in Threads |-> LOOP]
  /\ cancelled = {}
  /\ held = [m \in Mutex |-> NONE]

At(t, state) == pc' = [pc EXCEPT ![t] = state]

\* The condition of the loop, then the sleep or the reception of an iteration,
\* where a cancelled thread ends, or the semaphore of an upstream thread.
Loop(t) ==
  /\ pc[t] = LOOP
  /\ IF Told(t) \/ t \in cancelled
     THEN At(t, END)
     ELSE \E state \in (IF t[1] = "up" THEN {WAIT} ELSE After(t, 0)) : At(t, state)
  /\ UNCHANGED <<shared, main, serv, held>>

\* sem_wait; without a batch the thread goes round.
Wake(t) ==
  /\ pc[t] = WAIT
  /\ sema[t[2]] > 0
  /\ sema' = [sema EXCEPT ![t[2]] = @ - 1]
  /\ \E state \in After(t, 0) : At(t, state)
  /\ UNCHANGED <<config, exit_sig, stop_sig, cancelled, main, serv, held>>

\* pthread_mutex_lock
Lock(t) ==
  /\ pc[t][1] = "want"
  /\ LET m == Sections(t)[pc[t][2]] IN
       /\ held[m] = NONE
       /\ held' = [held EXCEPT ![m] = t]
  /\ At(t, <<"in", pc[t][2]>>)
  /\ UNCHANGED <<shared, main, serv>>

\* pthread_mutex_unlock; thread_up may have a batch, and wakes every service.
Unlock(t) ==
  /\ pc[t][1] = "in"
  /\ held' = [held EXCEPT ![Sections(t)[pc[t][2]]] = NONE]
  /\ \E state \in After(t, pc[t][2]) : At(t, state)
  /\ \/ UNCHANGED sema
     \/ /\ t[1] = "receive"
        /\ \A i \in Services : sema[i] < MaxSema
        /\ sema' = [i \in Services |-> sema[i] + 1]
  /\ UNCHANGED <<config, exit_sig, stop_sig, cancelled, main, serv>>

\* The cancellation of a thread inside a critical section.
Die(t) ==
  /\ t \in cancelled
  /\ pc[t][1] = "in"
  /\ Sections(t)[pc[t][2]] \in Cancellable
  /\ At(t, END)
  /\ UNCHANGED <<shared, main, serv, held>>

\* The process and with it every thread is gone after exit.
Run(t) == /\ t \in Threads
          /\ main # "exited"
          /\ Loop(t) \/ Wake(t) \/ Lock(t) \/ Unlock(t) \/ Die(t)

-----------------------------------------------------------------------------
(* The main thread. *)

Go(from, to) == main = from /\ main' = to

Ended(t) == t \in Threads => pc[t] = END

Cancel(ts) == cancelled' = cancelled \cup (ts \cap Threads)

sharedButCancelled == <<config, exit_sig, stop_sig, sema>>

\* sig_handler
Signal ==
  /\ ~exit_sig
  /\ exit_sig' = TRUE
  /\ UNCHANGED <<config, stop_sig, sema, cancelled, main, serv, pc, held>>

\* The loop of main ends; thread_jit is cancelled.
LeaveLoop ==
  /\ exit_sig
  /\ Go("serve", "join up")
  /\ Cancel({<<"jit", 0>>})
  /\ UNCHANGED <<sharedButCancelled, serv, pc, held>>

JoinReceive ==
  /\ Ended(<<"receive", 0>>)
  /\ Go("join up", "gps")
  /\ UNCHANGED <<shared, serv, pc, held>>

CancelGps ==
  /\ Go("gps", "join scan")
  /\ Cancel(GpsThreads)
  /\ UNCHANGED <<sharedButCancelled, serv, pc, held>>

JoinScan ==
  /\ Ended(<<"scan", 0>>)
  /\ Go("join scan", "stop")
  /\ UNCHANGED <<shared, serv, pc, held>>

Posted_Forgotten(i) == sema  \* mutant: the upstream thread is not woken

\* sem_post of a stop function
Posted(i) == [sema EXCEPT ![i] = @ + 1]

\* semtech_stop, pkt_stop and mqtt_stop, for each service in turn.
Stop ==
  /\ Go("stop", "join service")
  /\ stop_sig' = stop_sig \cup {serv}
  /\ sema' = Posted(serv)
  /\ UNCHANGED <<config, exit_sig, cancelled, serv, pc, held>>

JoinService ==
  /\ Ended(Up(serv))
  /\ Go("join service", "down")
  /\ UNCHANGED <<shared, serv, pc, held>>

DownIsJoined_Never(i) == FALSE  \* mutant: cancelled, or left alone

\* pkt_stop joins its downstream thread, semtech_stop cancels it.
DownIsJoined(i) == Kind(i) = "pkt"

EndDown ==
  /\ Go("down", "keys")
  /\ DownIsJoined(serv) => Ended(Down(serv))
  /\ Cancel(IF Kind(serv) = "semtech" THEN {Down(serv)} ELSE {})
  /\ UNCHANGED <<sharedButCancelled, serv, pc, held>>

\* lgw_db_del of the service's keys, under mx_dblock.
DeleteKeys ==
  /\ main = "keys"
  /\ held["mx_dblock"] = NONE
  /\ IF serv + 1 \in Services
     THEN main' = "stop" /\ serv' = serv + 1
     ELSE main' = "free" /\ UNCHANGED serv
  /\ UNCHANGED <<shared, pc, held>>

\* stop_clean_service frees the services.
Free ==
  /\ Go("free", "atexit")
  /\ UNCHANGED <<shared, serv, pc, held>>

\* lgw_run_atexits: gwdb_atexit takes mx_dblock.
AtExits ==
  /\ held["mx_dblock"] = NONE
  /\ Go("atexit", "hardware")
  /\ UNCHANGED <<shared, serv, pc, held>>

\* lgw_stop, without mx_concent, and exit.
StopHardware ==
  /\ Go("hardware", "exited")
  /\ UNCHANGED <<shared, serv, pc, held>>

Main == \/ LeaveLoop \/ JoinReceive \/ CancelGps \/ JoinScan \/ Stop \/ JoinService
        \/ EndDown \/ DeleteKeys \/ Free \/ AtExits \/ StopHardware

Next == Signal \/ Main \/ \E t \in Threads : Run(t)

Spec == Init /\ [][Next]_vars

-----------------------------------------------------------------------------
(* Properties. *)

\* When the services are freed, the database is closed and the concentrator
\* stopped, no thread is left that may use them, except those that main has
\* cancelled and not joined: a cancelled thread runs on to its next
\* cancellation point.
OnlyCancelledRemain ==
  main \in {"free", "atexit", "hardware"} =>
    \A t \in Threads : pc[t] = END \/ t \in cancelled

\* A mutex whose owner was cancelled inside its critical section.
Orphaned == \E m \in Mutex : held[m] # NONE /\ pc[held[m]] = END

\* A mutex is free, or its owner is on its way to unlock it.
ComesFree(m) == held[m] = NONE \/ pc[held[m]][1] = "in"

\* The threads main joins now.
Awaited ==
  {t \in Threads : \/ main = "join up" /\ t = <<"receive", 0>>
                   \/ main = "join scan" /\ t = <<"scan", 0>>
                   \/ main = "join service" /\ t = Up(serv)
                   \/ main = "down" /\ DownIsJoined(serv) /\ t = Down(serv)}

\* A thread that has been told to end comes to that.
ComesToEnd(t) ==
  /\ Told(t)
  /\ pc[t] = WAIT => sema[t[2]] > 0
  /\ pc[t][1] = "want" => ComesFree(Sections(t)[pc[t][2]])

\* Whatever each thread was doing when the signal came, main never waits for a
\* thread that was not told, or not woken, to end, nor for a mutex that is kept,
\* unless a cancelled thread has left one locked: there is no other way in
\* which the program can fail to end.
EndsUnlessOrphaned ==
  \/ Orphaned
  \/ /\ \A t \in Awaited : ComesToEnd(t)
     /\ main \in {"keys", "atexit"} => ComesFree("mx_dblock")
=============================================================================
