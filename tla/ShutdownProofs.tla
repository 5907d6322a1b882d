--------------------------- MODULE ShutdownProofs ---------------------------
(***************************************************************************)
(* Theorems about Shutdown, for any list of services and any choice of the *)
(* optional threads.  One half of the invariant follows main: what it has  *)
(* joined has ended, what it has not was cancelled.  The other half says   *)
(* that a locked mutex belongs to a thread that is inside the section of   *)
(* that mutex or was cancelled there, so that nobody waits in a circle.    *)
(***************************************************************************)
EXTENDS Shutdown, TLAPS

Steps == {"serve", "join up", "gps", "join scan", "stop", "join service", "down",
          "keys", "free", "atexit", "hardware", "exited"}

Positions(t) ==
  {LOOP, END} \cup {<<a, k>> : a \in {"want", "in"}, k \in 1 .. Len(Sections(t))}
              \cup (IF t[1] = "up" THEN {WAIT} ELSE {})

MainTypes == config \in Configs /\ main \in Steps /\ serv \in Services
SemaType  == sema \in [Services -> Nat]
HeldType  == held \in [Mutex -> Threads \cup {NONE}]
PcType    == DOMAIN pc = Threads /\ \A t \in Threads : pc[t] \in Positions(t)

\* What main knows of the threads, by the step it has reached.
Signalled == main # "serve" => exit_sig /\ <<"jit", 0>> \in cancelled

ReceiveOver == main \notin {"serve", "join up"} => Ended(<<"receive", 0>>)

GpsOver == main \notin {"serve", "join up", "gps"} => GpsThreads \cap Threads \subseteq cancelled

ScanOver == main \notin {"serve", "join up", "gps", "join scan"} => Ended(<<"scan", 0>>)

DownOver(i) == Ended(Down(i)) \/ Down(i) \in cancelled

ServicesOver ==
  \A i \in Services : i < serv \/ main \in {"free", "atexit", "hardware", "exited"} =>
    Ended(Up(i)) /\ DownOver(i)

ServiceOver ==
  /\ main \in {"join service", "down"} => serv \in stop_sig
  /\ main \in {"down", "keys"} => Ended(Up(serv))
  /\ main = "keys" => DownOver(serv)

\* The wake-up of a stopped service is not used up before it is needed.
Woken == main = "join service" /\ pc[Up(serv)] = WAIT => sema[serv] > 0

\* Who has locked a mutex.
Owner(m) ==
  held[m] # NONE =>
    \/ pc[held[m]] = END
    \/ pc[held[m]][1] = "in" /\ Sections(held[m])[pc[held[m]][2]] = m

Owners == \A m \in Mutex : Owner(m)

Types == MainTypes /\ SemaType /\ HeldType /\ PcType
MainKnows == Signalled /\ ReceiveOver /\ GpsOver /\ ScanOver /\ ServicesOver /\ ServiceOver

ShutdownInv == Types /\ MainKnows /\ Woken /\ Owners

-----------------------------------------------------------------------------
(* Threads and their sections. *)

\* Every service has its upstream thread, and only service threads are called
\* "up"; the others are known by name.
LEMMA ThreadNames ==
  ASSUME NEW t \in Threads
  PROVE  \/ t \in {<<"receive", 0>>, <<"jit", 0>>, <<"scan", 0>>} \cup GpsThreads
         \/ \E i \in Services : t = Up(i)
         \/ \E i \in Services : t = Down(i) /\ Kind(i) \in {"semtech", "pkt"}
BY DEF Threads

LEMMA UpThread ==
  ASSUME NEW t \in Threads, t[1] = "up"
  PROVE  t[2] \in Services /\ t = Up(t[2])
BY ThreadNames DEF GpsThreads, Up, Down

LEMMA NoNone ==
  ASSUME MainTypes, NEW t \in Threads
  PROVE  t # NONE
<1>1. Services \subseteq Nat
  BY ShutdownAssumption DEF MainTypes, Services
<1>2. CASE t \in {<<"receive", 0>>, <<"jit", 0>>, <<"scan", 0>>, <<"gps", 0>>, <<"valid", 0>>}
  <2>1. t \in Name \X Nat
    BY <1>2 DEF Name
  <2> QED BY <2>1, ShutdownAssumption
<1>3. ASSUME NEW i \in Services, t = Up(i) \/ t = Down(i)
      PROVE  t # NONE
  <2>1. t \in Name \X Nat
    BY <1>1, <1>3 DEF Up, Down, Name
  <2> QED BY <2>1, ShutdownAssumption
<1> QED BY <1>2, <1>3, ThreadNames DEF GpsThreads

LEMMA SectionsAreMutexes ==
  ASSUME NEW t, NEW k \in 1 .. Len(Sections(t))
  PROVE  Sections(t)[k] \in Mutex
<1>1. \/ Sections(t) = <<"mx_concent">>
      \/ Sections(t) = <<"mx_concent", "mx_jit_queue", "mx_concent">>
      \/ Sections(t) = <<"mx_concent", "mx_timeref">>
      \/ Sections(t) = <<"mx_timeref">>
      \/ Sections(t) = <<"mx_dblock">>
      \/ Sections(t) = <<"mx_timeref", "mx_dblock">>
      \/ Sections(t) = <<"mx_dblock", "mx_timeref", "mx_concent", "mx_jit_queue">>
      \/ Sections(t) = <<"mx_dblock", "mx_concent", "mx_jit_queue">>
  BY DEF Sections
<1>2. CASE Len(Sections(t)) = 1
  BY <1>1, <1>2 DEF Mutex
<1>3. CASE Len(Sections(t)) = 2
  <2>1. k = 1 \/ k = 2
    BY <1>3
  <2> QED BY <1>1, <1>3, <2>1 DEF Mutex
<1>4. CASE Len(Sections(t)) = 3
  <2>1. k = 1 \/ k = 2 \/ k = 3
    BY <1>4
  <2> QED BY <1>1, <1>4, <2>1 DEF Mutex
<1>5. CASE Len(Sections(t)) = 4
  <2>1. k = 1 \/ k = 2 \/ k = 3 \/ k = 4
    BY <1>5
  <2> QED BY <1>1, <1>5, <2>1 DEF Mutex
<1> QED BY <1>1, <1>2, <1>3, <1>4, <1>5

\* Where a thread goes after a section, or the top of its loop.
LEMMA Onward ==
  ASSUME NEW t, NEW n \in Nat, NEW state \in After(t, n)
  PROVE  /\ state \in Positions(t)
         /\ state # WAIT /\ state # END /\ state[1] # "in"
BY DEF After, Positions, LOOP, WAIT, END

-----------------------------------------------------------------------------
(* What every action keeps. *)

\* A step of one thread leaves the others where they are.
LEMMA OthersStay ==
  ASSUME PcType, NEW t \in Threads, NEW state, At(t, state)
  PROVE  /\ DOMAIN pc' = Threads
         /\ pc'[t] = state
         /\ \A u \in Threads \ {t} : pc'[u] = pc[u]
BY DEF PcType, At

\* A configuration does not change, and what depends on it does not.
LEMMA SameConfig ==
  ASSUME config' = config
  PROVE  /\ Services' = Services /\ Threads' = Threads
         /\ \A i : Kind(i)' = Kind(i)
         /\ \A t : Sections(t)' = Sections(t) /\ Positions(t)' = Positions(t)
         /\ \A t, n : After(t, n)' = After(t, n)
<1>1. /\ Services' = Services
      /\ \A i : Kind(i)' = Kind(i)
  BY DEF Services, Kind
<1>2. Threads' = Threads
  BY <1>1 DEF Threads
<1>3. \A t : Sections(t)' = Sections(t)
  BY <1>1 DEF Sections
<1>4. \A t : Positions(t)' = Positions(t)
  BY <1>3 DEF Positions
<1>5. \A t, n : After(t, n)' = After(t, n)
  BY <1>3 DEF After
<1> QED BY <1>1, <1>2, <1>3, <1>4, <1>5

LEMMA ConfigKept ==
  ASSUME [Next]_vars
  PROVE  config' = config
BY DEF Next, vars, shared, sharedButCancelled, Signal, Main, LeaveLoop, JoinReceive, CancelGps,
  JoinScan, Stop, JoinService, EndDown, DeleteKeys, Free, AtExits, StopHardware, Run, Loop,
  Wake, Lock, Unlock, Die

\* A step of a thread concerns neither main nor what main knows.
LEMMA ThreadFrame ==
  ASSUME Types, NEW t \in Threads, Run(t)
  PROVE  /\ UNCHANGED <<config, exit_sig, stop_sig, cancelled, main, serv>>
         /\ \A u \in Threads : pc[u] = END => pc'[u] = END
<1>1. UNCHANGED <<config, exit_sig, stop_sig, cancelled, main, serv>>
  BY DEF Run, Loop, Wake, Lock, Unlock, Die, shared
<1>2. PICK state : At(t, state)
  BY DEF Run, Loop, Wake, Lock, Unlock, Die
<1>3. pc[t] = END => pc'[t] = END
  BY DEF Run, Loop, Wake, Lock, Unlock, Die, LOOP, WAIT, END
<1>4. \A u \in Threads \ {t} : pc'[u] = pc[u]
  BY <1>2, OthersStay DEF Types
<1> QED BY <1>1, <1>3, <1>4

\* A step of main concerns no thread's control and no mutex.
LEMMA MainFrame ==
  ASSUME Main \/ Signal
  PROVE  UNCHANGED <<config, pc, held>>
BY DEF Main, Signal, LeaveLoop, JoinReceive, CancelGps, JoinScan, Stop, JoinService, EndDown,
  DeleteKeys, Free, AtExits, StopHardware, shared, sharedButCancelled

-----------------------------------------------------------------------------
(* Types. *)

LEMMA InitTypes == Init => Types
<1> SUFFICES ASSUME Init PROVE Types
  OBVIOUS
<1>1. MainTypes
  <2>1. config \in Configs /\ main \in Steps /\ serv = 1
    BY DEF Init, Steps
  <2>2. config.services \in Seq({"pkt", "semtech", "mqtt"}) /\ Len(config.services) > 0
    BY <2>1, ShutdownAssumption
  <2>3. 1 \in Services
    BY <2>2 DEF Services
  <2> QED BY <2>1, <2>3 DEF MainTypes
<1>2. SemaType
  BY DEF Init, SemaType
<1>3. HeldType
  BY DEF Init, HeldType
<1>4. PcType
  BY DEF Init, PcType, Positions
<1> QED BY <1>1, <1>2, <1>3, <1>4 DEF Types

\* Where a step takes a thread.
LEMMA NextPosition ==
  ASSUME Types, NEW t \in Threads, Run(t)
  PROVE  pc'[t] \in Positions(t)
<1> USE DEF Types
<1>1. CASE Loop(t)
  <2>1. CASE At(t, END)
    BY <2>1, OthersStay DEF Positions
  <2>2. CASE t[1] = "up" /\ At(t, WAIT)
    BY <2>2, OthersStay DEF Positions
  <2>3. CASE \E state \in After(t, 0) : At(t, state)
    BY <2>3, OthersStay, Onward
  <2> QED BY <1>1, <2>1, <2>2, <2>3 DEF Loop
<1>2. CASE Wake(t)
  <2>1. PICK state \in After(t, 0) : At(t, state)
    BY <1>2 DEF Wake
  <2> QED BY <2>1, OthersStay, Onward
<1>3. CASE Lock(t)
  <2>1. pc[t] \in Positions(t) /\ pc[t][1] = "want"
    BY <1>3 DEF PcType, Lock
  <2>2. pc[t][2] \in 1 .. Len(Sections(t))
    BY <2>1 DEF Positions, LOOP, END, WAIT
  <2>3. pc'[t] = <<"in", pc[t][2]>>
    BY <1>3, OthersStay DEF Lock
  <2> QED BY <2>2, <2>3 DEF Positions
<1>4. CASE Unlock(t)
  <2>1. pc[t] \in Positions(t) /\ pc[t][1] = "in"
    BY <1>4 DEF PcType, Unlock
  <2>2. pc[t][2] \in Nat
    BY <2>1 DEF Positions, LOOP, END, WAIT
  <2>3. PICK state \in After(t, pc[t][2]) : At(t, state)
    BY <1>4 DEF Unlock
  <2> QED BY <2>2, <2>3, OthersStay, Onward
<1>5. CASE Die(t)
  BY <1>5, OthersStay DEF Die, Positions
<1> QED BY <1>1, <1>2, <1>3, <1>4, <1>5 DEF Run

\* A thread that is inside a section or wants one is at a section it has.
LEMMA AtSection ==
  ASSUME PcType, NEW t \in Threads, pc[t][1] \in {"want", "in"}
  PROVE  Sections(t)[pc[t][2]] \in Mutex
<1>1. pc[t][2] \in 1 .. Len(Sections(t))
  BY DEF PcType, Positions, LOOP, END, WAIT
<1> QED BY <1>1, SectionsAreMutexes

LEMMA StepTypes ==
  ASSUME Types, [Next]_vars
  PROVE  Types'
<1> USE DEF Types
<1>0. /\ Services' = Services /\ Threads' = Threads
      /\ \A t : Positions(t)' = Positions(t)
  BY ConfigKept, SameConfig
<1>1. MainTypes'
  <2>1. CASE Main
    <3>1. config' = config /\ main' \in Steps
      BY <2>1 DEF Main, LeaveLoop, JoinReceive, CancelGps, JoinScan, Stop, JoinService, EndDown,
        DeleteKeys, Free, AtExits, StopHardware, shared, sharedButCancelled, Go, Steps
    <3>2. serv' \in Services
      BY <2>1 DEF Main, LeaveLoop, JoinReceive, CancelGps, JoinScan, Stop, JoinService, EndDown,
        DeleteKeys, Free, AtExits, StopHardware, MainTypes
    <3> QED BY <1>0, <3>1, <3>2 DEF MainTypes
  <2>2. CASE Signal \/ UNCHANGED vars
    BY <1>0, <2>2 DEF Signal, vars, shared, MainTypes
  <2>3. ASSUME NEW t \in Threads, Run(t) PROVE MainTypes'
    BY <1>0, <2>3, ThreadFrame DEF MainTypes
  <2> QED BY <2>1, <2>2, <2>3 DEF Next
<1>2. SemaType'
  <2>1. CASE Stop
    <3>1. serv \in Services /\ sema' = [sema EXCEPT ![serv] = @ + 1]
      BY <2>1 DEF Stop, Posted, MainTypes
    <3> QED BY <1>0, <3>1 DEF SemaType
  <2>2. CASE UNCHANGED sema
    BY <1>0, <2>2 DEF SemaType
  <2>3. ASSUME NEW t \in Threads, Wake(t) PROVE SemaType'
    <3>1. sema' = [sema EXCEPT ![t[2]] = @ - 1] /\ sema[t[2]] > 0 /\ pc[t] = WAIT
      BY <2>3 DEF Wake
    <3>2. t[2] \in Services
      BY <3>1, UpThread DEF PcType, Positions, WAIT, LOOP, END
    <3> QED BY <1>0, <3>1, <3>2 DEF SemaType
  <2>4. ASSUME NEW t \in Threads, Unlock(t) PROVE SemaType'
    BY <1>0, <2>4 DEF Unlock, SemaType
  <2>5. (Main /\ ~Stop) \/ Signal \/ UNCHANGED vars => UNCHANGED sema
    BY DEF Main, LeaveLoop, JoinReceive, CancelGps, JoinScan, JoinService, EndDown,
      DeleteKeys, Free, AtExits, StopHardware, shared, sharedButCancelled, Signal, vars
  <2>6. \A t : Loop(t) \/ Lock(t) \/ Die(t) => UNCHANGED sema
    BY DEF Loop, Lock, Die, shared
  <2> QED BY <2>1, <2>2, <2>3, <2>4, <2>5, <2>6 DEF Next, Run
<1>3. HeldType'
  <2>1. ASSUME NEW t \in Threads, Run(t) PROVE HeldType'
    <3>1. Loop(t) \/ Wake(t) \/ Die(t) => UNCHANGED held
      BY DEF Loop, Wake, Die
    <3>2. Lock(t) => held' = [held EXCEPT ![Sections(t)[pc[t][2]]] = t]
      BY DEF Lock
    <3>3. Unlock(t) => held' = [held EXCEPT ![Sections(t)[pc[t][2]]] = NONE]
      BY DEF Unlock
    <3> QED BY <1>0, <2>1, <3>1, <3>2, <3>3 DEF HeldType, Run
  <2>2. CASE Main \/ Signal \/ UNCHANGED vars
    BY <1>0, <2>2, MainFrame DEF HeldType, vars
  <2> QED BY <2>1, <2>2 DEF Next
<1>4. PcType'
  <2>1. ASSUME NEW t \in Threads, Run(t) PROVE PcType'
    <3>1. PICK state : At(t, state)
      BY <2>1 DEF Run, Loop, Wake, Lock, Unlock, Die
    <3>2. DOMAIN pc' = Threads /\ \A u \in Threads \ {t} : pc'[u] = pc[u]
      BY <3>1, OthersStay
    <3>3. pc'[t] \in Positions(t)
      BY <2>1, NextPosition
    <3> QED BY <1>0, <3>2, <3>3 DEF PcType
  <2>2. CASE Main \/ Signal \/ UNCHANGED vars
    BY <1>0, <2>2, MainFrame DEF PcType, vars
  <2> QED BY <2>1, <2>2 DEF Next
<1> QED BY <1>1, <1>2, <1>3, <1>4

-----------------------------------------------------------------------------
(* Mutexes. *)

LEMMA StepOwners ==
  ASSUME Types, Owners, [Next]_vars
  PROVE  Owners'
<1> USE DEF Types
<1>0. \A t : Sections(t)' = Sections(t)
  BY ConfigKept, SameConfig
<1>1. ASSUME NEW t \in Threads, Run(t) PROVE Owners'
  <2>1. PICK state : At(t, state)
    BY <1>1 DEF Run, Loop, Wake, Lock, Unlock, Die
  <2>2. pc'[t] = state /\ \A u \in Threads \ {t} : pc'[u] = pc[u]
    BY <2>1, OthersStay
  <2>3. SUFFICES ASSUME NEW m \in Mutex, held'[m] # NONE PROVE Owner(m)'
    BY DEF Owners, Owner
  <2>4. CASE held'[m] = held[m] /\ held[m] # t
    <3>1. held[m] \in Threads \ {t}
      BY <2>3, <2>4 DEF HeldType
    <3> QED BY <1>0, <2>2, <2>3, <2>4, <3>1 DEF Owners, Owner
  <2>5. CASE held'[m] = t /\ held[m] = t
    <3>1. pc[t] = END \/ (pc[t][1] = "in" /\ Sections(t)[pc[t][2]] = m)
      BY <2>5, NoNone DEF Owners, Owner
    <3>2. CASE Loop(t) \/ Wake(t) \/ Lock(t)
      BY <3>1, <3>2 DEF Loop, Wake, Lock, LOOP, WAIT, END
    <3>3. CASE Unlock(t)
      <4>1. pc[t] # END
        BY <3>3 DEF Unlock, END
      <4>2. held'[m] = NONE
        BY <3>1, <3>3, <4>1 DEF Unlock, HeldType
      <4> QED BY <2>3, <4>2
    <3>4. CASE Die(t)
      <4>1. pc'[t] = END
        BY <3>4, OthersStay DEF Die
      <4> QED BY <2>5, <4>1 DEF Owner
    <3> QED BY <1>1, <3>2, <3>3, <3>4 DEF Run
  <2>6. CASE held'[m] # held[m]
    <3>1. CASE Loop(t) \/ Wake(t) \/ Die(t)
      BY <2>6, <3>1 DEF Loop, Wake, Die
    <3>2. CASE Lock(t)
      <4>1. m = Sections(t)[pc[t][2]] /\ held'[m] = t
        BY <2>6, <3>2 DEF Lock, HeldType
      <4>2. pc'[t] = <<"in", pc[t][2]>>
        BY <3>2, OthersStay DEF Lock
      <4> QED BY <1>0, <4>1, <4>2 DEF Owner
    <3>3. CASE Unlock(t)
      BY <2>3, <2>6, <3>3 DEF Unlock, HeldType
    <3> QED BY <1>1, <3>1, <3>2, <3>3 DEF Run
  <2> QED BY <2>4, <2>5, <2>6
<1>2. CASE Main \/ Signal \/ UNCHANGED vars
  <2>1. UNCHANGED <<pc, held>>
    BY <1>2, MainFrame DEF vars
  <2> QED BY <1>0, <2>1 DEF Owners, Owner
<1> QED BY <1>1, <1>2 DEF Next

-----------------------------------------------------------------------------
(* The wake-up of a stopped service. *)

LEMMA StepWoken ==
  ASSUME Types, ServiceOver, Woken, [Next]_vars
  PROVE  Woken'
<1> USE DEF Types
<1>1. ASSUME NEW t \in Threads, Run(t) PROVE Woken'
  <2>1. main' = main /\ serv' = serv
    BY <1>1, ThreadFrame
  <2>2. SUFFICES ASSUME main = "join service", pc'[Up(serv)] = WAIT PROVE sema'[serv] > 0
    BY <2>1 DEF Woken
  <2>3. Up(serv) \in Threads /\ serv \in Services
    BY DEF MainTypes, Threads
  <2>4. PICK state : At(t, state)
    BY <1>1 DEF Run, Loop, Wake, Lock, Unlock, Die
  <2>5. pc'[t] = state /\ \A u \in Threads \ {t} : pc'[u] = pc[u]
    BY <2>4, OthersStay
  <2>6. CASE t = Up(serv)
    <3>1. Told(t)
      BY <2>2, <2>6 DEF Told, Up, ServiceOver
    <3>2. pc'[t] # WAIT
      <4>1. CASE Loop(t)
        BY <3>1, <4>1, OthersStay DEF Loop, END, WAIT
      <4>2. CASE Wake(t)
        <5>1. PICK s \in After(t, 0) : At(t, s)
          BY <4>2 DEF Wake
        <5> QED BY <5>1, OthersStay, Onward
      <4>3. CASE Lock(t)
        BY <4>3, OthersStay DEF Lock, WAIT
      <4>4. CASE Unlock(t)
        <5>1. pc[t][2] \in Nat
          BY <4>4 DEF Unlock, PcType, Positions, LOOP, END, WAIT
        <5>2. PICK s \in After(t, pc[t][2]) : At(t, s)
          BY <4>4 DEF Unlock
        <5> QED BY <5>1, <5>2, OthersStay, Onward
      <4>5. CASE Die(t)
        BY <4>5, OthersStay DEF Die, END, WAIT
      <4> QED BY <1>1, <4>1, <4>2, <4>3, <4>4, <4>5 DEF Run
    <3> QED BY <2>2, <2>6, <3>2
  <2>7. CASE t # Up(serv)
    <3>1. sema[serv] > 0
      BY <2>2, <2>3, <2>5, <2>7 DEF Woken
    <3>2. CASE Wake(t)
      <4>1. t[1] = "up"
        BY <3>2 DEF Wake, PcType, Positions, LOOP, END, WAIT
      <4>2. t[2] # serv
        BY <2>7, <4>1, UpThread
      <4> QED BY <2>3, <3>1, <3>2, <4>2 DEF Wake, SemaType
    <3>3. CASE Unlock(t)
      BY <2>3, <3>1, <3>3 DEF Unlock, SemaType
    <3>4. CASE Loop(t) \/ Lock(t) \/ Die(t)
      BY <3>1, <3>4 DEF Loop, Lock, Die, shared
    <3> QED BY <1>1, <3>2, <3>3, <3>4 DEF Run
  <2> QED BY <2>6, <2>7
<1>2. CASE Stop
  <2>1. serv' = serv /\ serv \in Services /\ sema' = [sema EXCEPT ![serv] = @ + 1]
    BY <1>2 DEF Stop, Posted, MainTypes
  <2>2. sema[serv] \in Nat /\ sema'[serv'] = sema[serv] + 1
    BY <2>1 DEF SemaType
  <2>3. sema'[serv'] > 0
    BY <2>2
  <2> QED BY <2>3 DEF Woken
<1>3. CASE Main /\ ~Stop
  BY <1>3 DEF Main, LeaveLoop, JoinReceive, CancelGps, JoinScan, JoinService, EndDown,
      DeleteKeys, Free, AtExits, StopHardware, Go, Woken
<1>4. CASE Signal \/ UNCHANGED vars
  BY <1>4 DEF Signal, vars, shared, Woken
<1> QED BY <1>1, <1>2, <1>3, <1>4 DEF Next

-----------------------------------------------------------------------------
(* What main knows. *)

\* It is kept by whatever leaves main where it is: ended threads stay ended.
LEMMA MainStays ==
  ASSUME Types, MainKnows, UNCHANGED <<config, stop_sig, main, serv>>, exit_sig => exit_sig',
         cancelled' = cancelled, \A u \in Threads : pc[u] = END => pc'[u] = END
  PROVE  MainKnows'
<1>1. Threads' = Threads /\ Services' = Services
  BY SameConfig
<1>2. \A t : Ended(t) => Ended(t)'
  BY <1>1 DEF Ended
<1>3. \A i : DownOver(i) => DownOver(i)'
  BY <1>2 DEF DownOver
<1>4. Signalled' /\ ReceiveOver' /\ GpsOver' /\ ScanOver'
  BY <1>1, <1>2 DEF MainKnows, Signalled, ReceiveOver, GpsOver, ScanOver
<1>5. ServicesOver'
  BY <1>1, <1>2, <1>3 DEF MainKnows, ServicesOver
<1>6. ServiceOver'
  BY <1>2, <1>3 DEF MainKnows, ServiceOver
<1> QED BY <1>4, <1>5, <1>6 DEF MainKnows

\* Until the services, one after the other.
LEMMA MainBefore ==
  ASSUME Types, MainKnows, LeaveLoop \/ JoinReceive \/ CancelGps \/ JoinScan
  PROVE  MainKnows'
<1>1. UNCHANGED <<config, exit_sig, stop_sig, serv, pc, held>>
  BY DEF LeaveLoop, JoinReceive, CancelGps, JoinScan, shared, sharedButCancelled
<1>2. Threads' = Threads /\ Services' = Services
  BY <1>1, SameConfig
<1>3. (\A t : Ended(t)' = Ended(t)) /\ cancelled \subseteq cancelled'
  BY <1>1, <1>2 DEF Ended, LeaveLoop, JoinReceive, CancelGps, JoinScan, Cancel, shared
<1>4. Signalled'
  BY <1>1, <1>3 DEF MainKnows, Signalled, LeaveLoop, JoinReceive, CancelGps, JoinScan, Go,
    Cancel, Threads
<1>5. ReceiveOver'
  BY <1>3 DEF MainKnows, ReceiveOver, LeaveLoop, JoinReceive, CancelGps, JoinScan, Go
<1>6. GpsOver'
  BY <1>2, <1>3 DEF MainKnows, GpsOver, LeaveLoop, JoinReceive, CancelGps, JoinScan, Go, Cancel
<1>7. ScanOver'
  BY <1>3 DEF MainKnows, ScanOver, LeaveLoop, JoinReceive, CancelGps, JoinScan, Go
<1>8. main' \in {"join up", "gps", "join scan", "stop"}
  BY DEF LeaveLoop, JoinReceive, CancelGps, JoinScan, Go
<1>9. ServicesOver'
  <2>1. \A i : DownOver(i) => DownOver(i)'
    BY <1>3 DEF DownOver
  <2> QED BY <1>1, <1>2, <1>3, <1>8, <2>1 DEF MainKnows, ServicesOver
<1>10. ServiceOver'
  BY <1>8 DEF ServiceOver
<1> QED BY <1>4, <1>5, <1>6, <1>7, <1>9, <1>10 DEF MainKnows

\* A service, and what follows the last one.
LEMMA MainServices ==
  ASSUME Types, MainKnows,
         Stop \/ JoinService \/ EndDown \/ DeleteKeys \/ Free \/ AtExits \/ StopHardware
  PROVE  MainKnows'
<1> DEFINE Late == {"stop", "join service", "down", "keys", "free", "atexit", "hardware", "exited"}
<1>1. UNCHANGED <<config, exit_sig, pc>>
  BY DEF Stop, JoinService, EndDown, DeleteKeys, Free, AtExits, StopHardware, shared,
    sharedButCancelled
<1>2. Threads' = Threads /\ Services' = Services /\ \A i : Kind(i)' = Kind(i)
  BY <1>1, SameConfig
<1>3. (\A t : Ended(t)' = Ended(t)) /\ cancelled \subseteq cancelled'
  BY <1>1, <1>2 DEF Ended, Stop, JoinService, EndDown, DeleteKeys, Free, AtExits, StopHardware,
    Cancel, shared
<1>4. main \in Late /\ main' \in Late
  BY DEF Stop, JoinService, EndDown, DeleteKeys, Free, AtExits, StopHardware, Go
<1>5. Signalled' /\ ReceiveOver' /\ GpsOver' /\ ScanOver'
  BY <1>1, <1>2, <1>3, <1>4 DEF MainKnows, Signalled, ReceiveOver, GpsOver, ScanOver
<1>6. \A i : DownOver(i) => DownOver(i)'
  BY <1>3 DEF DownOver
<1>7. CASE Stop
  <2>1. main = "stop" /\ main' = "join service" /\ serv' = serv /\ stop_sig' = stop_sig \cup {serv}
    BY <1>7 DEF Stop, Go
  <2>2. ServicesOver'
    BY <1>2, <1>3, <1>6, <2>1 DEF MainKnows, ServicesOver
  <2>3. ServiceOver'
    BY <2>1 DEF ServiceOver
  <2> QED BY <1>5, <2>2, <2>3 DEF MainKnows
<1>8. CASE JoinService
  <2>1. main = "join service" /\ main' = "down" /\ UNCHANGED <<serv, stop_sig>> /\ Ended(Up(serv))
    BY <1>8 DEF JoinService, Go, shared
  <2>2. ServicesOver'
    BY <1>2, <1>3, <1>6, <2>1 DEF MainKnows, ServicesOver
  <2>3. ServiceOver'
    BY <1>3, <2>1 DEF MainKnows, ServiceOver
  <2> QED BY <1>5, <2>2, <2>3 DEF MainKnows
<1>9. CASE EndDown
  <2>1. main = "down" /\ main' = "keys" /\ serv' = serv
    BY <1>9 DEF EndDown, Go
  <2>2. ServicesOver'
    BY <1>2, <1>3, <1>6, <2>1 DEF MainKnows, ServicesOver
  <2>3. DownOver(serv)'
    <3>1. CASE Kind(serv) = "semtech" /\ Down(serv) \in Threads
      BY <1>9, <2>1, <3>1 DEF EndDown, Cancel, DownOver
    <3>2. CASE Kind(serv) = "pkt"
      BY <1>3, <1>9, <2>1, <3>2 DEF EndDown, DownIsJoined, DownOver
    <3>3. CASE Down(serv) \notin Threads
      BY <1>2, <2>1, <3>3 DEF DownOver, Ended
    <3>4. Down(serv) \in Threads => Kind(serv) \in {"semtech", "pkt"}
      BY ThreadNames DEF Down, Up, GpsThreads
    <3> QED BY <3>1, <3>2, <3>3, <3>4
  <2>4. ServiceOver'
    BY <1>3, <2>1, <2>3 DEF MainKnows, ServiceOver
  <2> QED BY <1>5, <2>2, <2>4 DEF MainKnows
<1>10. CASE DeleteKeys
  <2>1. main = "keys" /\ main' \in {"stop", "free"} /\ UNCHANGED <<cancelled, stop_sig>>
    BY <1>10 DEF DeleteKeys, shared
  <2>2. Ended(Up(serv)) /\ DownOver(serv)
    BY <2>1 DEF MainKnows, ServiceOver
  <2>3. serv \in Nat /\ Services \subseteq Nat /\ serv \in Services
        /\ \A i \in Services : i > serv => serv + 1 \in Services
    BY ShutdownAssumption DEF Types, MainTypes, Services
  <2>4. \A i \in Services : i <= serv => Ended(Up(i)) /\ DownOver(i)
    BY <2>2, <2>3 DEF MainKnows, ServicesOver
  <2>5. \A i \in Services : i < serv' \/ main' = "free" => i <= serv
    BY <1>10, <2>1, <2>3 DEF DeleteKeys
  <2>6. ServicesOver'
    BY <1>2, <1>3, <1>6, <2>1, <2>4, <2>5 DEF ServicesOver
  <2>7. ServiceOver'
    BY <2>1 DEF ServiceOver
  <2> QED BY <1>5, <2>6, <2>7 DEF MainKnows
<1>11. CASE Free \/ AtExits \/ StopHardware
  <2>1. /\ main \in {"free", "atexit", "hardware"} /\ main' \in {"atexit", "hardware", "exited"}
        /\ serv' = serv
    BY <1>11 DEF Free, AtExits, StopHardware, Go
  <2>2. ServicesOver'
    BY <1>2, <1>3, <1>6, <2>1 DEF MainKnows, ServicesOver
  <2>3. ServiceOver'
    BY <2>1 DEF ServiceOver
  <2> QED BY <1>5, <2>2, <2>3 DEF MainKnows
<1> QED BY <1>7, <1>8, <1>9, <1>10, <1>11

LEMMA StepKnows ==
  ASSUME Types, MainKnows, [Next]_vars
  PROVE  MainKnows'
<1>1. ASSUME NEW t \in Threads, Run(t) PROVE MainKnows'
  BY <1>1, ThreadFrame, MainStays
<1>2. CASE Signal
  BY <1>2, MainStays DEF Signal
<1>3. CASE UNCHANGED vars
  BY <1>3, MainStays DEF vars, shared
<1>4. CASE Main
  BY <1>4, MainBefore, MainServices DEF Main
<1> QED BY <1>1, <1>2, <1>3, <1>4 DEF Next

-----------------------------------------------------------------------------
(* Theorems. *)

LEMMA InitShutdown == Init => ShutdownInv
<1> SUFFICES ASSUME Init PROVE ShutdownInv
  OBVIOUS
<1>1. Types
  BY InitTypes
<1>2. MainKnows
  <2>1. \A i \in Services : ~(i < serv)
    BY ShutdownAssumption, <1>1 DEF Init, Services, Types, MainTypes
  <2> QED BY <2>1 DEF Init, MainKnows, Signalled, ReceiveOver, GpsOver, ScanOver, ServicesOver,
    ServiceOver
<1>3. Woken
  BY DEF Init, Woken
<1>4. Owners
  BY DEF Init, Owners, Owner
<1> QED BY <1>1, <1>2, <1>3, <1>4 DEF ShutdownInv

LEMMA ShutdownInvariance == Spec => []ShutdownInv
<1>1. Init => ShutdownInv
  BY InitShutdown
<1>2. ShutdownInv /\ [Next]_vars => ShutdownInv'
  BY StepTypes, StepKnows, StepWoken, StepOwners DEF ShutdownInv, MainKnows
<1> QED BY <1>1, <1>2, PTL DEF Spec

\* Services, database and concentrator are taken down when no thread is left
\* that main has not cancelled.
THEOREM TornDownLast == Spec => []OnlyCancelledRemain
<1>1. ShutdownInv => OnlyCancelledRemain
  <2> SUFFICES ASSUME ShutdownInv, main \in {"free", "atexit", "hardware"}, NEW t \in Threads
               PROVE  pc[t] = END \/ t \in cancelled
    BY DEF OnlyCancelledRemain
  <2>1. CASE t \in {<<"receive", 0>>, <<"jit", 0>>, <<"scan", 0>>} \cup GpsThreads
    BY <2>1 DEF ShutdownInv, MainKnows, Signalled, ReceiveOver, GpsOver, ScanOver, Ended
  <2>2. ASSUME NEW i \in Services, t = Up(i) \/ t = Down(i)
        PROVE  pc[t] = END \/ t \in cancelled
    BY <2>2 DEF ShutdownInv, MainKnows, ServicesOver, DownOver, Ended
  <2> QED BY <2>1, <2>2, ThreadNames
<1> QED BY <1>1, ShutdownInvariance, PTL

\* The only way in which main can wait for ever is a mutex left locked by a
\* cancelled thread: whatever it joins was told and woken, and no mutex is kept.
THEOREM OnlyOrphansHang == Spec => []EndsUnlessOrphaned
<1>1. ShutdownInv => EndsUnlessOrphaned
  <2> SUFFICES ASSUME ShutdownInv, ~Orphaned
               PROVE  /\ \A t \in Awaited : ComesToEnd(t)
                      /\ main \in {"keys", "atexit"} => ComesFree("mx_dblock")
    BY DEF EndsUnlessOrphaned
  <2> USE DEF ShutdownInv, Types
  <2>1. \A m \in Mutex : ComesFree(m)
    BY DEF Owners, Owner, Orphaned, ComesFree
  <2>2. ASSUME NEW t \in Awaited PROVE ComesToEnd(t)
    <3>1. t \in Threads
      BY <2>2 DEF Awaited
    <3>2. \/ (main \in {"join up", "join scan"} /\ t[1] \notin {"up", "down"})
          \/ (main = "join service" /\ t = Up(serv) /\ t[1] = "up" /\ t[2] = serv)
          \/ (main = "down" /\ t[1] = "down" /\ t[2] = serv)
      <4>1. CASE main = "join up" /\ t = <<"receive", 0>>
        <5>1. t[1] = "receive"
          BY <4>1
        <5> QED BY <4>1, <5>1
      <4>2. CASE main = "join scan" /\ t = <<"scan", 0>>
        <5>1. t[1] = "scan"
          BY <4>2
        <5> QED BY <4>2, <5>1
      <4>3. CASE main = "join service" /\ t = Up(serv)
        <5>1. t[1] = "up" /\ t[2] = serv
          BY <4>3 DEF Up
        <5> QED BY <4>3, <5>1
      <4>4. CASE main = "down" /\ t = Down(serv)
        <5>1. t[1] = "down" /\ t[2] = serv
          BY <4>4 DEF Down
        <5> QED BY <4>4, <5>1
      <4> QED BY <2>2, <4>1, <4>2, <4>3, <4>4 DEF Awaited
    <3>3. Told(t)
      <4>1. main # "serve" => exit_sig
        BY DEF MainKnows, Signalled
      <4>2. main \in {"join service", "down"} => serv \in stop_sig
        BY DEF MainKnows, ServiceOver
      <4> QED BY <3>2, <4>1, <4>2 DEF Told
    <3>4. pc[t] = WAIT => sema[t[2]] > 0
      <4>1. ASSUME pc[t] = WAIT PROVE t[1] = "up"
        BY <3>1, <4>1 DEF PcType, Positions, LOOP, END, WAIT
      <4>2. pc[t] = WAIT => main = "join service" /\ pc[Up(serv)] = WAIT /\ t[2] = serv
        BY <3>2, <4>1
      <4> QED BY <4>2 DEF Woken
    <3>5. pc[t][1] = "want" => ComesFree(Sections(t)[pc[t][2]])
      BY <2>1, <3>1, AtSection
    <3> QED BY <3>3, <3>4, <3>5 DEF ComesToEnd
  <2>3. "mx_dblock" \in Mutex
    BY DEF Mutex
  <2> QED BY <2>1, <2>2, <2>3
<1> QED BY <1>1, ShutdownInvariance, PTL
=============================================================================
