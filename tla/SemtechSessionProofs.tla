------------------------ MODULE SemtechSessionProofs ------------------------
(***************************************************************************)
(* The safety of a Semtech session, whatever the descriptors the kernel    *)
(* gives again, the network and the bounds.  The invariant is built in     *)
(* layers, each inductive relative to those before it: types, the order of *)
(* the report numbers, the shape of the datagram in hand, the two-sided    *)
(* counters, and the acknowledgements.                                     *)
(***************************************************************************)
EXTENDS SemtechSession, FiniteSetTheorems, TLAPS

\* The numbers of the reports: the one being written, the one in the buffer,
\* the one in hand and the last one sent.
Numbered ==
  /\ status_report <= report
  /\ main \in {"down", "publish"} => status_report < report
  /\ last <= status_report
  /\ report_ready => last < status_report
  /\ dgram.rep # 0 => /\ up \in {"open", "send"}
                      /\ last < dgram.rep /\ dgram.rep <= status_report
                      /\ report_ready => dgram.rep < status_report
  /\ up = "restore" => last < status_report

TypeInv ==
  /\ TypeOK
  /\ Numbered
  /\ batches <= arrived
  /\ up = "ack" => tries > 0

\* What report_ready promises between the reads of it, and whether a failed
\* printing has cut the datagram.
ShapeInv ==
  /\ Shape
  /\ up \in {"append", "restore"} =>
       /\ dgram.pkts \/ (dgram.cut /\ ~dgram.comma)
       /\ dgram.pkts => dgram.cut = FALSE
  /\ up = "append" =>
       /\ dgram.pkts \/ report_ready
       /\ dgram.comma => report_ready
       /\ dgram.pkts /\ report_ready => dgram.comma \/ late
  /\ up = "restore" /\ dgram.pkts => dgram.comma \/ late
  /\ up \notin {"open", "send"} => ~dgram.trimmed

-----------------------------------------------------------------------------
(* Types and the numbers of the reports. *)

LEMMA CountedTypes ==
  ASSUME meas \in [Counters -> Nat], total \in [Resettable -> Nat], NEW c \in Counters
  PROVE  /\ Bump(c, meas) = [meas EXCEPT ![c] = @ + 1]
         /\ Bump(c, meas) \in [Counters -> Nat]
         /\ Bump(c, total) \in [Resettable -> Nat]
         /\ c \notin Resettable => Bump(c, total) = total
<1>1. Bump(c, meas) = [meas EXCEPT ![c] = @ + 1]
  BY DEF Bump
<1>2. [meas EXCEPT ![c] = @ + 1] \in [Counters -> Nat]
  OBVIOUS
<1>3. CASE c \in Resettable
  <2>1. Bump(c, total) = [total EXCEPT ![c] = @ + 1]
    BY <1>3 DEF Bump
  <2>2. [total EXCEPT ![c] = @ + 1] \in [Resettable -> Nat]
    BY <1>3
  <2> QED
    BY <1>1, <1>2, <1>3, <2>1, <2>2
<1>4. CASE c \notin Resettable
  BY <1>1, <1>2, <1>4 DEF Bump
<1> QED
  BY <1>3, <1>4

LEMMA CopiedTypes ==
  ASSUME meas \in [Counters -> Nat], reported \in [Resettable -> Nat], NEW c \in Resettable
  PROVE  /\ AfterCopy(c, meas) \in [Counters -> Nat]
         /\ [reported EXCEPT ![c] = @ + meas[c]] \in [Resettable -> Nat]
  BY DEF AfterCopy, Counters

\* The bound that stands for an unbounded pull_send is above what is compared.
LEMMA PullBoundIsLarge ==
  ASSUME load \in Loads
  PROVE  PullBound \in Nat /\ load.answers < PullBound
<1> DEFINE n == load.answers + 1
<1>1. n \in Nat /\ n > load.answers /\ load.answers \in Nat /\ RATIO \in Nat /\ RATIO >= 1
  BY SessionAssumption
<1>2. \A r, k \in Nat : r >= 1 => r * k \in Nat /\ r * k >= k
  OBVIOUS
<1>3. RATIO * n \in Nat /\ RATIO * n >= n
  BY <1>1, <1>2
<1>4. PullBound = RATIO * n + 1
  BY DEF PullBound
<1> QED
  BY <1>1, <1>3, <1>4

LEMMA UpToTypes ==
  ASSUME NEW b \in Nat, NEW n \in Nat
  PROVE  /\ UpTo(b, n) \in Nat
         /\ UpTo(b, n) = n \/ UpTo(b, n) = n + 1
         /\ n <= b => UpTo(b, n) <= b
         /\ n < b => UpTo(b, n) = n + 1
  BY DEF UpTo

LEMMA LoadTypes ==
  ASSUME load \in Loads
  PROVE  /\ load.batches \in Nat /\ load.reports \in Nat /\ load.answers \in Nat
         /\ load.autoquit \in Nat /\ {load.stop, load.fails} \subseteq BOOLEAN
  BY SessionAssumption

LEMMA InitTypes == Init => TypeInv
<1> SUFFICES ASSUME Init PROVE TypeInv
  OBVIOUS
<1>1. load \in Loads
  BY DEF Init
<1>2. UpTypes
  BY DEF Init, UpTypes, Dgram, NoDgram
<1>3. DownTypes
  <2>1. /\ down = "loop" /\ pull_send = 0 /\ pull_ack = 0
        /\ req_ack = FALSE /\ autoquit_cnt = 0
    BY DEF Init
  <2>2. 0 \in 0 .. PullBound
    BY <1>1, PullBoundIsLarge
  <2> QED
    BY <2>1, <2>2 DEF DownTypes
<1>4. MainTypes /\ CountTypes
  <2>1. /\ main = "idle" /\ report = 0 /\ status_report = 0 /\ last = 0
        /\ stop_sig = FALSE /\ report_ready = FALSE /\ late = FALSE
        /\ batches = 0 /\ arrived = 0 /\ sema = 0
    BY DEF Init
  <2>2. /\ meas \in [Counters -> Nat]
        /\ total \in [Resettable -> Nat] /\ reported \in [Resettable -> Nat]
    BY DEF Init
  <2>3. 0 \in 0 .. load.reports /\ 0 \in 0 .. load.batches
    BY <1>1, LoadTypes
  <2>4. MainTypes
    BY <2>1, <2>3 DEF MainTypes
  <2> QED
    BY <2>1, <2>2, <2>3, <2>4 DEF CountTypes
<1>5. NetTypes
  BY <1>1, LoadTypes DEF Init, NetTypes, Socket
<1> QED
  BY <1>1, <1>2, <1>3, <1>4, <1>5 DEF Init, TypeInv, TypeOK, Numbered, NoDgram

-----------------------------------------------------------------------------
(* Who writes what. *)

LEMMA Frames ==
  ASSUME [Next]_vars
  PROVE  /\ UNCHANGED load
         /\ UNCHANGED upvars \/ Up
         /\ UNCHANGED downvars \/ Down \/ KeepAliveOver \/ Cancelled
         /\ UNCHANGED mainvars \/ ReportUp \/ Report \/ Stop \/ Join \/ CloseBoth
         /\ UNCHANGED flags \/ CloseArray \/ AppendReport \/ RestoreReport \/ Publish
         /\ UNCHANGED last \/ SendPush
         /\ UNCHANGED <<batches, arrived>> \/ Uplink \/ Wake
         /\ UNCHANGED sema \/ Uplink \/ Wake \/ Post \/ Stop
         /\ UNCHANGED stop_sig \/ AutoQuit \/ Stop
         /\ UNCHANGED counts \/ Wake \/ SendPush \/ AwaitAck \/ Request
              \/ ReportUp \/ ReportDown
<1> USE DEF upvars, downvars, mainvars, flags, counts, net, radio, vars
<1>1. CASE UNCHANGED vars
  BY <1>1
<1>2. CASE Uplink \/ \E m \in Msg \ {"STALE"} : Answer(m)
  BY <1>2 DEF Uplink, Answer
<1>3. CASE Up
  BY <1>3 DEF Up, Wake, CloseArray, AppendReport, RestoreReport, OpenUp, SendPush, AwaitAck, Counted
<1>4. CASE Down \/ KeepAliveOver \/ Cancelled
  BY <1>4 DEF Down, AutoQuit, DownLoop, CloseUp, ReopenDown, ReopenUp, Pull,
       CountPull, Recv, CountRecv, Request, TxAck, KeepAliveOver, Cancelled
<1>5. CASE ReportUp \/ Report \/ Stop \/ Join \/ CloseBoth
  BY <1>5 DEF ReportUp, Report, ReportDown, Publish, Post, Stop, Join, CloseBoth
<1> QED
  BY <1>1, <1>2, <1>3, <1>4, <1>5 DEF Next
LEMMA NetFrame ==
  ASSUME [Next]_vars
  PROVE  \/ UNCHANGED <<sock_up, sock_down, net, answers>>
         \/ \E m \in Msg \ {"STALE"} : Answer(m)
         \/ OpenUp \/ SendPush \/ AwaitAck
         \/ DownLoop \/ CloseUp \/ ReopenDown \/ ReopenUp \/ Pull \/ Recv
         \/ CloseBoth
<1> USE DEF net, vars
<1>1. CASE UNCHANGED vars \/ Uplink \/ KeepAliveOver \/ Cancelled
  BY <1>1 DEF Uplink, KeepAliveOver, Cancelled
<1>2. CASE Up
  BY <1>2 DEF Up, Wake, CloseArray, AppendReport, RestoreReport
<1>3. CASE Down
  BY <1>3 DEF Down, AutoQuit, CountPull, CountRecv, Request, TxAck
<1>4. CASE ReportUp \/ Report \/ Stop \/ Join
  BY <1>4 DEF ReportUp, Report, ReportDown, Publish, Post, Stop, Join
<1> QED
  BY <1>1, <1>2, <1>3, <1>4 DEF Next

LEMMA CountCases ==
  ASSUME [Next]_vars
  PROVE  \/ UNCHANGED counts
         \/ \E c \in Counters : Counted(c)
         \/ \E c \in Resettable : Copied(c)
<1>1. /\ \A c \in Resettable : c \in Counters
      /\ {"nb_rx_rcv", "nb_tx_requested"} \subseteq Resettable
      /\ {"up_dgram_sent", "up_ack_rcv"} \subseteq Counters
  BY DEF Counters, Resettable
<1> QED
  BY <1>1, Frames DEF Wake, SendPush, AwaitAck, Request, ReportUp, ReportDown, counts

-----------------------------------------------------------------------------
(* Types. *)

LEMMA UpTyped ==
  ASSUME TypeInv, [Next]_vars
  PROVE  UpTypes' /\ (up' = "ack" => tries' > 0)
<1> USE DEF UpTypes, UpLoop
<1>t. UpTypes /\ (up = "ack" => tries > 0) /\ status_report \in Nat
  <2>1. status_report \in 0 .. load.reports /\ load \in Loads
    BY DEF TypeInv, TypeOK, MainTypes
  <2> QED
    BY <2>1, LoadTypes DEF TypeInv, TypeOK
<1>1. CASE UNCHANGED upvars
  BY <1>t, <1>1 DEF upvars
<1>2. CASE Wake
  <2>1. /\ tries' = tries
        /\ up' \in {"close", "wait", "end"}
        /\ dgram' = dgram \/ \E kept \in BOOLEAN : dgram' = [NoDgram EXCEPT !.pkts = kept]
    BY <1>2 DEF Wake
  <2>2. ASSUME NEW kept \in BOOLEAN PROVE [NoDgram EXCEPT !.pkts = kept] \in Dgram
    BY DEF Dgram, NoDgram
  <2>3. dgram' \in Dgram
    BY <1>t, <2>1, <2>2
  <2> QED
    BY <1>t, <2>1, <2>3
<1>3. CASE CloseArray
  <2>1. dgram' \in Dgram
    BY <1>t, <1>3 DEF CloseArray, Dgram, Separated
  <2> QED
    BY <1>t, <1>3, <2>1 DEF CloseArray
<1>4. CASE AppendReport
  <2>1. dgram' \in Dgram
    BY <1>t, <1>4 DEF AppendReport, Dgram
  <2> QED
    BY <1>t, <1>4, <2>1 DEF AppendReport
<1>r. CASE RestoreReport
  <2>1. dgram' \in Dgram
    BY <1>t, <1>r DEF RestoreReport, Dgram
  <2> QED
    BY <1>t, <1>r, <2>1 DEF RestoreReport
<1>5. CASE OpenUp
  <2>1. /\ dgram' \in {dgram, NoDgram} /\ tries' = tries
        /\ up' \in {"wait", "end", "send"}
    BY <1>5 DEF OpenUp
  <2>2. NoDgram \in Dgram
    BY DEF NoDgram, Dgram
  <2> QED
    BY <1>t, <2>1, <2>2
<1>6. CASE SendPush
  <2>1. NoDgram \in Dgram
    BY DEF NoDgram, Dgram
  <2> QED
    BY <1>6, <2>1 DEF SendPush, AckTries
<1>7. CASE AwaitAck
  <2>1. dgram' = dgram /\ tries \in 1 .. 2
    BY <1>t, <1>7 DEF AwaitAck
  <2>2. \/ tries' = 0 /\ up' \in {"wait", "end"}
        \/ tries' = tries - 1 /\ up' \in {"wait", "end", "ack"} /\ (up' = "ack" => tries' # 0)
    BY <1>7 DEF AwaitAck
  <2>3. tries' \in 0 .. 2
    BY <2>1, <2>2
  <2> QED
    BY <1>t, <2>1, <2>2, <2>3
<1> QED
  BY <1>1, <1>2, <1>3, <1>4, <1>r, <1>5, <1>6, <1>7, Frames DEF Up

LEMMA DownTyped ==
  ASSUME TypeInv, [Next]_vars
  PROVE  DownTypes'
<1>t. /\ DownTypes /\ load' = load /\ load \in Loads /\ PullBound' = PullBound
      /\ PullBound \in Nat /\ load.autoquit \in Nat /\ 0 \in 0 .. PullBound
  BY Frames, PullBoundIsLarge, LoadTypes DEF TypeInv, TypeOK, PullBound
<1> HIDE DEF PullBound
<1>1. CASE UNCHANGED downvars
  BY <1>t, <1>1 DEF DownTypes, downvars
<1>2. CASE AutoQuit \/ CloseUp \/ ReopenDown \/ ReopenUp \/ KeepAliveOver \/ Cancelled
           \/ CountRecv \/ Request \/ TxAck
  <2>1. /\ UNCHANGED <<pull_send, pull_ack, req_ack, autoquit_cnt>>
        /\ down' \in {"end", "opendown", "openup", "check", "loop", "listen", "txack",
                      "request"}
    BY <1>2 DEF AutoQuit, CloseUp, ReopenDown, ReopenUp, KeepAliveOver, Cancelled,
         CountRecv, Request, TxAck
  <2> QED
    BY <1>t, <2>1 DEF DownTypes
<1>3. CASE DownLoop
  BY <1>t, <1>3 DEF DownTypes, DownLoop
<1>4. CASE Pull
  <2>1. pull_send \in Nat /\ pull_send <= PullBound
    BY <1>t DEF DownTypes
  <2>2. UpTo(PullBound, pull_send) \in Nat /\ UpTo(PullBound, pull_send) <= PullBound
    BY <1>t, <2>1, UpToTypes, Zenon
  <2> QED
    BY <1>t, <1>4, <2>1, <2>2 DEF DownTypes, Pull
<1>5. CASE CountPull
  BY <1>t, <1>5, UpToTypes DEF DownTypes, CountPull
<1>6. CASE Recv
  <2>1. /\ UNCHANGED <<pull_send>>
        /\ down' \in {"listen", "acked", "txack", "resp"}
        /\ req_ack' = req_ack \/ req_ack' = TRUE
        /\ pull_ack' = pull_ack \/ pull_ack' = pull_ack + 1
        /\ autoquit_cnt' = autoquit_cnt \/ autoquit_cnt' = 0
    BY <1>6 DEF Recv
  <2>2. req_ack' \in BOOLEAN
    BY <1>t, <2>1 DEF DownTypes
  <2>3. pull_ack' \in Nat /\ autoquit_cnt' \in Nat
    BY <1>t, <2>1 DEF DownTypes
  <2> QED
    BY <1>t, <2>1, <2>2, <2>3 DEF DownTypes
<1> QED
  BY <1>1, <1>2, <1>3, <1>4, <1>5, <1>6, Frames DEF Down

LEMMA MainTyped ==
  ASSUME TypeInv, [Next]_vars
  PROVE  MainTypes' /\ Numbered'
<1>t. /\ MainTypes /\ Numbered /\ load' = load /\ load.reports \in Nat
      /\ report \in Nat /\ status_report \in Nat /\ last \in Nat
      /\ dgram.rep \in Nat /\ dgram'.rep \in Nat
  <2>1. load.reports \in Nat /\ load' = load /\ UpTypes /\ UpTypes'
    BY UpTyped, Frames, LoadTypes DEF TypeInv, TypeOK
  <2> QED
    BY <2>1 DEF TypeInv, TypeOK, MainTypes, UpTypes, Dgram
<1>b. {stop_sig', report_ready', late'} \subseteq BOOLEAN
  <2>1. stop_sig' = stop_sig \/ stop_sig' = TRUE
    BY Frames DEF AutoQuit, Stop
  <2>2. report_ready' = report_ready \/ report_ready' \in BOOLEAN
    BY Frames DEF CloseArray, AppendReport, Cleared, RestoreReport, Publish, flags
  <2>3. late' = late \/ late' \in BOOLEAN
    BY Frames DEF CloseArray, AppendReport, RestoreReport, Publish, flags
  <2> QED
    BY <1>t, <2>1, <2>2, <2>3 DEF MainTypes
<1>r. report <= load.reports /\ status_report <= load.reports /\ last <= load.reports
  BY <1>t DEF MainTypes
<1>m. main' \in {"idle", "down", "publish", "post", "join", "close", "end"}
  BY <1>t, Frames DEF MainTypes, mainvars, ReportUp, Report, ReportDown, Publish, Post,
       Stop, Join, CloseBoth
\* It is enough that the numbers stay in order.
<1>o. ASSUME Numbered', report' \in Nat, report' <= load.reports, status_report' \in Nat,
             last' \in Nat
      PROVE  MainTypes' /\ Numbered'
  <2>1. status_report' <= report' /\ last' <= status_report'
    BY <1>o DEF Numbered
  <2>2. {report', status_report', last'} \subseteq 0 .. load.reports
    BY <1>o, <1>t, <2>1
  <2> QED
    BY <1>o, <1>b, <1>m, <1>t, <2>2 DEF MainTypes
<1>1. CASE Up
  <2>1. UNCHANGED <<mainvars, status_report>>
    BY <1>1 DEF Up, Wake, CloseArray, AppendReport, RestoreReport, OpenUp, SendPush, AwaitAck, flags
  <2>2. CASE AppendReport
    <3>1. dgram.rep = 0
      BY <1>t, <2>2 DEF AppendReport, Numbered
    <3>2. \/ /\ report_ready /\ report_ready' = FALSE
             /\ dgram'.rep = status_report /\ up' = "open"
          \/ /\ report_ready /\ report_ready' = FALSE
             /\ dgram' = dgram
          \/ /\ ~report_ready /\ report_ready' = FALSE
             /\ dgram' = dgram
      BY <1>t, <2>2 DEF AppendReport, Cleared, MainTypes, TypeInv, TypeOK, UpTypes, Dgram
    <3>3. Numbered'
      BY <1>t, <2>1, <2>2, <3>1, <3>2 DEF Numbered, AppendReport, mainvars
    <3> QED
      BY <1>o, <1>t, <1>r, <2>1, <2>2, <3>3 DEF AppendReport, mainvars
  <2>5. CASE RestoreReport
    <3>1. dgram'.rep = 0 /\ report_ready' = TRUE /\ last' = last /\ last < status_report
      BY <1>t, <2>5 DEF RestoreReport, Numbered, TypeInv, TypeOK, UpTypes, Dgram
    <3>2. Numbered'
      BY <1>t, <2>1, <2>5, <3>1 DEF Numbered, RestoreReport, mainvars
    <3> QED
      BY <1>o, <1>t, <1>r, <2>1, <3>1, <3>2 DEF mainvars
  <2>3. CASE SendPush
    <3>1. dgram'.rep = 0
      BY <2>3 DEF SendPush, NoDgram
    <3>2. /\ last' = IF dgram.rep # 0 THEN dgram.rep ELSE last
          /\ report_ready' = report_ready /\ up' = "ack"
      BY <2>3 DEF SendPush, flags
    <3>3. Numbered'
      BY <1>t, <2>1, <3>1, <3>2 DEF Numbered, mainvars
    <3> QED
      BY <1>o, <1>t, <1>r, <2>1, <3>2, <3>3 DEF mainvars
  <2>4. CASE Wake \/ CloseArray \/ OpenUp \/ AwaitAck
    <3>1. UNCHANGED <<report_ready, last>> /\ up' # "restore"
      BY <2>4 DEF Wake, CloseArray, OpenUp, AwaitAck, UpLoop, flags
    <3>2. \/ dgram'.rep = 0
          \/ dgram'.rep = dgram.rep /\ up \in {"open", "send"} /\ up' = "send"
          \/ dgram'.rep = dgram.rep /\ up \notin {"open", "send"}
      <4>0. \A kept \in BOOLEAN : [NoDgram EXCEPT !.pkts = kept].rep = 0
        BY DEF NoDgram
      <4>1. CASE Wake
        BY <4>0, <4>1 DEF Wake
      <4>2. CASE CloseArray
        BY <1>t, <4>2 DEF CloseArray, TypeInv, TypeOK, UpTypes, Dgram
      <4>3. CASE OpenUp
        BY <4>3 DEF OpenUp, NoDgram
      <4>4. CASE AwaitAck
        BY <4>4 DEF AwaitAck
      <4> QED
        BY <2>4, <4>1, <4>2, <4>3, <4>4
    <3>3. Numbered'
      BY <1>t, <2>1, <3>1, <3>2 DEF Numbered, mainvars
    <3> QED
      BY <1>o, <1>t, <1>r, <2>1, <3>1, <3>3 DEF mainvars
  <2> QED
    BY <1>1, <2>2, <2>3, <2>4, <2>5 DEF Up
<1>2. CASE UNCHANGED upvars
  <2>1. UNCHANGED last /\ (UNCHANGED flags \/ Publish)
    BY <1>2, Frames, <1>t DEF upvars, CloseArray, AppendReport, RestoreReport, SendPush,
       UpLoop, UpTypes
  <2>2. CASE Publish
    <3>1. /\ report' = report /\ status_report' = report /\ report_ready' = TRUE
          /\ main' = "post" /\ status_report < report
      BY <1>t, <2>2 DEF Publish, Numbered
    <3>2. Numbered'
      BY <1>t, <1>2, <2>1, <3>1 DEF Numbered, upvars
    <3> QED
      BY <1>o, <1>t, <1>r, <2>1, <3>1, <3>2
  <2>3. CASE UNCHANGED flags
    <3>1. \/ main' = main /\ report' = report
          \/ report < load.reports /\ report' = report + 1
          \/ main = "down" /\ main' = "publish" /\ report' = report
          \/ main' \notin {"down", "publish"} /\ report' = report
      BY Frames DEF mainvars, ReportUp, Report, ReportDown, Publish, Post, Stop, Join,
           CloseBoth
    <3>2. report' \in Nat /\ report' <= load.reports /\ report <= report'
      BY <1>t, <1>r, <3>1
    <3>3. Numbered'
      BY <1>t, <1>2, <2>1, <2>3, <3>1, <3>2 DEF Numbered, upvars, flags
    <3> QED
      BY <1>o, <1>t, <2>1, <2>3, <3>2, <3>3 DEF flags
  <2> QED
    BY <2>1, <2>2, <2>3
<1> QED
  BY <1>1, <1>2, Frames

LEMMA CountTyped ==
  ASSUME TypeInv, [Next]_vars
  PROVE  CountTypes' /\ batches' <= arrived'
<1>t. /\ CountTypes /\ batches <= arrived /\ load' = load /\ load.batches \in Nat
  BY Frames, LoadTypes DEF TypeInv, TypeOK
<1>1. /\ {batches', arrived'} \subseteq 0 .. load.batches
      /\ batches' <= arrived'
  <2>0. batches \in Nat /\ arrived \in Nat /\ arrived <= load.batches
    BY <1>t DEF CountTypes
  <2>1. CASE UNCHANGED <<batches, arrived>>
    BY <1>t, <2>0, <2>1
  <2>2. CASE Uplink
    BY <1>t, <2>0, <2>2 DEF Uplink
  <2>3. CASE Wake
    <3>1. arrived' = arrived /\ (batches' = batches \/ (batches > 0 /\ batches' = batches - 1))
      BY <2>3 DEF Wake
    <3> QED
      BY <1>t, <2>0, <3>1
  <2> QED
    BY <2>1, <2>2, <2>3, Frames
<1>2. sema' \in Nat
  <2>0. sema \in Nat
    BY <1>t DEF CountTypes
  <2>1. \/ sema' = sema
        \/ sema' = sema + 1
        \/ sema > 0 /\ sema' = sema - 1
    BY Frames DEF Uplink, Wake, Post, Posted, Stop, Woken
  <2> QED
    BY <2>0, <2>1
<1>3. /\ meas' \in [Counters -> Nat]
      /\ total' \in [Resettable -> Nat] /\ reported' \in [Resettable -> Nat]
  <2>0. /\ meas \in [Counters -> Nat]
        /\ total \in [Resettable -> Nat] /\ reported \in [Resettable -> Nat]
    BY <1>t DEF CountTypes
  <2>1. CASE UNCHANGED counts
    BY <2>0, <2>1 DEF counts
  <2>2. ASSUME NEW c \in Counters, Counted(c) PROVE <1>3
    BY <2>0, <2>2, CountedTypes DEF Counted
  <2>3. ASSUME NEW c \in Resettable, Copied(c) PROVE <1>3
    BY <2>0, <2>3, CopiedTypes DEF Copied
  <2> QED
    BY <2>1, <2>2, <2>3, CountCases
<1> QED
  BY <1>t, <1>1, <1>2, <1>3 DEF CountTypes

LEMMA NetTyped ==
  ASSUME TypeInv, [Next]_vars
  PROVE  NetTypes'
<1>t. /\ NetTypes /\ load' = load /\ load.answers \in Nat /\ answers \in Nat
  BY Frames, LoadTypes DEF TypeInv, TypeOK, NetTypes
<1>1. CASE UNCHANGED <<sock_up, sock_down, net, answers>>
  BY <1>t, <1>1 DEF NetTypes, net
<1>2. ASSUME NEW socks, Close(socks),
             sock_up' \in {sock_up, NOSOCK}, sock_down' \in {sock_down, NOSOCK},
             answers' = answers
      PROVE  NetTypes'
  <2>1. peer' \in [FD -> {"free", "port_up", "port_down"}] /\ inbox' \in [FD -> SUBSET Msg]
    BY <1>t, <1>2 DEF NetTypes, Close
  <2>2. src_up' \in {src_up, NOSOCK} /\ src_down' \in {src_down, NOSOCK}
    BY <1>2 DEF Close
  <2> QED
    BY <1>t, <1>2, <2>1, <2>2 DEF NetTypes, Socket
<1>3. ASSUME NEW port \in {"port_up", "port_down"}, NEW r \in InitSock(port),
             peer' = r.peer, sock_up' \in {sock_up, r.sock},
             sock_down' \in {sock_down, r.sock},
             UNCHANGED <<inbox, src_up, src_down, answers>>
      PROVE  NetTypes'
  <2>1. r.sock \in Socket
    BY <1>3 DEF InitSock, Socket
  <2>2. r.peer \in [FD -> {"free", "port_up", "port_down"}]
    BY <1>t, <1>3 DEF InitSock, NetTypes
  <2> QED
    BY <1>t, <1>3, <2>1, <2>2 DEF NetTypes
<1>4. ASSUME inbox' \in [FD -> SUBSET Msg], src_up' \in Socket, src_down' \in Socket,
             answers' \in 0 .. load.answers, UNCHANGED <<sock_up, sock_down, peer>>
      PROVE  NetTypes'
  BY <1>t, <1>4 DEF NetTypes
<1>5. ASSUME NEW m \in {"PUSH_ACK", "PULL_ACK"} PROVE Aged(m) \in [FD -> SUBSET Msg]
  <2>1. ASSUME NEW f \in FD, NEW n \in inbox[f]
        PROVE  (IF n = m THEN "STALE" ELSE n) \in Msg
    BY <1>t, <2>1 DEF NetTypes, Msg
  <2> QED
    BY <1>t, <2>1 DEF NetTypes, Aged
<1>6. \A s, o \in Socket : HeardFrom(s, o) \in Socket
  BY DEF HeardFrom
<1>7. ASSUME NEW f \in FD, NEW s, s \subseteq Msg
      PROVE  [inbox EXCEPT ![f] = s] \in [FD -> SUBSET Msg]
  BY <1>t, <1>7 DEF NetTypes
<1>8. inbox \in [FD -> SUBSET Msg] /\ sock_up \in Socket /\ sock_down \in Socket
      /\ src_up \in Socket /\ src_down \in Socket /\ answers \in 0 .. load.answers
  BY <1>t DEF NetTypes
<1>9. CASE \E m \in Msg \ {"STALE"} : Answer(m)
  <2>1. PICK m \in Msg : Answer(m)
    BY <1>9
  <2>2. PICK f \in FD : inbox' = [inbox EXCEPT ![f] = @ \cup {m}]
    BY <1>8, <2>1 DEF Answer, Socket
  <2>3. inbox[f] \cup {m} \subseteq Msg
    BY <1>8
  <2>4. inbox' \in [FD -> SUBSET Msg]
    BY <1>7, <2>2, <2>3
  <2>5. answers' \in 0 .. load.answers
    BY <1>t, <2>1 DEF Answer
  <2> QED
    BY <1>4, <1>8, <2>1, <2>4, <2>5 DEF Answer
<1>10. CASE OpenUp
  <2>1. CASE sock_up = NOSOCK
    <3>1. PICK r \in InitSock("port_up") : sock_up' = r.sock /\ peer' = r.peer
      BY <1>10, <2>1 DEF OpenUp
    <3> QED
      BY <1>3, <1>10, <3>1 DEF OpenUp
  <2>2. CASE sock_up # NOSOCK
    BY <1>1, <1>10, <2>2 DEF OpenUp, net
  <2> QED
    BY <2>1, <2>2
<1>11. CASE SendPush
  <2>1. inbox' \in [FD -> SUBSET Msg] /\ src_up' \in Socket
    BY <1>5, <1>6, <1>8, <1>11 DEF SendPush
  <2> QED
    BY <1>4, <1>8, <1>11, <2>1 DEF SendPush
<1>12. CASE AwaitAck
  <2>1. CASE ~IsOpen(sock_up)
    BY <1>4, <1>8, <1>12, <2>1 DEF AwaitAck
  <2>2. CASE IsOpen(sock_up)
    <3>1. PICK m : inbox' = [inbox EXCEPT ![sock_up] = @ \ {m}]
      BY <1>12, <2>2 DEF AwaitAck
    <3>2. sock_up \in FD /\ inbox[sock_up] \ {m} \subseteq Msg
      BY <1>8, <2>2 DEF IsOpen, Socket
    <3>3. inbox' \in [FD -> SUBSET Msg]
      BY <1>7, <3>1, <3>2
    <3> QED
      BY <1>4, <1>8, <1>12, <3>3 DEF AwaitAck
  <2> QED
    BY <2>1, <2>2
<1>13. CASE DownLoop
  BY <1>1, <1>2, <1>8, <1>13 DEF DownLoop, net
<1>14. CASE CloseUp
  BY <1>2, <1>14 DEF CloseUp
<1>15. CASE ReopenDown
  BY <1>3, <1>15 DEF ReopenDown
<1>16. CASE ReopenUp
  BY <1>3, <1>16 DEF ReopenUp
<1>17. CASE Pull
  <2>1. CASE sock_down = NOSOCK
    BY <1>4, <1>8, <1>17, <2>1 DEF Pull
  <2>2. CASE sock_down # NOSOCK
    <3>1. inbox' \in [FD -> SUBSET Msg] /\ src_down' \in Socket
      BY <1>5, <1>6, <1>8, <1>17, <2>2 DEF Pull
    <3> QED
      BY <1>4, <1>8, <1>17, <3>1 DEF Pull
  <2> QED
    BY <2>1, <2>2
<1>18. CASE Recv
  <2>1. PICK m : inbox' = [inbox EXCEPT ![sock_down] = @ \ {m}]
    BY <1>18 DEF Recv
  <2>2. sock_down \in FD /\ inbox[sock_down] \ {m} \subseteq Msg
    BY <1>8, <1>18 DEF Recv, IsOpen, Socket
  <2>3. inbox' \in [FD -> SUBSET Msg]
    BY <1>7, <2>1, <2>2
  <2> QED
    BY <1>4, <1>8, <1>18, <2>3 DEF Recv
<1>19. CASE CloseBoth
  BY <1>2, <1>19 DEF CloseBoth
<1>20. \/ UNCHANGED <<sock_up, sock_down, net, answers>>
       \/ \E m \in Msg \ {"STALE"} : Answer(m)
       \/ OpenUp \/ SendPush \/ AwaitAck \/ DownLoop \/ CloseUp \/ ReopenDown \/ ReopenUp
       \/ Pull \/ Recv \/ CloseBoth
  BY NetFrame
<1> QED
  BY <1>1, <1>9, <1>10, <1>11, <1>12, <1>13, <1>14, <1>15, <1>16, <1>17, <1>18, <1>19,
     <1>20

\* Every step keeps the types and the order of the reports.
LEMMA NextTypes ==
  ASSUME TypeInv, [Next]_vars
  PROVE  TypeInv'
  BY UpTyped, DownTyped, MainTyped, CountTyped, NetTyped, Frames DEF TypeInv, TypeOK

-----------------------------------------------------------------------------
(* The shape of the datagrams. *)

LEMMA NextShape ==
  ASSUME TypeInv, ShapeInv, [Next]_vars
  PROVE  ShapeInv'
<1> USE DEF ShapeInv, Shape
<1>t. /\ dgram \in Dgram /\ dgram' \in Dgram /\ last \in Nat /\ status_report \in Nat
      /\ report_ready => status_report # 0
      /\ up \in {"append", "restore"} => dgram.rep = 0
  <2>1. /\ dgram \in Dgram /\ dgram' \in Dgram /\ last \in 0 .. load.reports
        /\ status_report \in 0 .. load.reports /\ load.reports \in Nat
    BY UpTyped, LoadTypes DEF TypeInv, TypeOK, UpTypes, MainTypes
  <2> QED
    BY <2>1 DEF TypeInv, Numbered
\* A report published while the separator is decided on is late.
<1>1. CASE UNCHANGED upvars
  <2>1. /\ late => late' \/ up \notin {"append", "restore", "open", "send"}
        /\ up = "append" => \/ report_ready' = report_ready
                            \/ report_ready' = TRUE /\ (report_ready \/ late')
    <3>0. {late, report_ready} \subseteq BOOLEAN /\ up' = up
      BY <1>1 DEF TypeInv, TypeOK, MainTypes, upvars
    <3>1. CASE UNCHANGED flags
      BY <3>1 DEF flags
    <3>2. CASE Publish
      BY <3>0, <3>2 DEF Publish
    <3>3. CASE CloseArray \/ AppendReport \/ RestoreReport
      BY <3>0, <3>3 DEF CloseArray, AppendReport, RestoreReport, UpLoop
    <3> QED
      BY <3>1, <3>2, <3>3, Frames
  <2> QED
    BY <1>1, <2>1 DEF upvars, WellFormed
<1>2. CASE Wake
  <2>1. up \notin {"open", "send"} /\ up' \in {"close", "wait", "end"}
    BY <1>2 DEF Wake, UpLoop
  <2>2. ~dgram'.trimmed
    BY <1>2, <2>1 DEF Wake, NoDgram
  <2> QED
    BY <2>1, <2>2
<1>3. CASE CloseArray
  <2>1. /\ report_ready' = report_ready /\ up = "close"
        /\ dgram'.trimmed = dgram.trimmed
        /\ up' # "append" => up' \in {"wait", "end"}
        /\ up' = "append" => /\ dgram.pkts \/ report_ready
                             /\ dgram'.pkts = dgram.pkts /\ dgram'.cut = ~dgram.pkts
                             /\ dgram'.comma = (dgram.pkts /\ report_ready)
    BY <1>t, <1>3 DEF CloseArray, Separated, UpLoop, flags, Dgram
  <2> QED
    BY <1>t, <2>1 DEF Dgram
<1>4. CASE AppendReport
  <2>1. /\ up = "append" /\ late' = late /\ ~dgram.trimmed /\ dgram.rep = 0
        /\ dgram'.pkts = dgram.pkts /\ dgram'.cut = dgram.cut /\ dgram'.comma = dgram.comma
        /\ dgram'.trimmed = dgram.trimmed
    BY <1>t, <1>4 DEF AppendReport, Dgram
  <2>2. \/ up' = "open" /\ report_ready /\ dgram'.rep = status_report
        \/ up' = "open" /\ ~report_ready /\ dgram'.rep = dgram.rep
        \/ up' = "restore" /\ report_ready
    BY <1>t, <1>4 DEF AppendReport, Dgram
  <2> QED
    BY <1>t, <2>1, <2>2 DEF WellFormed, Dgram
<1>r. CASE RestoreReport
  <2>1. /\ up = "restore" /\ up' = "open" /\ late' = late
        /\ dgram'.pkts = dgram.pkts /\ dgram'.cut = dgram.cut /\ dgram'.comma = dgram.comma
        /\ dgram'.trimmed = TRUE /\ dgram'.rep = 0
    BY <1>t, <1>r DEF RestoreReport, Dgram
  <2> QED
    BY <1>t, <2>1 DEF WellFormed, Dgram
<1>5. CASE OpenUp
  <2>1. /\ up = "open" /\ late' = late
        /\ \/ up' = "send" /\ dgram' = dgram
           \/ up' \in {"wait", "end"} /\ ~dgram'.trimmed
    BY <1>5 DEF OpenUp, UpLoop, NoDgram, flags
  <2> QED
    BY <2>1 DEF WellFormed
<1>6. CASE SendPush
  BY <1>6 DEF SendPush, NoDgram
<1>7. CASE AwaitAck
  BY <1>7 DEF AwaitAck, UpLoop
<1> QED
  BY <1>1, <1>2, <1>3, <1>4, <1>r, <1>5, <1>6, <1>7, Frames DEF Up

-----------------------------------------------------------------------------
(* The counters. *)

LEMMA NextConservation ==
  ASSUME TypeInv, Conservation, [Next]_vars
  PROVE  Conservation'
<1>t. /\ meas \in [Counters -> Nat] /\ total \in [Resettable -> Nat]
      /\ reported \in [Resettable -> Nat] /\ Resettable \subseteq Counters
  BY DEF TypeInv, TypeOK, CountTypes, Counters
<1>1. CASE UNCHANGED counts
  BY <1>1 DEF Conservation, counts
<1>2. ASSUME NEW c \in Counters, Counted(c) PROVE Conservation'
  <2> SUFFICES ASSUME NEW d \in Resettable PROVE total'[d] = reported'[d] + meas'[d]
    BY DEF Conservation
  <2>1. meas' = [meas EXCEPT ![c] = @ + 1] /\ reported' = reported
    BY <1>t, <1>2, CountedTypes DEF Counted
  <2>2. total' = IF c \in Resettable THEN [total EXCEPT ![c] = @ + 1] ELSE total
    BY <1>t, <1>2 DEF Counted, Bump
  <2>3. /\ total[d] = reported[d] + meas[d] /\ total[d] \in Nat
        /\ reported[d] \in Nat /\ meas[d] \in Nat
    BY <1>t DEF Conservation
  <2>4. meas'[d] = IF d = c THEN meas[d] + 1 ELSE meas[d]
    BY <1>t, <2>1
  <2>5. total'[d] = IF d = c THEN total[d] + 1 ELSE total[d]
    BY <1>t, <2>2
  <2> QED
    BY <2>1, <2>3, <2>4, <2>5
<1>3. ASSUME NEW c \in Resettable, Copied(c) PROVE Conservation'
  <2> SUFFICES ASSUME NEW d \in Resettable PROVE total'[d] = reported'[d] + meas'[d]
    BY DEF Conservation
  <2>1. /\ meas' = [meas EXCEPT ![c] = 0] /\ total' = total
        /\ reported' = [reported EXCEPT ![c] = @ + meas[c]]
    BY <1>3 DEF Copied, AfterCopy
  <2>2. /\ total[d] = reported[d] + meas[d] /\ total[d] \in Nat
        /\ reported[d] \in Nat /\ meas[d] \in Nat
    BY <1>t DEF Conservation
  <2>3. meas'[d] = IF d = c THEN 0 ELSE meas[d]
    BY <1>t, <2>1
  <2>4. reported'[d] = IF d = c THEN reported[d] + meas[d] ELSE reported[d]
    BY <1>t, <2>1
  <2> QED
    BY <2>1, <2>2, <2>3, <2>4
<1> QED
  BY <1>1, <1>2, <1>3, CountCases

\* What is counted under mx_report while PUSH_ACK is awaited.
PushInv ==
  /\ meas["up_ack_rcv"] <= meas["up_dgram_sent"]
  /\ up = "ack" => meas["up_ack_rcv"] < meas["up_dgram_sent"]

LEMMA NextPush ==
  ASSUME TypeInv, PushInv, [Next]_vars
  PROVE  PushInv'
<1>t. /\ meas \in [Counters -> Nat] /\ total \in [Resettable -> Nat]
      /\ meas["up_ack_rcv"] \in Nat /\ meas["up_dgram_sent"] \in Nat
      /\ "up_ack_rcv" \in Counters /\ "up_dgram_sent" \in Counters
      /\ Resettable \subseteq Counters
      /\ "up_ack_rcv" \notin Resettable /\ "up_dgram_sent" \notin Resettable
  BY DEF TypeInv, TypeOK, CountTypes, Counters, Resettable
<1>1. ASSUME NEW c \in Resettable, Counted(c) \/ Copied(c)
      PROVE  /\ meas'["up_ack_rcv"] = meas["up_ack_rcv"]
             /\ meas'["up_dgram_sent"] = meas["up_dgram_sent"]
  <2>1. \/ meas' = [meas EXCEPT ![c] = @ + 1]
        \/ meas' = [meas EXCEPT ![c] = 0]
    BY <1>t, <1>1, CountedTypes DEF Counted, Copied, AfterCopy
  <2>2. c # "up_ack_rcv" /\ c # "up_dgram_sent"
    BY <1>t
  <2> QED
    BY <1>t, <2>1, <2>2
<1>2. CASE SendPush
  <2>1. meas' = [meas EXCEPT !["up_dgram_sent"] = @ + 1]
    BY <1>t, <1>2, CountedTypes DEF SendPush, Counted
  <2>2. /\ meas'["up_ack_rcv"] = meas["up_ack_rcv"]
        /\ meas'["up_dgram_sent"] = meas["up_dgram_sent"] + 1
    BY <1>t, <2>1
  <2> QED
    BY <1>t, <2>2 DEF PushInv
<1>3. CASE AwaitAck
  <2>1. CASE meas' = meas
    <3>1. up = "ack"
      BY <1>3 DEF AwaitAck
    <3> QED
      BY <2>1, <3>1 DEF PushInv
  <2>2. CASE Counted("up_ack_rcv") /\ up' # "ack"
    <3>1. meas' = [meas EXCEPT !["up_ack_rcv"] = @ + 1]
      BY <1>t, <2>2, CountedTypes DEF Counted
    <3>2. /\ meas'["up_ack_rcv"] = meas["up_ack_rcv"] + 1
          /\ meas'["up_dgram_sent"] = meas["up_dgram_sent"]
      BY <1>t, <3>1
    <3> QED
      BY <1>t, <1>3, <2>2, <3>2 DEF PushInv, AwaitAck
  <2> QED
    BY <1>3, <2>1, <2>2 DEF AwaitAck, UpLoop, counts
<1>4. CASE \/ Wake \/ Request \/ ReportUp \/ ReportDown
           \/ UNCHANGED counts /\ ~SendPush /\ ~AwaitAck
  <2>1. /\ meas'["up_ack_rcv"] = meas["up_ack_rcv"]
        /\ meas'["up_dgram_sent"] = meas["up_dgram_sent"]
    BY <1>1, <1>4 DEF Wake, Request, ReportUp, ReportDown, counts, Resettable
  <2>2. up' = "ack" => up = "ack"
    <3>1. CASE UNCHANGED upvars
      BY <3>1 DEF upvars
    <3>2. CASE Wake \/ CloseArray \/ AppendReport \/ RestoreReport \/ OpenUp
      BY <3>2 DEF Wake, CloseArray, AppendReport, RestoreReport, OpenUp, UpLoop
    <3>3. ~SendPush /\ ~AwaitAck
      BY <1>4 DEF Wake, Request, ReportUp, ReportDown, SendPush, AwaitAck, ReportLockFree,
         Counted, Copied, upvars
    <3> QED
      BY <3>1, <3>2, <3>3, Frames DEF Up
  <2> QED
    BY <2>1, <2>2 DEF PushInv
<1> QED
  BY <1>2, <1>3, <1>4, Frames

-----------------------------------------------------------------------------
(* The answers to PULL_DATA: those received and those under way. *)

Pending == {f \in FD : "PULL_ACK" \in inbox[f]}

PendingInv ==
  /\ IsFiniteSet(Pending)
  /\ pull_ack + Cardinality(Pending) <= answers

\* A request not yet acknowledged is one more than the acknowledgements.
CreditInv ==
  /\ pull_ack <= pull_send
  /\ down = "count" => pull_ack < pull_send
  /\ down \in {"listen", "acked", "resp", "request", "txack"} /\ ~req_ack =>
       pull_ack < pull_send

LEMMA FewerPending ==
  ASSUME PendingInv, Pending' \subseteq Pending, answers' = answers,
         pull_ack' \in {pull_ack, 0}, pull_ack \in Nat, answers \in Nat
  PROVE  PendingInv'
<1>1. /\ IsFiniteSet(Pending') /\ Cardinality(Pending') <= Cardinality(Pending)
      /\ Cardinality(Pending) \in Nat /\ Cardinality(Pending') \in Nat
  BY FS_Subset, FS_CardinalityType DEF PendingInv
<1> QED
  BY <1>1 DEF PendingInv

LEMMA NextPending ==
  ASSUME TypeInv, PendingInv, [Next]_vars
  PROVE  PendingInv'
<1>t. /\ inbox \in [FD -> SUBSET Msg] /\ inbox' \in [FD -> SUBSET Msg]
      /\ pull_ack \in Nat /\ answers \in Nat
      /\ sock_up \in Socket /\ sock_down \in Socket
      /\ src_up \in Socket /\ src_down \in Socket
  <2>1. NetTypes' /\ load.answers \in Nat
    BY NetTyped, LoadTypes DEF TypeInv, TypeOK
  <2> QED
    BY <2>1 DEF TypeInv, TypeOK, NetTypes, DownTypes
<1>c. IsFiniteSet(Pending) /\ Cardinality(Pending) \in Nat
  BY FS_CardinalityType DEF PendingInv
<1>1. ASSUME \A f \in FD : "PULL_ACK" \in inbox'[f] => "PULL_ACK" \in inbox[f],
             answers' = answers, pull_ack' \in {pull_ack, 0}
      PROVE  PendingInv'
  BY <1>t, <1>1, FewerPending DEF Pending
<1>2. ASSUME NEW socks, Close(socks), answers' = answers, pull_ack' \in {pull_ack, 0}
      PROVE  PendingInv'
  BY <1>1, <1>2, <1>t DEF Close
<1>3. ASSUME NEW m \in {"PUSH_ACK", "PULL_ACK"}, inbox' = Aged(m),
             answers' = answers, pull_ack' = pull_ack
      PROVE  PendingInv'
  BY <1>1, <1>3, <1>t DEF Aged
<1>4. CASE UNCHANGED <<inbox, answers, pull_ack>>
  BY <1>1, <1>4
<1>5. CASE \E m \in Msg \ {"STALE"} : Answer(m)
  <2>1. PICK m \in Msg : Answer(m)
    BY <1>5
  <2>2. PICK f \in FD : inbox' = [inbox EXCEPT ![f] = @ \cup {m}]
    BY <1>t, <2>1 DEF Answer, Socket
  <2>3. /\ IsFiniteSet(Pending \cup {f})
        /\ Cardinality(Pending \cup {f}) =
             IF f \in Pending THEN Cardinality(Pending) ELSE Cardinality(Pending) + 1
    BY <1>c, FS_AddElement, Zenon
  <2>4. Pending' \subseteq Pending \cup {f}
    BY <1>t, <2>2 DEF Pending
  <2>5. /\ IsFiniteSet(Pending') /\ Cardinality(Pending') <= Cardinality(Pending \cup {f})
        /\ Cardinality(Pending') \in Nat
    BY <2>3, <2>4, FS_Subset, FS_CardinalityType
  <2>6. answers' = answers + 1 /\ pull_ack' = pull_ack
    BY <2>1 DEF Answer, downvars
  <2> QED
    BY <1>t, <1>c, <2>3, <2>5, <2>6 DEF PendingInv
<1>6. CASE Recv
  <2>1. PICK m \in inbox[sock_down] :
          /\ inbox' = [inbox EXCEPT ![sock_down] = @ \ {m}]
          /\ pull_ack' = pull_ack \/ (m = "PULL_ACK" /\ pull_ack' = pull_ack + 1)
    BY <1>6 DEF Recv, FirstAck
  <2>2. answers' = answers /\ sock_down \in FD
    BY <1>t, <1>6 DEF Recv, IsOpen, Socket
  <2>3. CASE pull_ack' = pull_ack
    BY <1>1, <1>t, <2>1, <2>2, <2>3
  <2>4. CASE m = "PULL_ACK" /\ pull_ack' = pull_ack + 1
    <3>1. sock_down \in Pending /\ Pending' = Pending \ {sock_down}
      BY <1>t, <2>1, <2>2, <2>4 DEF Pending
    <3>2. /\ IsFiniteSet(Pending')
          /\ Cardinality(Pending') = Cardinality(Pending) - 1
      BY <1>c, <3>1, FS_RemoveElement
    <3> QED
      BY <1>t, <1>c, <2>2, <2>4, <3>2 DEF PendingInv
  <2> QED
    BY <2>1, <2>3, <2>4
<1>7. CASE SendPush
  BY <1>3, <1>7 DEF SendPush, downvars
<1>8. CASE AwaitAck
  <2>1. CASE UNCHANGED inbox
    BY <1>4, <1>8, <2>1 DEF AwaitAck, downvars
  <2>2. ASSUME NEW m, IsOpen(sock_up), inbox' = [inbox EXCEPT ![sock_up] = @ \ {m}]
        PROVE  PendingInv'
    <3>1. sock_up \in FD
      BY <1>t, <2>2 DEF IsOpen, Socket
    <3> QED
      BY <1>1, <1>t, <1>8, <2>2, <3>1 DEF AwaitAck, downvars
  <2> QED
    BY <1>8, <2>1, <2>2 DEF AwaitAck
<1>9. CASE DownLoop
  BY <1>2, <1>4, <1>9 DEF DownLoop, net
<1>10. CASE CloseUp
  BY <1>2, <1>10 DEF CloseUp
<1>11. CASE Pull
  BY <1>3, <1>4, <1>11 DEF Pull
<1>12. CASE CloseBoth
  BY <1>2, <1>12 DEF CloseBoth, downvars
<1>13. CASE ~DownLoop /\ ~Recv /\ UNCHANGED <<sock_up, sock_down, net, answers>>
  <2>1. pull_ack' = pull_ack
    BY <1>13, Frames DEF downvars, Down, AutoQuit, CloseUp, ReopenDown, ReopenUp, Pull,
         CountPull, CountRecv, Request, TxAck, KeepAliveOver, Cancelled
  <2> QED
    BY <1>4, <1>13, <2>1 DEF net
<1>14. CASE OpenUp \/ ReopenDown \/ ReopenUp
  BY <1>4, <1>14 DEF OpenUp, ReopenDown, ReopenUp, downvars
<1> QED
  BY <1>5, <1>6, <1>7, <1>8, <1>9, <1>10, <1>11, <1>12, <1>13, <1>14, NetFrame

LEMMA NextCredit ==
  ASSUME TypeInv, PendingInv, CreditInv, [Next]_vars
  PROVE  CreditInv'
<1>t. /\ pull_ack \in Nat /\ pull_send \in Nat /\ req_ack \in BOOLEAN
      /\ PullBound \in Nat /\ pull_ack < PullBound
  <2>1. /\ pull_ack \in Nat /\ pull_send \in 0 .. PullBound /\ req_ack \in BOOLEAN
        /\ answers \in 0 .. load.answers /\ load.answers \in Nat
        /\ PullBound \in Nat /\ load.answers < PullBound
    BY PullBoundIsLarge, LoadTypes DEF TypeInv, TypeOK, DownTypes, NetTypes
  <2>2. Cardinality(Pending) \in Nat /\ pull_ack + Cardinality(Pending) <= answers
    BY FS_CardinalityType DEF PendingInv
  <2> QED
    BY <2>1, <2>2
<1> HIDE DEF PullBound
<1>1. CASE UNCHANGED downvars
  BY <1>1 DEF CreditInv, downvars
<1>2. CASE \/ AutoQuit \/ CloseUp \/ ReopenDown \/ ReopenUp \/ KeepAliveOver \/ Cancelled
           \/ CountRecv \/ Request \/ TxAck
  <2>1. /\ UNCHANGED <<pull_send, pull_ack, req_ack>>
        /\ down' # "count"
        /\ down' \in {"listen", "acked", "resp", "request", "txack"} =>
             down \in {"acked", "resp", "request", "txack"}
    BY <1>2 DEF AutoQuit, CloseUp, ReopenDown, ReopenUp, KeepAliveOver, Cancelled,
         CountRecv, Request, TxAck
  <2> QED
    BY <1>t, <2>1 DEF CreditInv
<1>3. CASE DownLoop
  BY <1>t, <1>3 DEF CreditInv, DownLoop
<1>4. CASE Pull
  <2>1. CASE down' = "loop" /\ UNCHANGED <<pull_send, pull_ack>>
    BY <1>t, <2>1 DEF CreditInv
  <2>2. CASE pull_send' = UpTo(PullBound, pull_send) /\ pull_ack' = pull_ack /\ down' = "count"
    <3>1. UpTo(PullBound, pull_send) \in Nat /\ pull_ack < UpTo(PullBound, pull_send)
      BY <1>t DEF CreditInv, UpTo
    <3>2. pull_ack' < pull_send' /\ pull_ack' <= pull_send' /\ down' = "count"
      BY <1>t, <2>2, <3>1
    <3> QED
      BY <3>2 DEF CreditInv
  <2> QED
    BY <1>4, <2>1, <2>2 DEF Pull
<1>5. CASE CountPull
  BY <1>t, <1>5 DEF CreditInv, CountPull
<1>6. CASE Recv
  BY <1>t, <1>6 DEF CreditInv, Recv, FirstAck
<1> QED
  BY <1>1, <1>2, <1>3, <1>4, <1>5, <1>6, Frames DEF Down

-----------------------------------------------------------------------------
(* The theorems. *)

SessionInv ==
  /\ TypeInv /\ ShapeInv /\ Conservation /\ PushInv /\ PendingInv /\ CreditInv

LEMMA SessionInvHolds == Spec => []SessionInv
<1>1. ASSUME Init PROVE SessionInv
  <2>1. TypeInv /\ ShapeInv
    BY <1>1, InitTypes DEF Init, ShapeInv, Shape, NoDgram
  <2>2. /\ meas = [c \in Counters |-> 0]
        /\ total = [c \in Resettable |-> 0] /\ reported = total
        /\ up = "wait" /\ down = "loop" /\ pull_send = 0 /\ pull_ack = 0 /\ answers = 0
        /\ inbox = [f \in FD |-> {}]
    BY <1>1 DEF Init
  <2>3. Conservation
    BY <2>2 DEF Conservation, Counters
  <2>4. PushInv
    BY <2>2 DEF PushInv, Counters
  <2>5. Pending = {}
    BY <2>2 DEF Pending
  <2>6. PendingInv
    BY <2>2, <2>5, FS_EmptySet DEF PendingInv
  <2>7. CreditInv
    BY <2>2 DEF CreditInv
  <2> QED
    BY <2>1, <2>3, <2>4, <2>6, <2>7 DEF SessionInv
<1>2. ASSUME SessionInv, [Next]_vars PROVE SessionInv'
  BY <1>2, NextTypes, NextShape, NextConservation, NextPush, NextPending, NextCredit
     DEF SessionInv
<1> QED
  BY <1>1, <1>2, PTL DEF Spec

\* Every variable of a session has its type in every reachable state, whatever
\* the steps of the threads, the kernel and the network.
THEOREM SessionTypes == Spec => []TypeOK
<1>1. SessionInv => TypeOK
  BY DEF SessionInv, TypeInv
<1> QED
  BY <1>1, SessionInvHolds, PTL

\* Every PUSH_DATA is a JSON object, but for a report that became ready between
\* the second and the third unlocked read of report_ready and for a report on
\* its own that could not be printed.
THEOREM DatagramShape == Spec => []Shape
<1>1. SessionInv => Shape
  BY DEF SessionInv, ShapeInv
<1> QED
  BY <1>1, SessionInvHolds, PTL

\* What is counted is in a report or still to be reported, for any number of
\* reports and whenever the two critical sections of a report fall.
THEOREM NothingLost == Spec => []Conservation
<1>1. SessionInv => Conservation
  BY DEF SessionInv
<1> QED
  BY <1>1, SessionInvHolds, PTL

\* There are at most as many acknowledgements as requests, whatever is
\* repeated, late or received on a descriptor given again.
THEOREM OneAnswer == Spec => []AnsweredOnce
<1>1. SessionInv => AnsweredOnce
  BY DEF SessionInv, PushInv, CreditInv, AnsweredOnce
<1> QED
  BY <1>1, SessionInvHolds, PTL

\* No report is sent twice or after a later one.
THEOREM ReportsInOrder == Spec => ReportOnce
<1>1. ASSUME SessionInv PROVE up = "send" /\ up' = "ack" => dgram.rep = 0 \/ dgram.rep > last
  <2>1. dgram.rep \in Nat /\ last \in Nat
    BY <1>1, LoadTypes DEF SessionInv, TypeInv, TypeOK, UpTypes, MainTypes, Dgram
  <2> QED
    BY <1>1, <2>1 DEF SessionInv, TypeInv, Numbered
<1> QED
  BY <1>1, SessionInvHolds, PTL DEF ReportOnce
=============================================================================
