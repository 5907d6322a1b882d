--------------------------- MODULE SemtechSession ---------------------------
(***************************************************************************)
(* One Semtech service of the packet forwarder: its upstream thread        *)
(* (semtech_push_up), its downstream thread (semtech_pull_down; its beacon *)
(* loop is BeaconLoop), and the main thread, which writes the service's    *)
(* reports (semtech_report of fwd/src/stats.c) and stops it.  They share   *)
(* the semaphore, report_ready (tested without a lock), the counters under *)
(* mx_report, which the upstream thread keeps while it waits for PUSH_ACK, *)
(* and the two sockets, which the downstream thread closes and opens again *)
(* under the upstream one.                                                 *)
(*                                                                         *)
(* A socket is a file descriptor: a number that the kernel may give again  *)
(* once it is closed.  The network loses, delays and repeats datagrams;    *)
(* tokens are fresh, and a datagram that answers an older request is       *)
(* STALE.  get_rxpkt is one step here: RxDispatch has its walk.            *)
(***************************************************************************)
EXTENDS Integers, FiniteSets

CONSTANTS
  FD,             \* file descriptors
  NOSOCK,         \* -1
  RATIO,          \* sockets are replaced below one answer in RATIO (10)
  Loads           \* bounds and configurations, one of which an execution has

ASSUME SessionAssumption ==
  /\ NOSOCK \notin FD
  /\ RATIO \in Nat \ {0}
  /\ Loads \subseteq [batches : Nat, reports : Nat, answers : Nat,
                     autoquit : Nat, stop : BOOLEAN, fails : BOOLEAN]

VARIABLES
  up, tries, dgram,           \* upstream: control, recv calls left, PUSH_DATA
  down, pull_send, pull_ack, req_ack, autoquit_cnt,   \* downstream
  main, report,               \* main thread, number of the report it writes
  stop_sig,
  batches, arrived, sema,     \* batches not yet taken, all of them; semaphore
  report_ready, status_report,
  meas,                       \* counters under mx_report
  sock_up, sock_down, peer,   \* the sockets; what each descriptor is
  inbox, answers,             \* datagrams on their way to a descriptor
  src_up, src_down,           \* where the server last heard from
  load,                       \* batches received, reports written and datagrams sent
                              \* by the server at most, autoquit_threshold (0 for
                              \* none), whether the service is stopped and whether
                              \* the printing of a report may fail
  total, reported, last,      \* history: events, events reported, last report sent
  late                        \* history: the report became ready after the separator
                              \* was decided on

upvars   == <<up, tries, dgram>>
downvars == <<down, pull_send, pull_ack, req_ack, autoquit_cnt>>
mainvars == <<main, report>>
radio    == <<batches, arrived>>
flags    == <<report_ready, status_report, late>>
net      == <<peer, inbox, src_up, src_down>>
counts   == <<meas, total, reported>>
vars == <<upvars, downvars, mainvars, stop_sig, radio, sema, flags, counts,
          sock_up, sock_down, net, answers, load, last>>

Msg    == {"PULL_ACK", "PULL_RESP", "PUSH_ACK", "STALE"}
Socket == FD \cup {NOSOCK}

\* What the properties tell apart in a PUSH_DATA: packets, the rxpk prefix
\* cut off, the separator, the report (0 for none), the last character
\* removed before the closing brace.
Dgram   == [pkts : BOOLEAN, cut : BOOLEAN, comma : BOOLEAN, rep : Nat,
            trimmed : BOOLEAN]
NoDgram == [pkts |-> FALSE, cut |-> FALSE, comma |-> FALSE, rep |-> 0,
            trimmed |-> FALSE]

\* Of stat_up and stat_down: meas_nb_rx_rcv and meas_nb_tx_requested, which
\* a report resets, and meas_up_dgram_sent and meas_up_ack_rcv.
Resettable == {"nb_rx_rcv", "nb_tx_requested"}
Counters   == Resettable \cup {"up_dgram_sent", "up_ack_rcv"}

\* What is compared with a limit is counted up to it: autoquit_cnt with the
\* threshold, pull_send with RATIO times the answers there can be (Silent).
PullBound == RATIO * (load.answers + 1) + 1
UpTo(bound, n) == IF n < bound THEN n + 1 ELSE n

UpTypes ==
  /\ up \in {"wait", "close", "append", "restore", "open", "send", "ack",
             "end"}
  /\ tries \in 0 .. 2
  /\ dgram \in Dgram

DownTypes ==
  /\ down \in {"loop", "close", "opendown", "openup", "check", "count",
               "listen", "acked", "resp", "request", "txack", "end"}
  /\ pull_send \in 0 .. PullBound
  /\ pull_ack \in Nat
  /\ req_ack \in BOOLEAN
  /\ autoquit_cnt \in Nat

MainTypes ==
  /\ main \in {"idle", "down", "publish", "post", "join", "close", "end"}
  /\ {report, status_report, last} \subseteq 0 .. load.reports
  /\ {stop_sig, report_ready, late} \subseteq BOOLEAN

CountTypes ==
  /\ {batches, arrived} \subseteq 0 .. load.batches
  /\ sema \in Nat
  /\ meas \in [Counters -> Nat]
  /\ total \in [Resettable -> Nat] /\ reported \in [Resettable -> Nat]

NetTypes ==
  /\ {sock_up, sock_down, src_up, src_down} \subseteq Socket
  /\ peer \in [FD -> {"free", "port_up", "port_down"}]
  /\ inbox \in [FD -> SUBSET Msg]
  /\ answers \in 0 .. load.answers

TypeOK ==
  /\ UpTypes /\ DownTypes /\ MainTypes /\ CountTypes /\ NetTypes
  /\ load \in Loads

\* semtech_start: either socket may have failed to open.
Init ==
  /\ up = "wait" /\ tries = 0 /\ dgram = NoDgram
  /\ down = "loop" /\ pull_send = 0 /\ pull_ack = 0
  /\ req_ack = FALSE /\ autoquit_cnt = 0
  /\ main = "idle" /\ report = 0
  /\ stop_sig = FALSE
  /\ batches = 0 /\ arrived = 0 /\ sema = 0
  /\ report_ready = FALSE /\ status_report = 0 /\ late = FALSE
  /\ meas = [c \in Counters |-> 0]
  /\ sock_up \in Socket
  /\ sock_down \in (Socket \ {sock_up}) \cup {NOSOCK}
  /\ peer = [f \in FD |-> IF f = sock_up THEN "port_up"
                          ELSE IF f = sock_down THEN "port_down" ELSE "free"]
  /\ inbox = [f \in FD |-> {}] /\ answers = 0
  /\ src_up = NOSOCK /\ src_down = NOSOCK
  /\ load \in Loads
  /\ total = [c \in Resettable |-> 0] /\ reported = total /\ last = 0

-----------------------------------------------------------------------------
\* mx_report is kept from one step to the next in the PUSH_ACK wait only.
ReportLockFree == up # "ack"

Bump(c, f) == IF c \in DOMAIN f THEN [f EXCEPT ![c] = @ + 1] ELSE f

\* c is incremented under mx_report.
Counted(c) ==
  /\ meas' = Bump(c, meas)
  /\ total' = Bump(c, total)
  /\ UNCHANGED reported

\* init_sock: a descriptor, or -1, in which case the socket stays open when
\* it is connect that failed.
InitSock(port) ==
  LET Free    == {f \in FD : peer[f] = "free"}
      With(f) == [peer EXCEPT ![f] = port] IN
  {[sock |-> f, peer |-> With(f)] : f \in Free}
    \cup {[sock |-> NOSOCK, peer |-> With(f)] : f \in Free}
    \cup {[sock |-> NOSOCK, peer |-> peer]}

\* close on each of socks; nothing happens to -1 or to a closed descriptor.
Close(socks) ==
  /\ peer' = [f \in FD |-> IF f \in socks THEN "free" ELSE peer[f]]
  /\ inbox' = [f \in FD |-> IF f \in socks THEN {} ELSE inbox[f]]
  /\ src_up' = IF src_up \in socks THEN NOSOCK ELSE src_up
  /\ src_down' = IF src_down \in socks THEN NOSOCK ELSE src_down

IsOpen(sock) == sock # NOSOCK /\ peer[sock] # "free"

\* A new token: answers under way to the previous request are stale.
Aged(m) == [f \in FD |-> {IF n = m THEN "STALE" ELSE n : n \in inbox[f]}]

\* send on a socket that may be -1, closed, or another one by now.
HeardFrom(sock, old) == IF IsOpen(sock) THEN sock ELSE old

-----------------------------------------------------------------------------
(* The environment: the radio and the server. *)

\* thread_up inserts a batch and posts the semaphore.
Uplink ==
  /\ arrived < load.batches
  /\ arrived' = arrived + 1
  /\ batches' = batches + 1
  /\ sema' = sema + 1
  /\ UNCHANGED <<upvars, downvars, mainvars, stop_sig, flags, counts, sock_up,
                 sock_down, net, answers, load, last>>

\* The server answers the last request it heard, perhaps once more, or sends
\* a downlink.
Answer(m) ==
  LET f == IF m = "PUSH_ACK" THEN src_up ELSE src_down IN
  /\ answers < load.answers
  /\ f # NOSOCK
  /\ inbox' = [inbox EXCEPT ![f] = @ \cup {m}]
  /\ answers' = answers + 1
  /\ UNCHANGED <<upvars, downvars, mainvars, stop_sig, radio, sema, flags, counts,
                 sock_up, sock_down, peer, src_up, src_down, load, last>>

-----------------------------------------------------------------------------
(* The upstream thread. *)

\* The test of the main loop.
UpLoop == IF stop_sig THEN "end" ELSE "wait"

\* sem_wait, get_rxpkt and the first test of report_ready.  The packets taken
\* are counted under mx_report, filtered and serialised.
Wake ==
  /\ up = "wait"
  /\ sema > 0
  /\ sema' = sema - 1
  /\ \/ /\ batches > 0
        /\ batches' = batches - 1
        /\ Counted("nb_rx_rcv")
        /\ \E kept \in BOOLEAN : dgram' = [NoDgram EXCEPT !.pkts = kept]
        /\ up' = "close"
     \/ /\ batches = 0
        /\ up' = IF report_ready THEN "close" ELSE UpLoop
        /\ UNCHANGED <<batches, dgram, counts>>
  /\ UNCHANGED <<tries, downvars, mainvars, stop_sig, arrived, flags, sock_up,
                 sock_down, net, answers, load, last>>

Separated_Always(pkts) == pkts  \* mutant: a comma after every array

\* The comma after the array of packets, "if needed".
Separated(pkts) == pkts /\ report_ready

\* The array is closed, or its prefix cut off when there is only a report.
CloseArray ==
  /\ up = "close"
  /\ \/ /\ dgram.pkts \/ report_ready
        /\ dgram' = [dgram EXCEPT !.cut = ~dgram.pkts, !.comma = Separated(dgram.pkts)]
        /\ up' = "append"
     \/ /\ ~dgram.pkts /\ ~report_ready
        /\ up' = UpLoop
        /\ UNCHANGED dgram
  /\ late' = FALSE
  /\ UNCHANGED <<tries, downvars, mainvars, stop_sig, radio, sema, report_ready,
                 status_report, counts, sock_up, sock_down, net, answers, load, last>>

Cleared_Forgotten == report_ready  \* mutant: report_ready not reset

Cleared == FALSE

\* report_ready is tested again; only this thread clears it, so the lock that
\* follows changes nothing to the test.  The text is printed behind what is
\* there, or snprintf fails.
AppendReport ==
  /\ up = "append"
  /\ \/ /\ report_ready
        /\ report_ready' = Cleared
        /\ \/ /\ dgram' = [dgram EXCEPT !.rep = status_report]
              /\ up' = "open"
           \/ /\ load.fails
              /\ up' = "restore"
              /\ UNCHANGED dgram
     \/ /\ ~report_ready
        /\ up' = "open"
        /\ UNCHANGED <<report_ready, dgram>>
  /\ UNCHANGED <<tries, downvars, mainvars, stop_sig, radio, sema, status_report, late,
                 counts, sock_up, sock_down, net, answers, load, last>>

\* After a failure the report is ready again, without a wake-up, and the last
\* character is given up for it, whichever that is.
RestoreReport ==
  /\ up = "restore"
  /\ report_ready' = TRUE
  /\ dgram' = [dgram EXCEPT !.trimmed = TRUE]
  /\ up' = "open"
  /\ UNCHANGED <<tries, downvars, mainvars, stop_sig, radio, sema, status_report, late,
                 counts, sock_up, sock_down, net, answers, load, last>>

\* sock_up is opened when there is none; the datagram is dropped if that fails.
OpenUp ==
  /\ up = "open"
  /\ \/ /\ sock_up = NOSOCK
        /\ \E r \in InitSock("port_up") :
             /\ sock_up' = r.sock
             /\ peer' = r.peer
             /\ up' = IF r.sock = NOSOCK THEN UpLoop ELSE "send"
             /\ dgram' = IF r.sock = NOSOCK THEN NoDgram ELSE dgram
     \/ /\ sock_up # NOSOCK
        /\ up' = "send"
        /\ UNCHANGED <<sock_up, peer, dgram>>
  /\ UNCHANGED <<tries, downvars, mainvars, stop_sig, radio, sema, flags, counts,
                 sock_down, inbox, src_up, src_down, answers, load, last>>

AckTries_OneMore == 3  \* mutant: i <= 2

AckTries == 2

\* send, then mx_report is taken for the count and the wait.
SendPush ==
  /\ up = "send"
  /\ src_up' = HeardFrom(sock_up, src_up)
  /\ inbox' = Aged("PUSH_ACK")
  /\ Counted("up_dgram_sent")
  /\ last' = IF dgram.rep # 0 THEN dgram.rep ELSE last
  /\ tries' = AckTries
  /\ dgram' = NoDgram
  /\ up' = "ack"
  /\ UNCHANGED <<downvars, mainvars, stop_sig, radio, sema, flags, sock_up,
                 sock_down, peer, src_down, answers, load>>

\* One recv of the wait, on whatever sock_up is now: an error ends the wait, a
\* timeout or any other datagram costs one try, the acknowledgement ends it.
AwaitAck ==
  /\ up = "ack"
  /\ \/ /\ ~IsOpen(sock_up)
        /\ tries' = 0
        /\ up' = UpLoop
        /\ UNCHANGED <<inbox, counts>>
     \/ /\ IsOpen(sock_up)
        /\ \E m \in inbox[sock_up] \cup {"timeout"} :
             /\ inbox' = [inbox EXCEPT ![sock_up] = @ \ {m}]
             /\ \/ /\ m = "PUSH_ACK"
                   /\ Counted("up_ack_rcv")
                   /\ tries' = 0
                   /\ up' = UpLoop
                \/ /\ m # "PUSH_ACK"
                   /\ tries' = tries - 1
                   /\ up' = IF tries' = 0 THEN UpLoop ELSE "ack"
                   /\ UNCHANGED counts
  /\ UNCHANGED <<dgram, downvars, mainvars, stop_sig, radio, sema, flags, sock_up,
                 sock_down, peer, src_up, src_down, answers, load, last>>

Up == \/ Wake \/ CloseArray \/ AppendReport \/ RestoreReport
      \/ OpenUp \/ SendPush \/ AwaitAck

-----------------------------------------------------------------------------
(* The downstream thread. *)

Silent_Strict == pull_ack = 0 /\ pull_send >= RATIO  \* mutant: one answer is enough for ever

\* pull_ack < labs(pull_send * 0.1)
Silent == pull_ack < pull_send \div RATIO

AutoQuit ==
  /\ down = "loop" /\ ~stop_sig
  /\ load.autoquit > 0 /\ autoquit_cnt >= load.autoquit
  /\ stop_sig' = TRUE
  /\ down' = "end"
  /\ UNCHANGED <<upvars, pull_send, pull_ack, req_ack, autoquit_cnt, mainvars, radio,
                 sema, flags, counts, sock_up, sock_down, net, answers, load, last>>

\* The head of the main loop: too few answers close the downstream socket.
DownLoop ==
  /\ down = "loop"
  /\ stop_sig \/ load.autoquit = 0 \/ autoquit_cnt < load.autoquit
  /\ \/ /\ stop_sig
        /\ down' = "end"
        /\ UNCHANGED <<pull_send, pull_ack, net>>
     \/ /\ ~stop_sig /\ Silent
        /\ pull_send' = 0 /\ pull_ack' = 0
        /\ Close({sock_down})
        /\ down' = "close"
     \/ /\ ~stop_sig /\ ~Silent
        /\ down' = "check"
        /\ UNCHANGED <<pull_send, pull_ack, net>>
  /\ UNCHANGED <<upvars, req_ack, autoquit_cnt, mainvars, stop_sig, radio, sema, flags,
                 counts, sock_up, sock_down, answers, load, last>>

CloseUp ==
  /\ down = "close"
  /\ Close({sock_up})
  /\ down' = "opendown"
  /\ UNCHANGED <<upvars, pull_send, pull_ack, req_ack, autoquit_cnt, mainvars, stop_sig,
                 radio, sema, flags, counts, sock_up, sock_down, answers, load, last>>

ReopenDown ==
  /\ down = "opendown"
  /\ \E r \in InitSock("port_down") : sock_down' = r.sock /\ peer' = r.peer
  /\ down' = "openup"
  /\ UNCHANGED <<upvars, pull_send, pull_ack, req_ack, autoquit_cnt, mainvars, stop_sig,
                 radio, sema, flags, counts, sock_up, inbox, src_up, src_down, answers,
                 load, last>>

\* The upstream socket is opened to the downstream port.
ReopenUp ==
  /\ down = "openup"
  /\ \E r \in InitSock("port_down") : sock_up' = r.sock /\ peer' = r.peer
  /\ down' = "check"
  /\ UNCHANGED <<upvars, pull_send, pull_ack, req_ack, autoquit_cnt, mainvars, stop_sig,
                 radio, sema, flags, counts, sock_down, inbox, src_up, src_down, answers,
                 load, last>>

\* Without a socket the loop starts again; otherwise PULL_DATA is sent.
Pull ==
  /\ down = "check"
  /\ \/ /\ sock_down = NOSOCK
        /\ down' = "loop"
        /\ UNCHANGED <<pull_send, inbox, src_down>>
     \/ /\ sock_down # NOSOCK
        /\ inbox' = Aged("PULL_ACK")
        /\ src_down' = HeardFrom(sock_down, src_down)
        /\ pull_send' = UpTo(PullBound, pull_send)
        /\ down' = "count"
  /\ UNCHANGED <<upvars, pull_ack, req_ack, autoquit_cnt, mainvars, stop_sig, radio, sema,
                 flags, counts, sock_up, sock_down, peer, src_up, answers, load, last>>

\* meas_dw_pull_sent is counted under mx_report.
CountPull ==
  /\ down = "count"
  /\ ReportLockFree
  /\ req_ack' = FALSE
  /\ autoquit_cnt' = UpTo(load.autoquit, autoquit_cnt)
  /\ down' = "listen"
  /\ UNCHANGED <<upvars, pull_send, pull_ack, mainvars, stop_sig, radio, sema, flags,
                 counts, sock_up, sock_down, net, answers, load, last>>

\* DEFAULT_KEEPALIVE seconds have passed.
KeepAliveOver ==
  /\ down = "listen"
  /\ down' = "loop"
  /\ UNCHANGED <<upvars, pull_send, pull_ack, req_ack, autoquit_cnt, mainvars, stop_sig,
                 radio, sema, flags, counts, sock_up, sock_down, net, answers, load,
                 last>>

FirstAck_Any(m) == m = "PULL_ACK"  \* mutant: duplicates are counted

\* The acknowledgement of this request, for the first time.
FirstAck(m) == m = "PULL_ACK" /\ ~req_ack

\* A datagram is received: what is not the first acknowledgement nor a
\* PULL_RESP is ignored.  The latter is dropped when its JSON is bad, and
\* refused when it needs a GPS time that is not there.
Recv ==
  /\ down = "listen"
  /\ IsOpen(sock_down)
  /\ \E m \in inbox[sock_down] :
       /\ inbox' = [inbox EXCEPT ![sock_down] = @ \ {m}]
       /\ \/ /\ FirstAck(m)
             /\ req_ack' = TRUE
             /\ pull_ack' = pull_ack + 1
             /\ autoquit_cnt' = 0
             /\ down' = "acked"
          \/ /\ m = "PULL_RESP"
             /\ down' \in {"listen", "txack", "resp"}
             /\ UNCHANGED <<req_ack, pull_ack, autoquit_cnt>>
          \/ /\ ~FirstAck(m) /\ m # "PULL_RESP"
             /\ UNCHANGED <<down, req_ack, pull_ack, autoquit_cnt>>
  /\ UNCHANGED <<upvars, pull_send, mainvars, stop_sig, radio, sema, flags, counts,
                 sock_up, sock_down, peer, src_up, src_down, answers, load, last>>

\* meas_dw_ack_rcv or, for a PULL_RESP, meas_dw_dgram_rcv is counted under
\* mx_report.  Then a bad rf_chain is dropped and a bad frequency refused.
CountRecv ==
  /\ ReportLockFree
  /\ \/ /\ down = "acked"
        /\ down' = "listen"
     \/ /\ down = "resp"
        /\ down' \in {"listen", "txack", "request"}
  /\ UNCHANGED <<upvars, pull_send, pull_ack, req_ack, autoquit_cnt, mainvars, stop_sig,
                 radio, sema, flags, counts, sock_up, sock_down, net, answers, load,
                 last>>

\* jit_enqueue (JitQueue has it), then the count under mx_report.
Request ==
  /\ down = "request"
  /\ ReportLockFree
  /\ Counted("nb_tx_requested")
  /\ down' = "txack"
  /\ UNCHANGED <<upvars, pull_send, pull_ack, req_ack, autoquit_cnt, mainvars, stop_sig,
                 radio, sema, flags, sock_up, sock_down, net, answers, load, last>>

\* send_tx_ack, on whatever sock_up is; most refusals are counted under
\* mx_report.
TxAck ==
  /\ down = "txack"
  /\ ReportLockFree
  /\ down' = "listen"
  /\ UNCHANGED <<upvars, pull_send, pull_ack, req_ack, autoquit_cnt, mainvars, stop_sig,
                 radio, sema, flags, counts, sock_up, sock_down, net, answers, load,
                 last>>

Down == \/ AutoQuit \/ DownLoop \/ CloseUp \/ ReopenDown \/ ReopenUp \/ Pull \/ CountPull
        \/ Recv \/ CountRecv \/ Request \/ TxAck

-----------------------------------------------------------------------------
(* The main thread: semtech_report, again and again, then semtech_stop. *)

AfterCopy_Kept(c, m) == m  \* mutant: copied and not reset

\* The counter c is copied and reset.
AfterCopy(c, m) == [m EXCEPT ![c] = 0]

Copied(c) ==
  /\ reported' = [reported EXCEPT ![c] = @ + meas[c]]
  /\ meas' = AfterCopy(c, meas)
  /\ UNCHANGED total

\* The upstream counters, then the downstream ones, under mx_report each time.
ReportUp ==
  /\ main = "idle"
  /\ report < load.reports
  /\ ReportLockFree
  /\ Copied("nb_rx_rcv")
  /\ report' = report + 1
  /\ main' = "down"
  /\ UNCHANGED <<upvars, downvars, stop_sig, radio, sema, flags, sock_up, sock_down, net,
                 answers, load, last>>

ReportDown ==
  /\ main = "down"
  /\ ReportLockFree
  /\ Copied("nb_tx_requested")
  /\ main' = "publish"
  /\ UNCHANGED <<upvars, downvars, report, stop_sig, radio, sema, flags, sock_up,
                 sock_down, net, answers, load, last>>

\* The text is written over the one before, sent or not.
Publish ==
  /\ main = "publish"
  /\ ReportLockFree
  /\ status_report' = report
  /\ report_ready' = TRUE
  /\ late' = (late \/ (up = "append" /\ ~report_ready))
  /\ main' = "post"
  /\ UNCHANGED <<upvars, downvars, report, stop_sig, radio, sema, counts, sock_up,
                 sock_down, net, answers, load, last>>

Posted_Forgotten(n) == n  \* mutant: no sem_post after a report

Posted(n) == n + 1

Post ==
  /\ main = "post"
  /\ sema' = Posted(sema)
  /\ main' = "idle"
  /\ UNCHANGED <<upvars, downvars, report, stop_sig, radio, flags, counts, sock_up,
                 sock_down, net, answers, load, last>>

Report == ReportDown \/ Publish \/ Post

Woken_Forgotten(n) == n  \* mutant: semtech_stop does not post

Woken(n) == n + 1

Stop ==
  /\ load.stop
  /\ main = "idle"
  /\ stop_sig' = TRUE
  /\ sema' = Woken(sema)
  /\ main' = "join"
  /\ UNCHANGED <<upvars, downvars, report, radio, flags, counts, sock_up, sock_down, net,
                 answers, load, last>>

\* pthread_join of the upstream thread, pthread_cancel of the other.
Join ==
  /\ main = "join"
  /\ up = "end"
  /\ main' = "close"
  /\ UNCHANGED <<upvars, downvars, report, stop_sig, radio, sema, flags, counts, sock_up,
                 sock_down, net, answers, load, last>>

CloseBoth ==
  /\ main = "close"
  /\ Close({sock_up, sock_down})
  /\ sock_up' = NOSOCK /\ sock_down' = NOSOCK
  /\ main' = "end"
  /\ UNCHANGED <<upvars, downvars, report, stop_sig, radio, sema, flags, counts, answers,
                 load, last>>

\* The downstream thread gets to a cancellation point (send, recv, close).
Cancelled ==
  /\ main \in {"close", "end"}
  /\ down # "end"
  /\ down' = "end"
  /\ UNCHANGED <<upvars, pull_send, pull_ack, req_ack, autoquit_cnt, mainvars, stop_sig,
                 radio, sema, flags, counts, sock_up, sock_down, net, answers, load,
                 last>>

-----------------------------------------------------------------------------
Next == \/ Uplink \/ \E m \in Msg \ {"STALE"} : Answer(m)
        \/ Up \/ Down \/ KeepAliveOver
        \/ ReportUp \/ Report \/ Stop \/ Join \/ CloseBoth \/ Cancelled

Spec == Init /\ [][Next]_vars

\* Every thread runs, recv times out, and ten seconds pass.
FairSpec == Spec /\ WF_vars(Up) /\ WF_vars(Down) /\ SF_vars(KeepAliveOver)
                 /\ WF_vars(Report) /\ WF_vars(Join) /\ WF_vars(CloseBoth)
                 /\ WF_vars(Cancelled)

-----------------------------------------------------------------------------
(* Properties. *)

\* A datagram is one JSON object: packets, a report behind a comma, or a
\* report in the place of the packets.  A removed character may have been the
\* comma; any other takes a bracket.
WellFormed(d) ==
  \/ d.pkts /\ d.rep = 0 /\ d.comma = d.trimmed
  \/ d.pkts /\ d.rep # 0 /\ d.comma /\ ~d.trimmed
  \/ ~d.pkts /\ d.rep # 0 /\ d.cut /\ ~d.comma /\ ~d.trimmed

\* semtech_protocol.txt: a PUSH_DATA holds a "JSON object, starting with {,
\* ending with }".
JsonObject == up = "send" => WellFormed(dgram)

\* What the unlocked reads of report_ready cost is known: a malformed PUSH_DATA
\* has packets and a report that became ready between the second read (the
\* separator) and the third (the report), or has no packets and a report that
\* could not be printed.  No other interleaving makes one, neither an empty
\* object nor a separator with nothing behind it.
Shape ==
  up \in {"open", "send"} /\ ~WellFormed(dgram) =>
    \/ dgram.pkts /\ late /\ ~dgram.comma
    \/ ~dgram.pkts /\ dgram.cut /\ dgram.trimmed

\* No report is sent twice, or after a later one.
ReportOnce ==
  [][up = "send" /\ up' = "ack" => dgram.rep = 0 \/ dgram.rep > last]_vars

\* No event is lost or counted twice between the threads that count under
\* mx_report and the reports, which copy and reset in two critical sections.
Conservation ==
  \A c \in Resettable : total[c] = reported[c] + meas[c]

\* Whatever is repeated, late or received on a descriptor given again, a
\* request has one acknowledgement: the ratios of the report are at most one
\* and the keep-alive test compares answers with requests.
AnsweredOnce ==
  /\ pull_ack <= pull_send
  /\ meas["up_ack_rcv"] <= meas["up_dgram_sent"]

\* A report that is ready leaves report_ready, unless the service ends: its
\* wake-up is never lost.  One that could not be printed has none (see
\* RestoreReport) and waits for the next packet.
ReportLeaves == report_ready /\ ~load.fails ~> (~report_ready \/ stop_sig)

\* The keep-alive: once the server is silent the sockets are replaced, however
\* many answers came before.
Reconnects ==
  (answers = load.answers /\ load.autoquit = 0)
    ~> (down = "opendown" \/ sock_down = NOSOCK \/ stop_sig)

\* semtech_stop ends, although the upstream thread may wait for a packet, a
\* report or an acknowledgement.
Stops == main = "join" ~> main = "end"
=============================================================================
