----------------------------- MODULE QmiThread -----------------------------
(***************************************************************************)
(* The QMI request/response rendezvous of quectel-CM.  The main thread     *)
(* calls QmiThreadSendQMITimeout (QMIThread.c), which registers its        *)
(* request in s_pRequest, writes it to the modem and waits on a condition  *)
(* variable; the reader thread QmiWwanThread (QmiWwanCM.c) reads messages  *)
(* from the modem and passes each to QmiThreadRecvQMI, which either        *)
(* completes the registered request or turns an indication into an event   *)
(* for the main thread.  Both ends share s_commandmutex.                   *)
(*                                                                         *)
(* A request is identified by the number n of the call on its transaction  *)
(* id counter.  The code never sees n: is_response compares the client and *)
(* the transaction id only.                                                *)
(***************************************************************************)
EXTENDS Integers, Sequences, FiniteSets

CONSTANTS
  Ctl,       \* the control client (QMUX_TYPE_CTL)
  Services,  \* the service clients: (QMI type, client id) pairs in use
  MaxTid,    \* MaxTid[k]: last transaction id before counter k wraps (0xFF, 0xFFFF)
  Lag,       \* a request is answered or dropped before Lag more are sent
  MaxSend,   \* MaxSend[k]: bound on the requests of counter k
  IndTids,   \* transaction ids the modem gives its indications
  MaxInd,    \* bound on the indications the modem sends
  MaxAlarm,  \* SIGALRM is not modelled with more signals waiting than this
  EventCap,  \* events that fit in the socket pair to the main thread
  NULL

Clients == {Ctl} \cup Services
Counters == {"CTL", "QMUX"}
Counter(c) == IF c = Ctl THEN "CTL" ELSE "QMUX"
Request == [client : Clients, tid : Nat, n : Nat]

ASSUME ClientAssumption == Ctl \notin Services
ASSUME TidAssumption == MaxTid \in [Counters -> Nat \ {0}]
ASSUME LagAssumption == Lag \in Nat /\ \A k \in Counters : Lag < MaxTid[k]
ASSUME IndAssumption == IndTids \subseteq Nat /\ \A k \in Counters : IndTids \cap (1 .. MaxTid[k]) = {}
ASSUME BoundAssumption ==
  /\ MaxSend \in [Counters -> Nat]
  /\ MaxInd \in Nat /\ MaxAlarm \in Nat /\ EventCap \in Nat \ {0}
ASSUME NullAssumption == NULL \notin Request

Indications == {"REVOKE", "NAS", "WDS", "OTHER"}
Events == {"RESET", "NETWORK_STATE", "DATA_CALL_LIST", "DISCONNECTED"}

VARIABLES
  seq,          \* seq[k]: requests composed so far on counter k
  TransactionId,\* the static counters of GetQ(MUX|CTL)TransactionId
  pc,           \* where the main thread is
  call,         \* pRequest of the main thread's current or last call
  answer,       \* *ppResponse of that call, as its caller sees it
  s_pRequest, s_pResponse,
  live,         \* requests allocated and not yet freed
  inflight,     \* requests the modem has received and not answered
  cdc_wdm_fd,   \* the modem's device is open
  controlOpen,  \* the socket pair qmidevice_control_fd is open
  control,      \* events on their way to the reader thread
  events,       \* events on their way to the main thread
  tpc,          \* where the reader thread is
  pending,      \* the event the reader thread is writing
  wait_for_request_quit,
  signals,      \* what waits in signal_control_fd; "CHECK" is SIG_EVENT_START, too
  revents,      \* sockets the last poll found readable; {"init"} before the loop
  signalled,    \* the process has had a SIGTERM or SIGINT
  indications   \* indications sent so far (bounds the model)

callVars == <<seq, TransactionId, pc, call, answer>>
slotVars == <<s_pRequest, s_pResponse, live>>
threadVars == <<tpc, pending, wait_for_request_quit>>
controlVars == <<controlOpen, control, signals, revents, signalled>>
vars == <<callVars, slotVars, inflight, cdc_wdm_fd, controlVars, events,
          threadVars, indications>>

MainStates == {"idle", "lock", "send", "write", "wait", "signalled", "expired", "join", "sleep",
               "dead"}
ThreadStates == {"poll", "event", "quit", "closed", "release", "exited"}

(***************************************************************************)
(* s_commandmutex: the main thread holds it from the registration of its   *)
(* request until it waits; the reader thread holds it in QmiThreadRecvQMI, *)
(* which is one step here unless it has to write an event.                 *)
(***************************************************************************)
MutexFree == pc \notin {"send", "write"} /\ tpc # "event"

(* GetQMUXTransactionId and GetQCTLTransactionId: 1, 2, ..., MaxTid, 1, ... *)
NextTid(k) == IF TransactionId[k] + 1 > MaxTid[k] THEN 1 ELSE TransactionId[k] + 1

(* Mutant: the transaction id is not compared. *)
is_responseAnyTid(req, rsp) == req.client = rsp.client

(* The C test of an answer against the registered request. *)
is_response(req, rsp) == req.client = rsp.client /\ req.tid = rsp.tid

Init ==
  /\ seq = [k \in Counters |-> 0]
  /\ TransactionId = [k \in Counters |-> 0]
  /\ pc = "idle"
  /\ call = NULL
  /\ answer = NULL
  /\ s_pRequest = NULL
  /\ s_pResponse = NULL
  /\ live = {}
  /\ inflight = {}
  /\ cdc_wdm_fd = TRUE
  /\ controlOpen = TRUE
  /\ control = <<>>
  /\ events = <<>>
  /\ tpc = "poll"
  /\ pending = NULL
  /\ wait_for_request_quit = FALSE
  /\ signals = <<>>
  /\ revents = {"init"}
  /\ signalled = FALSE
  /\ indications = 0

-----------------------------------------------------------------------------
(* The main thread: one call of QmiThreadSendQMITimeout.                    *)

(* Compose a request and ask for the mutex. *)
SendLock ==
  /\ pc = "idle"
  /\ \E c \in Clients : seq[Counter(c)] < MaxSend[Counter(c)]
  /\ pc' = "lock"
  /\ UNCHANGED <<seq, TransactionId, call, answer, slotVars, inflight,
                 cdc_wdm_fd, controlVars, events, threadVars, indications>>

(* With the mutex, register the request, which is one for client c. *)
SendBegin(c) ==
  LET k == Counter(c)
      req == [client |-> c, tid |-> NextTid(k), n |-> seq[k] + 1]
  IN  /\ pc = "lock"
      /\ MutexFree
      /\ seq[k] < MaxSend[k]
      /\ seq' = [seq EXCEPT ![k] = @ + 1]
      /\ TransactionId' = [TransactionId EXCEPT ![k] = NextTid(k)]
      /\ call' = req
      /\ answer' = NULL
      /\ s_pRequest' = req
      /\ s_pResponse' = NULL
      /\ live' = live \cup {req}
      /\ pc' = "send"
      \* the modem: what it has not answered for Lag requests it never will
      /\ inflight' = {r \in inflight : Counter(r.client) = k => seq[k] + 1 - r.n <= Lag}
      /\ UNCHANGED <<cdc_wdm_fd, controlVars, events, threadVars, indications>>

(* QmiWwanSendQMI finds the device open and polls it for room. *)
SendPoll ==
  /\ pc = "send"
  /\ cdc_wdm_fd
  /\ pc' = "write"
  /\ UNCHANGED <<seq, TransactionId, call, answer, slotVars, inflight,
                 cdc_wdm_fd, controlVars, events, threadVars, indications>>

(* The request is written, and the caller waits. *)
SendWritten ==
  /\ pc = "write"
  /\ cdc_wdm_fd
  /\ inflight' = inflight \cup {call}
  /\ pc' = "wait"
  /\ UNCHANGED <<seq, TransactionId, call, answer, slotVars, cdc_wdm_fd,
                 controlVars, events, threadVars, indications>>

(* poll found no room for 5 s: QmiWwanSendQMI returns poll's 0, which its   *)
(* caller takes for success, and the caller waits for an answer to a        *)
(* request that was never written.                                          *)
SendNoRoom ==
  /\ pc = "write"
  /\ pc' = "wait"
  /\ UNCHANGED <<seq, TransactionId, call, answer, slotVars, inflight,
                 cdc_wdm_fd, controlVars, events, threadVars, indications>>

(* The device is closed or the write failed: the call returns an error and  *)
(* leaves s_pRequest registered.                                            *)
SendFailed ==
  /\ pc \in {"send", "write"}
  /\ pc = "send" => ~cdc_wdm_fd
  /\ pc' = "idle"
  /\ UNCHANGED <<seq, TransactionId, call, answer, slotVars, inflight,
                 cdc_wdm_fd, controlVars, events, threadVars, indications>>

(* pthread_cond_timedwait gives up; the thread still has to get the mutex. *)
CondTimeout ==
  /\ pc = "wait"
  /\ pc' = "expired"
  /\ UNCHANGED <<seq, TransactionId, call, answer, slotVars, inflight,
                 cdc_wdm_fd, controlVars, events, threadVars, indications>>

(* POSIX lets pthread_cond_timedwait return without a signal. *)
CondSpurious ==
  /\ pc = "wait"
  /\ pc' = "signalled"
  /\ UNCHANGED <<seq, TransactionId, call, answer, slotVars, inflight,
                 cdc_wdm_fd, controlVars, events, threadVars, indications>>

(* The wait returned 0: hand s_pResponse to the caller, or free it when the *)
(* caller passed no ppResponse (wantsAnswer is FALSE).                      *)
SendReturn(wantsAnswer) ==
  /\ pc = "signalled"
  /\ MutexFree
  /\ pc' = "idle"
  /\ answer' = IF wantsAnswer THEN s_pResponse ELSE NULL
  /\ s_pResponse' = IF wantsAnswer THEN s_pResponse ELSE NULL
  /\ UNCHANGED <<seq, TransactionId, call, s_pRequest, live, inflight,
                 cdc_wdm_fd, controlVars, events, threadVars, indications>>

(* Mutant: a wait that timed out is started again. *)
SendTimedOutRetries ==
  /\ pc = "expired"
  /\ MutexFree
  /\ pc' = "wait"
  /\ UNCHANGED <<seq, TransactionId, call, answer, slotVars, inflight,
                 cdc_wdm_fd, controlVars, events, threadVars, indications>>

(* The wait returned ETIMEDOUT: neither slot is touched. *)
SendTimedOut ==
  /\ pc = "expired"
  /\ MutexFree
  /\ pc' = "idle"
  /\ UNCHANGED <<seq, TransactionId, call, answer, slotVars, inflight,
                 cdc_wdm_fd, controlVars, events, threadVars, indications>>

-----------------------------------------------------------------------------
(* The main thread between calls.                                           *)

(* Mutant: the handler forwards SIGALRM's event to the reader thread too. *)
ql_sigactionForwards(signo) ==
  /\ pc # "dead"
  /\ signo = "SIGTERM" /\ ~signalled
  /\ signalled' = TRUE
  /\ signals' = Append(signals, "STOP")
  /\ control' = Append(control, "START")
  /\ UNCHANGED <<callVars, slotVars, inflight, cdc_wdm_fd, controlOpen, revents, events,
                 threadVars, indications>>

(* The signal handler.  SIGALRM is a SIG_EVENT_START for the main loop;     *)
(* SIGTERM and SIGINT are a SIG_EVENT_STOP for it and for the reader        *)
(* thread.  The writes fail while the socket pairs are closed for a modem   *)
(* reset.                                                                   *)
ql_sigaction(signo) ==
  /\ pc # "dead"
  /\ \/ /\ signo = "SIGALRM" /\ controlOpen /\ Len(signals) < MaxAlarm
        /\ signals' = Append(signals, "CHECK")
        /\ UNCHANGED <<control, signalled>>
     \/ /\ signo = "SIGTERM" /\ ~signalled
        /\ signalled' = TRUE
        /\ IF controlOpen THEN /\ signals' = Append(signals, "STOP")
                               /\ control' = Append(control, "STOP")
                          ELSE UNCHANGED <<signals, control>>
  /\ UNCHANGED <<callVars, slotVars, inflight, cdc_wdm_fd, controlOpen, revents, events,
                 threadVars, indications>>

(* The calls that set the modem up are made: the first check is due, and    *)
(* the loop is entered.                                                     *)
MainLoop ==
  /\ pc = "idle" /\ revents = {"init"}
  /\ revents' = {}
  /\ signals' = Append(signals, "CHECK")
  /\ UNCHANGED <<callVars, slotVars, inflight, cdc_wdm_fd, controlOpen, control,
                 signalled, events, threadVars, indications>>

(* The process ends by a return of qmi_main, and the reader thread with it. *)
Exit ==
  /\ pc' = "dead"
  /\ tpc' = "exited" /\ pending' = NULL
  /\ cdc_wdm_fd' = FALSE
  /\ UNCHANGED <<seq, TransactionId, call, answer, slotVars, inflight, controlVars,
                 events, wait_for_request_quit, indications>>

(* The reader thread does not report the device, or qmi_ops->init fails.    *)
MainInitFails == pc = "idle" /\ revents = {"init"} /\ Exit

Readable == {f \in {"signal", "event"} : (IF f = "signal" THEN signals ELSE events) # <<>>}

(* poll: what is readable now is handled in the order of pollfds.           *)
MainPoll ==
  /\ pc = "idle" /\ revents = {}
  /\ Readable # {}
  /\ revents' = Readable
  /\ UNCHANGED <<callVars, slotVars, inflight, cdc_wdm_fd, controlOpen, control, signals,
                 signalled, events, threadVars, indications>>

(* Nothing came for 15 s: a check is due. *)
MainTimeout ==
  /\ pc = "idle" /\ revents = {}
  /\ Readable = {}
  /\ signals' = <<"CHECK">>
  /\ UNCHANGED <<callVars, slotVars, inflight, cdc_wdm_fd, controlOpen, control, revents,
                 signalled, events, threadVars, indications>>

(* SIG_EVENT_START or SIG_EVENT_CHECK: calls, and after a check perhaps a   *)
(* SIG_EVENT_START.                                                         *)
MainSignal ==
  /\ pc = "idle" /\ "signal" \in revents /\ signals # <<>>
  /\ Head(signals) = "CHECK"
  /\ revents' = revents \ {"signal"}
  /\ signals' \in {Tail(signals), Append(Tail(signals), "CHECK")}
  /\ UNCHANGED <<callVars, slotVars, inflight, cdc_wdm_fd, controlOpen, control, signalled,
                 events, threadVars, indications>>

(* SIG_EVENT_STOP: ask the reader thread to quit and join it.  The calls    *)
(* that tear the connection down first are calls like any other.            *)
MainStop ==
  /\ pc = "idle" /\ "signal" \in revents /\ signals # <<>>
  /\ Head(signals) = "STOP"
  /\ signals' = Tail(signals)
  /\ revents' = {}
  /\ control' = Append(control, "QUIT")
  /\ pc' = "join"
  /\ UNCHANGED <<seq, TransactionId, call, answer, slotVars, inflight, cdc_wdm_fd,
                 controlOpen, signalled, events, threadVars, indications>>

(* The event socket is read after the signal socket. *)
EventNext(e) == pc = "idle" /\ revents = {"event"} /\ events # <<>> /\ Head(events) = e

(* An event that needs no more than further calls: a change of the network  *)
(* may ask for a SIG_EVENT_START, a change of the call for a check.         *)
MainEvent ==
  /\ \/ EventNext("NETWORK_STATE") /\ signals' \in {signals, Append(signals, "CHECK")}
     \/ EventNext("DATA_CALL_LIST") /\ signals' = Append(signals, "CHECK")
  /\ events' = Tail(events)
  /\ revents' = {}
  /\ UNCHANGED <<callVars, slotVars, inflight, cdc_wdm_fd, controlOpen, control, signalled,
                 threadVars, indications>>

(* RIL_INDICATE_DEVICE_DISCONNECTED, main_loop being 0: join and leave. *)
MainDisconnected ==
  /\ EventNext("DISCONNECTED")
  /\ events' = Tail(events)
  /\ revents' = {}
  /\ pc' = "join"
  /\ UNCHANGED <<seq, TransactionId, call, answer, slotVars, inflight, cdc_wdm_fd,
                 controlOpen, control, signals, signalled, threadVars, indications>>

(* MODEM_REPORT_RESET_EVENT: close both socket pairs with whatever is in    *)
(* them and sleep 20 s.                                                     *)
MainReset ==
  /\ EventNext("RESET")
  /\ controlOpen' = FALSE
  /\ control' = <<>>
  /\ events' = <<>>
  /\ signals' = <<>>
  /\ revents' = {}
  /\ pc' = "sleep"
  /\ UNCHANGED <<seq, TransactionId, call, answer, slotVars, inflight,
                 cdc_wdm_fd, signalled, threadVars, indications>>

(* __main_loop again: new sockets, a new reader thread, the device opened.  *)
(* Nobody joined the old thread: the 20 s are taken to outlast it.          *)
MainRestart ==
  /\ pc = "sleep"
  /\ tpc = "exited"
  /\ controlOpen' = TRUE
  /\ cdc_wdm_fd' = TRUE
  /\ tpc' = "poll"
  /\ wait_for_request_quit' = FALSE
  /\ revents' = {"init"}
  /\ pc' = "idle"
  /\ UNCHANGED <<seq, TransactionId, call, answer, slotVars, inflight, control,
                 signals, signalled, events, pending, indications>>

(* No socket pair, or no thread, for another turn. *)
MainRestartFails == pc = "sleep" /\ tpc = "exited" /\ Exit

(* pthread_join, then the process ends. *)
MainJoin ==
  /\ pc = "join"
  /\ tpc = "exited"
  /\ pc' = "dead"
  /\ UNCHANGED <<seq, TransactionId, call, answer, slotVars, inflight,
                 cdc_wdm_fd, controlVars, events, threadVars, indications>>

-----------------------------------------------------------------------------
(* The reader thread.                                                       *)

(* pthread_cond_signal: wakes the caller if it waits, and is lost if not. *)
CondSignal == pc' = IF pc = "wait" THEN "signalled" ELSE pc

(* Mutant: the request is freed and stays registered. *)
RecvNullKeepsRequest ==
  IF s_pRequest = NULL
  THEN UNCHANGED <<slotVars, pc>>
  ELSE /\ live' = live \ {s_pRequest}
       /\ UNCHANGED s_pRequest
       /\ s_pResponse' = NULL
       /\ CondSignal

(* Mutant: the waiting caller is not signalled. *)
RecvNullNoSignal ==
  IF s_pRequest = NULL
  THEN UNCHANGED <<slotVars, pc>>
  ELSE /\ live' = live \ {s_pRequest}
       /\ s_pRequest' = NULL
       /\ s_pResponse' = NULL
       /\ UNCHANGED pc

(* Mutant: the caller is handed the request it gave up. *)
RecvNullReturnsRequest ==
  IF s_pRequest = NULL
  THEN UNCHANGED <<slotVars, pc>>
  ELSE /\ live' = live \ {s_pRequest}
       /\ s_pRequest' = NULL
       /\ s_pResponse' = s_pRequest
       /\ CondSignal

(* QmiThreadRecvQMI(NULL): give up the registered request, if any. *)
RecvNull ==
  IF s_pRequest = NULL
  THEN UNCHANGED <<slotVars, pc>>
  ELSE /\ live' = live \ {s_pRequest}
       /\ s_pRequest' = NULL
       /\ s_pResponse' = NULL
       /\ CondSignal

(* QmiThreadRecvQMI with a message that is_response takes for the answer    *)
(* to the registered request; the copy is NULL when malloc fails.           *)
Complete(m) ==
  /\ live' = live \ {s_pRequest}
  /\ s_pRequest' = NULL
  /\ s_pResponse' \in {m, NULL}
  /\ CondSignal

Matches(m) == s_pRequest # NULL /\ is_response(s_pRequest, m)

RecvAnswer(r) ==
  /\ tpc = "poll" /\ cdc_wdm_fd /\ MutexFree
  /\ r \in inflight
  /\ Matches(r)
  /\ inflight' = inflight \ {r}
  /\ Complete(r)
  /\ UNCHANGED <<seq, TransactionId, call, answer, cdc_wdm_fd, controlVars,
                 events, threadVars, indications>>

(* QmiThreadRecvQMI with an answer nobody is registered for: ignored. *)
RecvUnmatched(r) ==
  /\ tpc = "poll" /\ cdc_wdm_fd /\ MutexFree
  /\ r \in inflight
  /\ ~Matches(r)
  /\ inflight' = inflight \ {r}
  /\ UNCHANGED <<callVars, slotVars, cdc_wdm_fd, controlVars, events,
                 threadVars, indications>>

EventOf(i) == CASE i = "REVOKE" -> "RESET"
                [] i = "NAS" -> "NETWORK_STATE"
                [] i = "WDS" -> "DATA_CALL_LIST"

(* A client id is revoked by the control service, the others are heard     *)
(* from the service of a client.                                           *)
Senders(i) == IF i = "REVOKE" THEN {Ctl} ELSE Services

(* QmiThreadRecvQMI with an indication.  It is compared with the registered *)
(* request like every message (its n is 0: it answers nothing).  Else it is *)
(* an event for the main thread, written with the mutex held, or nothing.   *)
RecvIndication(i) ==
  /\ tpc = "poll" /\ cdc_wdm_fd /\ MutexFree
  /\ indications < MaxInd
  /\ indications' = indications + 1
  /\ \E c \in Senders(i), t \in IndTids :
       LET ind == [client |-> c, tid |-> t, n |-> 0]
       IN  IF Matches(ind)
           THEN Complete(ind) /\ UNCHANGED <<tpc, pending>>
           ELSE /\ IF i = "OTHER" THEN UNCHANGED <<tpc, pending>>
                                  ELSE tpc' = "event" /\ pending' = EventOf(i)
                /\ UNCHANGED <<slotVars, pc>>
  /\ UNCHANGED <<seq, TransactionId, call, answer, inflight, cdc_wdm_fd, controlVars,
                 events, wait_for_request_quit>>

(* qmidevice_send_event_to_main: blocks while the socket is full, and does  *)
(* nothing once it is closed.                                               *)
PutEvent(e) ==
  \/ ~controlOpen /\ UNCHANGED events
  \/ controlOpen /\ Len(events) < EventCap /\ events' = Append(events, e)

ThreadEvent ==
  /\ tpc = "event"
  /\ PutEvent(pending)
  /\ tpc' = "poll"
  /\ pending' = NULL
  /\ UNCHANGED <<callVars, slotVars, inflight, cdc_wdm_fd, controlVars,
                 wait_for_request_quit, indications>>

(* Mutant: RIL_REQUEST_QUIT leaves the switch but not the loop. *)
ThreadControlIgnoresQuit ==
  /\ tpc = "poll"
  /\ control # <<>>
  /\ control' = Tail(control)
  /\ wait_for_request_quit' = (wait_for_request_quit \/ Head(control) = "STOP")
  /\ UNCHANGED <<callVars, slotVars, inflight, cdc_wdm_fd, controlOpen, signals,
                 revents, signalled, events, tpc, pending, indications>>

(* One event from the main thread. *)
ThreadControl ==
  /\ tpc = "poll"
  /\ control # <<>>
  /\ control' = Tail(control)
  /\ IF Head(control) = "QUIT" THEN tpc' = "quit" /\ UNCHANGED wait_for_request_quit
                               ELSE wait_for_request_quit' = TRUE /\ UNCHANGED tpc
  /\ UNCHANGED <<callVars, slotVars, inflight, cdc_wdm_fd, controlOpen, signals,
                 revents, signalled, events, pending, indications>>

(* poll timed out after 1 s in which nothing arrived. *)
ThreadTick ==
  /\ tpc = "poll"
  /\ wait_for_request_quit
  /\ control = <<>>
  /\ MutexFree
  /\ RecvNull
  /\ UNCHANGED <<seq, TransactionId, call, answer, inflight, cdc_wdm_fd,
                 controlVars, events, threadVars, indications>>

(* The main thread has closed the socket pair. *)
ThreadControlClosed ==
  /\ tpc = "poll"
  /\ ~controlOpen
  /\ tpc' = "quit"
  /\ UNCHANGED <<callVars, slotVars, inflight, cdc_wdm_fd, controlVars, events,
                 pending, wait_for_request_quit, indications>>

(* POLLHUP from the device: the modem is unplugged or powered off. *)
ThreadHup ==
  /\ tpc = "poll"
  /\ tpc' = "quit"
  /\ UNCHANGED <<callVars, slotVars, inflight, cdc_wdm_fd, controlVars, events,
                 pending, wait_for_request_quit, indications>>

(* Mutant: the device is left open. *)
ThreadCloseKeepsDevice ==
  /\ tpc = "quit"
  /\ tpc' = "closed"
  /\ UNCHANGED <<callVars, slotVars, inflight, cdc_wdm_fd, controlVars, events, pending,
                 wait_for_request_quit, indications>>

(* __QmiWwanThread_quit, in the order of the code: close the device, tell   *)
(* the main thread, release a caller that may be waiting, exit.             *)
ThreadClose ==
  /\ tpc = "quit"
  /\ cdc_wdm_fd' = FALSE
  /\ tpc' = "closed"
  /\ UNCHANGED <<callVars, slotVars, inflight, controlVars, events, pending,
                 wait_for_request_quit, indications>>

ThreadGoodbye ==
  /\ tpc = "closed"
  /\ PutEvent("DISCONNECTED")
  /\ tpc' = "release"
  /\ UNCHANGED <<callVars, slotVars, inflight, cdc_wdm_fd, controlVars, pending,
                 wait_for_request_quit, indications>>

ThreadRelease ==
  /\ tpc = "release"
  /\ MutexFree
  /\ RecvNull
  /\ tpc' = "exited"
  /\ UNCHANGED <<seq, TransactionId, call, answer, inflight, cdc_wdm_fd,
                 controlVars, events, pending, wait_for_request_quit, indications>>

-----------------------------------------------------------------------------
Caller ==
  \/ SendLock
  \/ \E c \in Clients : SendBegin(c)
  \/ SendPoll \/ SendWritten \/ SendNoRoom \/ SendFailed
  \/ CondTimeout \/ CondSpurious
  \/ \E b \in BOOLEAN : SendReturn(b)
  \/ SendTimedOut

Main ==
  \/ \E signo \in {"SIGALRM", "SIGTERM"} : ql_sigaction(signo)
  \/ MainLoop \/ MainInitFails \/ MainPoll \/ MainTimeout \/ MainSignal \/ MainStop
  \/ MainEvent \/ MainDisconnected \/ MainReset \/ MainRestart \/ MainRestartFails
  \/ MainJoin

Reader ==
  \/ \E r \in inflight : RecvAnswer(r) \/ RecvUnmatched(r)
  \/ \E i \in Indications : RecvIndication(i)
  \/ ThreadEvent \/ ThreadControl \/ ThreadTick \/ ThreadControlClosed
  \/ ThreadHup \/ ThreadClose \/ ThreadGoodbye \/ ThreadRelease

(* The process has ended; nothing more happens. *)
Terminated == pc = "dead" /\ UNCHANGED vars

Next == Caller \/ Main \/ Reader \/ Terminated

(* The scheduler runs both threads: a thread that can go on does, and one   *)
(* that asks for the mutex gets it unless it is held for ever.  At every    *)
(* pc and tpc but "poll" one action of the thread is possible at most.      *)
(* Nothing is assumed of the modem, of spurious wake-ups, of signals, or of *)
(* the timeout of a wait.                                                   *)
MainGoesOn ==
  \/ SendPoll \/ SendWritten \/ SendNoRoom \/ SendFailed
  \/ MainLoop \/ MainInitFails \/ MainPoll \/ MainTimeout \/ MainSignal \/ MainStop
  \/ MainEvent \/ MainDisconnected \/ MainReset \/ MainRestart \/ MainRestartFails
  \/ MainJoin
MainLocks == (\E c \in Clients : SendBegin(c)) \/ (\E b \in BOOLEAN : SendReturn(b)) \/ SendTimedOut

SchedulerFairness ==
  /\ WF_vars(MainGoesOn) /\ SF_vars(MainLocks)
  /\ WF_vars(ThreadControl \/ ThreadControlClosed)
  /\ WF_vars(ThreadEvent \/ ThreadClose \/ ThreadGoodbye)
  /\ SF_vars(ThreadTick \/ ThreadRelease)

Spec == Init /\ [][Next]_vars
FairSpec == Spec /\ SchedulerFairness
TimedSpec == FairSpec /\ WF_vars(CondTimeout)

-----------------------------------------------------------------------------
TypeOK ==
  /\ seq \in [Counters -> Nat]
  /\ TransactionId \in [Counters -> Nat]
  /\ pc \in MainStates
  /\ call \in Request \cup {NULL}
  /\ answer \in Request \cup {NULL}
  /\ s_pRequest \in Request \cup {NULL}
  /\ s_pResponse \in Request \cup {NULL}
  /\ live \in SUBSET Request
  /\ inflight \in SUBSET Request
  /\ cdc_wdm_fd \in BOOLEAN
  /\ controlOpen \in BOOLEAN
  /\ control \in Seq({"STOP", "QUIT"})
  /\ events \in Seq(Events)
  /\ tpc \in ThreadStates
  /\ pending \in Events \cup {NULL}
  /\ wait_for_request_quit \in BOOLEAN
  /\ signals \in Seq({"CHECK", "STOP"})
  /\ revents \in SUBSET {"init", "signal", "event"}
  /\ signalled \in BOOLEAN
  /\ indications \in Nat

(* What QmiThreadSendQMI hands its caller is the answer to that caller's    *)
(* own request, although earlier calls have timed out, their answers still  *)
(* arrive, waits end spuriously and transaction ids are used again.         *)
AnswerBelongsToCall == answer # NULL => answer = call

(* QmiThreadRecvQMI frees the registered request; a freed request is never  *)
(* registered (and so compared with an answer or freed again).              *)
RegisteredIsLive == s_pRequest # NULL => s_pRequest \in live

(* When the reader thread has exited no caller is left waiting for it       *)
(* ("main thread may pending on QmiThreadSendQMI()"), although calls keep   *)
(* starting while the thread goes through its quit sequence.                *)
NoOrphanWaiter == tpc = "exited" => pc # "wait"

(* The call of QmiCall: its request is handed over when it is written.      *)
Phase == CASE pc \in {"send", "write"} -> "new"
           [] pc \in {"wait", "signalled", "expired"} -> "sent"
           [] OTHER -> "none"

Rendezvous == INSTANCE QmiCall
  WITH Requests <- Request, None <- NULL,
       phase <- Phase, reply <- s_pResponse, modem <- inflight

(* Two threads, one slot and transaction ids that wrap are as good as a     *)
(* call that knows its request: what QmiThreadSendQMI returns is an answer  *)
(* the modem gave, once, to the request of this call, never a late answer   *)
(* to an earlier one and never the remains of a call that was given up.     *)
ImplementsQmiCall == Rendezvous!Spec

(* The socket to the main thread is full and the reader thread is in the    *)
(* write of qmidevice_send_event_to_main: with the mutex when it holds an   *)
(* indication, and without it in the quit sequence.                         *)
SocketFull == controlOpen /\ Len(events) >= EventCap
HoldsMutex == tpc = "event" /\ SocketFull
ReaderBlocked == tpc \in {"event", "closed"} /\ SocketFull
InCall == pc \in {"lock", "send", "write", "wait", "signalled", "expired"}

(* SIG_EVENT_STOP ends a call in progress without its 30 s timeout ("main   *)
(* may be wating qmi response"), unless the reader thread is blocked for    *)
(* ever by a full socket and cannot.                                        *)
StopReleasesCaller ==
  (pc = "wait" /\ wait_for_request_quit) ~> (pc # "wait" \/ []ReaderBlocked)

(* Every call returns if waits end at their timeout (pthread_cond_timedwait *)
(* reaches abstime).  One thing holds a caller for ever: a socket that      *)
(* fills up while the reader thread writes it with the mutex.               *)
CallReturns ==
  WF_vars(CondTimeout) => (InCall ~> (pc = "idle" \/ []HoldsMutex))

(* pthread_join at the end of qmi_main returns, unless the reader thread is *)
(* in a write to the full socket that nobody reads any more.                *)
ShutdownCompletes == pc = "join" ~> (pc = "dead" \/ []ReaderBlocked)

(* "signal trigger quit event": SIGTERM ends the process. *)
SignalQuits == signalled ~> pc = "dead"
=============================================================================
