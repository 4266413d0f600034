-------------------------- MODULE QmiThreadProofs --------------------------
(***************************************************************************)
(* Proofs about QmiThread for every set of clients, every width of the     *)
(* transaction id counters and every bound.  They rest on the assumptions  *)
(* of QmiThread; the one that carries weight is LagAssumption: the modem   *)
(* answers or drops a request before the counter has gone round.           *)
(***************************************************************************)
EXTENDS QmiThread, TLAPS

(* A request is one the counters can have issued, at most Lag calls ago:    *)
(* its distance in transaction ids is its distance in calls, or that minus  *)
(* one turn of the counter.                                                 *)
InWindow(r) ==
  LET k == Counter(r.client)
      age == seq[k] - r.n
  IN  /\ age \in 0 .. Lag
      /\ r.tid \in 1 .. MaxTid[k]
      /\ \/ TransactionId[k] - r.tid = age
         \/ TransactionId[k] - r.tid = age - MaxTid[k]

(* The last call is the latest of its counter. *)
CallIsLatest ==
  call # NULL => /\ call.n = seq[Counter(call.client)]
                 /\ call.tid = TransactionId[Counter(call.client)]
                 /\ call.tid \in 1 .. MaxTid[Counter(call.client)]

TidInv == /\ \A k \in Counters : TransactionId[k] \in 0 .. MaxTid[k]
          /\ \A r \in inflight : InWindow(r)
          /\ CallIsLatest

(* Only the last call is ever registered, stored or handed over, and        *)
(* nothing is handed over before it returns.                                *)
SlotInv == /\ s_pRequest \in {NULL, call}
           /\ s_pResponse \in {NULL, call}
           /\ answer \in {NULL, call}
           /\ pc \in {"send", "write", "wait"} => s_pRequest # NULL
           /\ pc \in {"send", "write", "wait", "signalled", "expired"} => answer = NULL
           /\ s_pRequest # NULL => s_pRequest \in live

(* Past its close the reader thread leaves the device closed, and it only   *)
(* exits when no caller waits or is about to.                               *)
QuitInv == /\ tpc \in {"closed", "release", "exited"} => ~cdc_wdm_fd
           /\ tpc = "exited" => pc \notin {"write", "wait"}
           /\ tpc = "event" => pending \in Events

IndInv == TypeOK /\ TidInv /\ SlotInv /\ QuitInv

-----------------------------------------------------------------------------
(* A counter belongs to every client. *)
LEMMA CounterType == \A c : Counter(c) \in Counters
  BY DEF Counter, Counters

(* A request that is in the window of the latest call, and that is_response *)
(* takes for the answer to that call, is the request of that call.          *)
LEMMA WindowIsUnambiguous ==
  ASSUME TypeOK, CallIsLatest, call # NULL,
         NEW r \in inflight, InWindow(r), is_response(call, r)
  PROVE  r = call
<1> DEFINE k == Counter(call.client)
<1>1. call \in Request /\ r \in Request
  BY DEF TypeOK
<1>2. k \in Counters /\ Counter(r.client) = k
  BY CounterType DEF is_response
<1>3. r.client = call.client /\ r.tid = call.tid
  BY DEF is_response
<1>4. MaxTid[k] \in Nat \ {0} /\ Lag \in Nat /\ Lag < MaxTid[k]
  BY <1>2, TidAssumption, LagAssumption
<1>5. seq[k] \in Nat /\ TransactionId[k] \in Nat
  BY <1>2 DEF TypeOK
<1>6. call.n = seq[k] /\ call.tid = TransactionId[k]
  BY DEF CallIsLatest
<1>7. seq[k] - r.n \in 0 .. Lag
  BY <1>2 DEF InWindow
<1>8. \/ TransactionId[k] - r.tid = seq[k] - r.n
      \/ TransactionId[k] - r.tid = seq[k] - r.n - MaxTid[k]
  BY <1>2 DEF InWindow
<1>9. r.n \in Nat /\ r.tid \in Nat
  BY <1>1 DEF Request
<1>10. r.n = call.n
  BY <1>3, <1>4, <1>5, <1>6, <1>7, <1>8, <1>9
<1> QED
  BY <1>1, <1>3, <1>10 DEF Request

(* The modem's indications carry ids no request has: is_response never      *)
(* takes one for an answer, and all it leaves is an event.                  *)
LEMMA IndicationIsNoAnswer ==
  ASSUME TypeOK, TidInv, SlotInv, NEW i \in Indications, RecvIndication(i)
  PROVE  /\ UNCHANGED <<callVars, slotVars, inflight, cdc_wdm_fd, controlVars, events>>
         /\ UNCHANGED wait_for_request_quit
         /\ indications' = indications + 1
         /\ \/ UNCHANGED <<tpc, pending>>
            \/ tpc' = "event" /\ pending' = EventOf(i) /\ i # "OTHER"
<1>1. PICK c \in Senders(i), t \in IndTids :
        LET ind == [client |-> c, tid |-> t, n |-> 0]
        IN  IF Matches(ind)
            THEN Complete(ind) /\ UNCHANGED <<tpc, pending>>
            ELSE /\ IF i = "OTHER" THEN UNCHANGED <<tpc, pending>>
                                   ELSE tpc' = "event" /\ pending' = EventOf(i)
                 /\ UNCHANGED <<slotVars, pc>>
  BY DEF RecvIndication
<1>2. ~Matches([client |-> c, tid |-> t, n |-> 0])
  <2> SUFFICES ASSUME s_pRequest # NULL PROVE s_pRequest.tid # t
    BY DEF Matches, is_response
  <2> DEFINE k == Counter(call.client)
  <2>1. s_pRequest = call /\ k \in Counters /\ call.tid \in 1 .. MaxTid[k]
    BY CounterType DEF SlotInv, TidInv, CallIsLatest
  <2> QED
    BY <2>1, IndAssumption
<1>3. UNCHANGED <<slotVars, pc>>
  BY <1>1, <1>2
<1>4. \/ UNCHANGED <<tpc, pending>>
      \/ tpc' = "event" /\ pending' = EventOf(i) /\ i # "OTHER"
  BY <1>1, <1>2
<1> QED
  BY <1>3, <1>4 DEF RecvIndication, callVars

-----------------------------------------------------------------------------
(* Type correctness. *)
LEMMA TypeInit == Init => TypeOK
<1> SUFFICES ASSUME Init PROVE TypeOK
  OBVIOUS
<1> USE DEF Init
<1>1. seq \in [Counters -> Nat] /\ TransactionId \in [Counters -> Nat] /\ indications \in Nat
  OBVIOUS
<1>2. cdc_wdm_fd \in BOOLEAN /\ controlOpen \in BOOLEAN 
      /\ signalled \in BOOLEAN /\ wait_for_request_quit \in BOOLEAN
  BY Zenon
<1>3. control \in Seq({"STOP", "QUIT"}) /\ events \in Seq(Events) /\ signals \in Seq({"CHECK", "STOP"})
  OBVIOUS
<1>4. revents \in SUBSET {"init", "signal", "event"}
  OBVIOUS
<1> QED
  BY <1>1, <1>2, <1>3, <1>4 DEF TypeOK, MainStates, ThreadStates

(* Every step keeps the types.                                              *)
LEMMA TypeStep == TypeOK /\ TidInv /\ SlotInv /\ QuitInv /\ [Next]_vars => TypeOK'
<1> SUFFICES ASSUME TypeOK, TidInv, SlotInv, QuitInv, [Next]_vars PROVE TypeOK'
  OBVIOUS
<1> USE DEF TypeOK, MainStates, ThreadStates, Events, callVars, slotVars, threadVars, controlVars
<1>1. ASSUME NEW c \in Clients, SendBegin(c) PROVE TypeOK'
  <2>1. Counter(c) \in Counters
    BY CounterType
  <2>2. MaxTid[Counter(c)] \in Nat /\ NextTid(Counter(c)) \in Nat
    BY <2>1, TidAssumption DEF NextTid
  <2> QED
    BY <1>1, <2>1, <2>2 DEF SendBegin, Request
<1>0. CASE SendLock
  BY <1>0 DEF SendLock
<1>2. CASE SendPoll
  BY <1>2 DEF SendPoll
<1>3. CASE SendWritten
  BY <1>3 DEF SendWritten, SlotInv
<1>4. CASE SendNoRoom
  BY <1>4 DEF SendNoRoom
<1>5. CASE SendFailed
  BY <1>5 DEF SendFailed
<1>6. CASE CondTimeout
  BY <1>6 DEF CondTimeout
<1>7. CASE CondSpurious
  BY <1>7 DEF CondSpurious
<1>8. CASE SendTimedOut
  BY <1>8 DEF SendTimedOut
<1>9. ASSUME NEW b \in BOOLEAN, SendReturn(b) PROVE TypeOK'
  BY <1>9 DEF SendReturn
<1>10. ASSUME NEW signo, ql_sigaction(signo) PROVE TypeOK'
  <2>1. signalled' \in BOOLEAN
    BY Zenon, <1>10 DEF ql_sigaction
  <2>a. Append(control, "STOP") \in Seq({"STOP", "QUIT"})
    OBVIOUS
  <2>b. Append(signals, "STOP") \in Seq({"CHECK", "STOP"}) /\ Append(signals, "CHECK") \in Seq({"CHECK", "STOP"})
    OBVIOUS
  <2>2. control' \in Seq({"STOP", "QUIT"})
    BY <2>a, Zenon, <1>10 DEF ql_sigaction
  <2>3. signals' \in Seq({"CHECK", "STOP"})
    BY <2>b, Zenon, <1>10 DEF ql_sigaction
  <2> QED
    BY <2>1, <2>2, <2>3, <1>10 DEF ql_sigaction
<1>11. CASE MainStop
  <2>1. control' \in Seq({"STOP", "QUIT"})
    BY <1>11 DEF MainStop
  <2>3. signals' \in Seq({"CHECK", "STOP"}) /\ revents' \in SUBSET {"init", "signal", "event"}
    BY <1>11 DEF MainStop
  <2> QED
    BY <2>1, <2>3, <1>11 DEF MainStop
<1>12. CASE MainEvent
  <2>a. Append(signals, "CHECK") \in Seq({"CHECK", "STOP"})
    OBVIOUS
  <2>1. signals' \in Seq({"CHECK", "STOP"})
    BY <2>a, Zenon, <1>12 DEF MainEvent
  <2>2. events' \in Seq(Events) /\ revents' \in SUBSET {"init", "signal", "event"}
    BY <1>12 DEF MainEvent, EventNext
  <2> QED
    BY <2>1, <2>2, <1>12 DEF MainEvent
<1>13. CASE MainDisconnected
  BY <1>13 DEF MainDisconnected, EventNext
<1>14. CASE MainReset
  <2>1. controlOpen' \in BOOLEAN
    BY Zenon, <1>14 DEF MainReset
  <2>2. /\ control' \in Seq({"STOP", "QUIT"}) /\ events' \in Seq(Events)
        /\ signals' \in Seq({"CHECK", "STOP"}) /\ revents' \in SUBSET {"init", "signal", "event"}
    BY <1>14 DEF MainReset
  <2> QED
    BY <2>1, <2>2, <1>14 DEF MainReset
<1>29. CASE MainLoop \/ MainTimeout
  <2>a. Append(signals, "CHECK") \in Seq({"CHECK", "STOP"}) /\ <<"CHECK">> \in Seq({"CHECK", "STOP"})
    OBVIOUS
  <2>1. signals' \in Seq({"CHECK", "STOP"})
    BY <2>a, Zenon, <1>29 DEF MainLoop, MainTimeout
  <2>2. revents' \in SUBSET {"init", "signal", "event"}
    BY <1>29 DEF MainLoop, MainTimeout
  <2> QED
    BY <1>29, <2>1, <2>2 DEF MainLoop, MainTimeout
<1>30. CASE MainInitFails \/ MainRestartFails
  <2>1. Exit
    BY <1>30 DEF MainInitFails, MainRestartFails
  <2>2. cdc_wdm_fd' \in BOOLEAN
    BY Zenon, <2>1 DEF Exit
  <2> QED
    BY <2>1, <2>2 DEF Exit
<1>31. CASE MainPoll
  <2>1. revents' \in SUBSET {"init", "signal", "event"}
    BY <1>31 DEF MainPoll, Readable
  <2> QED
    BY <1>31, <2>1 DEF MainPoll
<1>32. CASE MainSignal
  <2>1. revents' \in SUBSET {"init", "signal", "event"}
    BY <1>32 DEF MainSignal
  <2>a. Tail(signals) \in Seq({"CHECK", "STOP"})
    BY <1>32 DEF MainSignal
  <2>b. Append(Tail(signals), "CHECK") \in Seq({"CHECK", "STOP"})
    BY <2>a
  <2>2. signals' \in Seq({"CHECK", "STOP"})
    BY <2>a, <2>b, Zenon, <1>32 DEF MainSignal
  <2> QED
    BY <1>32, <2>1, <2>2 DEF MainSignal
<1>15. CASE MainRestart
  BY <1>15 DEF MainRestart
<1>16. CASE MainJoin
  BY <1>16 DEF MainJoin
<1>17. ASSUME NEW r \in inflight, RecvAnswer(r) PROVE TypeOK'
  BY <1>17 DEF RecvAnswer, Complete, CondSignal
<1>18. ASSUME NEW r \in inflight, RecvUnmatched(r) PROVE TypeOK'
  BY <1>18 DEF RecvUnmatched
<1>19. ASSUME NEW i \in Indications, RecvIndication(i) PROVE TypeOK'
  BY <1>19, IndicationIsNoAnswer DEF EventOf, Indications
<1>20. CASE ThreadEvent
  <2>a. pending \in Events
    BY <1>20 DEF ThreadEvent, QuitInv
  <2>b. Append(events, pending) \in Seq(Events)
    BY <2>a
  <2>1. events' \in Seq(Events)
    BY <2>b, Zenon, <1>20 DEF ThreadEvent, PutEvent
  <2> QED
    BY <2>1, <1>20 DEF ThreadEvent, PutEvent
<1>21. CASE ThreadControl
  <2>1. wait_for_request_quit' \in BOOLEAN
    BY Zenon, <1>21 DEF ThreadControl
  <2>2. control' \in Seq({"STOP", "QUIT"})
    BY <1>21 DEF ThreadControl
  <2> QED
    BY <2>1, <2>2, <1>21 DEF ThreadControl
<1>22. CASE ThreadTick
  BY <1>22 DEF ThreadTick, RecvNull, CondSignal
<1>23. CASE ThreadControlClosed
  BY <1>23 DEF ThreadControlClosed
<1>24. CASE ThreadHup
  BY <1>24 DEF ThreadHup
<1>25. CASE ThreadClose
  <2>1. cdc_wdm_fd' \in BOOLEAN
    BY Zenon, <1>25 DEF ThreadClose
  <2> QED
    BY <2>1, <1>25 DEF ThreadClose
<1>26. CASE ThreadGoodbye
  <2>a. Append(events, "DISCONNECTED") \in Seq(Events)
    OBVIOUS
  <2>1. events' \in Seq(Events)
    BY <2>a, Zenon, <1>26 DEF ThreadGoodbye, PutEvent
  <2> QED
    BY <2>1, <1>26 DEF ThreadGoodbye, PutEvent
<1>27. CASE ThreadRelease
  BY <1>27 DEF ThreadRelease, RecvNull, CondSignal
<1>28. CASE UNCHANGED vars
  BY <1>28 DEF vars
<1> QED
  BY <1>0, <1>1, <1>2, <1>3, <1>4, <1>5, <1>6, <1>7, <1>8, <1>9, <1>10, <1>11, <1>12, <1>13,
     <1>14, <1>15, <1>16, <1>17, <1>18, <1>19, <1>20, <1>21, <1>22, <1>23, <1>24, <1>25, <1>26,
     <1>27, <1>28, <1>29, <1>30, <1>31, <1>32
  DEF Next, Caller, Main, Reader, Terminated

-----------------------------------------------------------------------------
(* The transaction ids.  Only four actions touch them. *)
LEMMA TidFrame ==
  ASSUME TypeOK, TidInv, SlotInv, [Next]_vars
  PROVE  \/ \E c \in Clients : SendBegin(c)
         \/ SendWritten
         \/ \E r \in inflight : RecvAnswer(r) \/ RecvUnmatched(r)
         \/ UNCHANGED <<seq, TransactionId, inflight, call>>
<1> USE DEF callVars
<1>1. CASE Caller
  BY <1>1 DEF Caller, SendLock, SendPoll, SendNoRoom, SendFailed, CondTimeout, CondSpurious,
              SendReturn, SendTimedOut
<1>2. CASE Main
  BY <1>2 DEF Main, ql_sigaction, MainLoop, MainInitFails, MainPoll, MainTimeout, MainSignal,
              MainStop, MainEvent, MainDisconnected, MainReset, MainRestart, MainRestartFails,
              Exit, MainJoin
<1>3. CASE Reader
  BY <1>3, IndicationIsNoAnswer DEF Reader, ThreadEvent, ThreadControl, ThreadTick,
              ThreadControlClosed, ThreadHup, ThreadClose, ThreadGoodbye, ThreadRelease
<1> QED
  BY <1>1, <1>2, <1>3 DEF Next, Terminated, vars

(* Every step keeps the requests at the modem in the window.                *)
LEMMA TidStep == TypeOK /\ TidInv /\ SlotInv /\ [Next]_vars => TidInv'
<1> SUFFICES ASSUME TypeOK, TidInv, SlotInv, [Next]_vars PROVE TidInv'
  OBVIOUS
<1>1. ASSUME NEW c \in Clients, SendBegin(c) PROVE TidInv'
  <2> DEFINE k == Counter(c)
  <2>1. k \in Counters /\ MaxTid[k] \in Nat \ {0} /\ Lag \in Nat /\ Lag < MaxTid[k]
    BY CounterType, TidAssumption, LagAssumption
  <2>2. seq[k] \in Nat /\ TransactionId[k] \in 0 .. MaxTid[k]
    BY <2>1 DEF TypeOK, TidInv
  <2>3. seq'[k] = seq[k] + 1 /\ TransactionId'[k] = NextTid(k)
    BY <1>1, <2>1 DEF SendBegin, TypeOK
  <2>4. \A j \in Counters \ {k} : seq'[j] = seq[j] /\ TransactionId'[j] = TransactionId[j]
    BY <1>1, <2>1 DEF SendBegin, TypeOK
  <2>5. NextTid(k) \in 1 .. MaxTid[k]
    BY <2>1, <2>2 DEF NextTid
  <2>6. \A j \in Counters : TransactionId'[j] \in 0 .. MaxTid[j]
    BY <2>1, <2>3, <2>4, <2>5 DEF TidInv
  <2>7. CallIsLatest'
    BY <1>1, <2>1, <2>3, <2>5 DEF SendBegin, CallIsLatest
  <2>8. ASSUME NEW r \in inflight' PROVE InWindow(r)'
    <3> DEFINE j == Counter(r.client)
    <3>1. r \in inflight /\ (j = k => seq[k] + 1 - r.n <= Lag)
      BY <1>1, <2>8 DEF SendBegin
    <3>2. InWindow(r) /\ j \in Counters /\ r.n \in Nat /\ r.tid \in Nat
      BY <3>1, CounterType DEF TidInv, TypeOK, Request
    <3>3. CASE j # k
      BY <3>2, <3>3, <2>4 DEF InWindow
    <3>4. CASE j = k
      <4>1. /\ seq[k] - r.n \in 0 .. Lag
            /\ r.tid \in 1 .. MaxTid[k]
            /\ \/ TransactionId[k] - r.tid = seq[k] - r.n
               \/ TransactionId[k] - r.tid = seq[k] - r.n - MaxTid[k]
        BY <3>2, <3>4 DEF InWindow
      <4>2. seq'[k] - r.n \in 0 .. Lag
        BY <4>1, <3>1, <3>2, <3>4, <2>1, <2>2, <2>3
      <4>3. \/ TransactionId'[k] - r.tid = seq'[k] - r.n
            \/ TransactionId'[k] - r.tid = seq'[k] - r.n - MaxTid[k]
        BY <4>1, <3>2, <2>1, <2>2, <2>3 DEF NextTid
      <4> QED
        BY <4>1, <4>2, <4>3, <3>4 DEF InWindow
    <3> QED
      BY <3>3, <3>4
  <2> QED
    BY <2>6, <2>7, <2>8 DEF TidInv
<1>2. CASE SendWritten
  <2>1. call # NULL /\ call \in Request
    BY <1>2 DEF SendWritten, SlotInv, TypeOK
  <2>2. InWindow(call)
    <3> DEFINE k == Counter(call.client)
    <3>1. k \in Counters /\ Lag \in Nat
      BY CounterType, LagAssumption
    <3>2. seq[k] \in Nat /\ TransactionId[k] \in Nat
      BY <3>1 DEF TypeOK
    <3>3. call.n = seq[k] /\ call.tid = TransactionId[k] /\ call.tid \in 1 .. MaxTid[k]
      BY <2>1 DEF TidInv, CallIsLatest
    <3> QED
      BY <3>1, <3>2, <3>3 DEF InWindow
  <2>3. UNCHANGED <<seq, TransactionId, call>> /\ inflight' = inflight \cup {call}
    BY <1>2 DEF SendWritten
  <2> QED
    BY <2>2, <2>3 DEF TidInv, CallIsLatest, InWindow
<1>3. ASSUME NEW r \in inflight, RecvAnswer(r) \/ RecvUnmatched(r) PROVE TidInv'
  <2>1. UNCHANGED <<seq, TransactionId, call>> /\ inflight' = inflight \ {r}
    BY <1>3 DEF RecvAnswer, RecvUnmatched, callVars
  <2> QED
    BY <2>1 DEF TidInv, CallIsLatest, InWindow
<1>4. CASE UNCHANGED <<seq, TransactionId, inflight, call>>
  BY <1>4 DEF TidInv, CallIsLatest, InWindow
<1> QED
  BY <1>1, <1>2, <1>3, <1>4, TidFrame

-----------------------------------------------------------------------------
(* The two slots and the quit sequence. *)

(* QmiThreadRecvQMI(NULL) leaves no registered request and no waiter. *)
LEMMA RecvNullReleases ==
  ASSUME TypeOK, SlotInv, MutexFree, RecvNull, UNCHANGED <<call, answer>>
  PROVE  SlotInv' /\ pc' # "wait" /\ (pc' = pc \/ pc' = "signalled")
<1>1. CASE s_pRequest = NULL
  BY <1>1 DEF RecvNull, SlotInv, slotVars
<1>2. CASE s_pRequest # NULL
  BY <1>2 DEF RecvNull, CondSignal, SlotInv, MutexFree
<1> QED
  BY <1>1, <1>2

(* Every step keeps only the last call registered or stored.                *)
LEMMA SlotStep == IndInv /\ [Next]_vars => SlotInv'
<1> SUFFICES ASSUME IndInv, [Next]_vars PROVE SlotInv'
  OBVIOUS
<1> USE DEF SlotInv, callVars, slotVars
<1> TypeOK /\ TidInv /\ SlotInv /\ QuitInv
  BY DEF IndInv
<1>1. ASSUME NEW c \in Clients, SendBegin(c) PROVE SlotInv'
  <2>1. Counter(c) \in Counters
    BY CounterType
  <2>2. NextTid(Counter(c)) \in Nat /\ seq[Counter(c)] + 1 \in Nat
    BY <2>1, TidAssumption DEF NextTid, TypeOK
  <2>3. call' \in Request
    BY <1>1, <2>2 DEF SendBegin, Request
  <2>4. /\ s_pRequest' = call' /\ s_pResponse' = NULL /\ answer' = NULL
        /\ live' = live \cup {call'}
    BY <1>1 DEF SendBegin
  <2> QED
    BY <2>3, <2>4, NullAssumption
<1>0. CASE SendLock
  BY <1>0 DEF SendLock
<1>2. CASE SendPoll
  BY <1>2 DEF SendPoll
<1>3. CASE SendWritten
  BY <1>3 DEF SendWritten
<1>4. CASE SendNoRoom
  BY <1>4 DEF SendNoRoom
<1>5. CASE SendFailed
  BY <1>5 DEF SendFailed
<1>6. CASE CondTimeout
  BY <1>6 DEF CondTimeout
<1>7. CASE CondSpurious
  BY <1>7 DEF CondSpurious
<1>8. CASE SendTimedOut
  BY <1>8 DEF SendTimedOut
<1>9. ASSUME NEW b \in BOOLEAN, SendReturn(b) PROVE SlotInv'
  BY <1>9 DEF SendReturn
<1>10. CASE Main
  <2>1. UNCHANGED <<call, answer, slotVars>> /\ (pc' = pc \/ pc' \in {"idle", "join", "sleep", "dead"})
    BY <1>10 DEF Main, ql_sigaction, MainLoop, MainInitFails, MainPoll, MainTimeout, MainSignal,
                 MainStop, MainEvent, MainDisconnected, MainReset, MainRestart,
                 MainRestartFails, Exit, MainJoin
  <2> QED
    BY <2>1
<1>11. ASSUME NEW r \in inflight, RecvAnswer(r) PROVE SlotInv'
  <2>1. s_pRequest # NULL /\ s_pRequest = call /\ call # NULL
    BY <1>11 DEF RecvAnswer, Matches
  <2>2. r = call
    BY <1>11, <2>1, WindowIsUnambiguous DEF RecvAnswer, Matches, TidInv
  <2>3. pc' \notin {"send", "write", "wait"}
    BY <1>11 DEF RecvAnswer, Complete, CondSignal, MutexFree
  <2>4. pc' \in {"signalled", "expired"} => answer' = NULL
    BY <1>11 DEF RecvAnswer, Complete, CondSignal
  <2> QED
    BY <1>11, <2>2, <2>3, <2>4 DEF RecvAnswer, Complete
<1>12. ASSUME NEW r \in inflight, RecvUnmatched(r) PROVE SlotInv'
  BY <1>12 DEF RecvUnmatched
<1>13. ASSUME NEW i \in Indications, RecvIndication(i) PROVE SlotInv'
  BY <1>13, IndicationIsNoAnswer
<1>14. CASE ThreadTick \/ ThreadRelease
  <2>1. MutexFree /\ RecvNull /\ UNCHANGED <<call, answer>>
    BY <1>14 DEF ThreadTick, ThreadRelease
  <2> QED
    BY <2>1, RecvNullReleases
<1>15. CASE \/ ThreadEvent \/ ThreadControl \/ ThreadControlClosed
            \/ ThreadHup \/ ThreadClose \/ ThreadGoodbye
  BY <1>15
  DEF ThreadEvent, ThreadControl, ThreadControlClosed, ThreadHup, ThreadClose, ThreadGoodbye
<1>16. CASE UNCHANGED vars
  BY <1>16 DEF vars
<1> QED
  BY <1>0, <1>1, <1>2, <1>3, <1>4, <1>5, <1>6, <1>7, <1>8, <1>9, <1>10, <1>11, <1>12, <1>13,
     <1>14, <1>15, <1>16
  DEF Next, Caller, Reader, Terminated

(* Every step keeps the quit sequence and the handle in step.               *)
LEMMA QuitStep == IndInv /\ [Next]_vars => QuitInv'
<1> SUFFICES ASSUME IndInv, [Next]_vars PROVE QuitInv'
  OBVIOUS
<1> USE DEF QuitInv, callVars, threadVars
<1> TypeOK /\ TidInv /\ SlotInv /\ QuitInv
  BY DEF IndInv
<1>1. CASE Caller
  <2>1. UNCHANGED <<tpc, pending, cdc_wdm_fd>>
    BY <1>1 DEF Caller, SendLock, SendBegin, SendPoll, SendWritten, SendNoRoom, SendFailed,
                CondTimeout, CondSpurious, SendReturn, SendTimedOut
  <2>2. pc' = "write" => cdc_wdm_fd
    BY <1>1 DEF Caller, SendLock, SendBegin, SendPoll, SendWritten, SendNoRoom, SendFailed,
                CondTimeout, CondSpurious, SendReturn, SendTimedOut
  <2>3. pc' = "wait" => pc = "write"
    BY <1>1 DEF Caller, SendLock, SendBegin, SendPoll, SendWritten, SendNoRoom, SendFailed,
                CondTimeout, CondSpurious, SendReturn, SendTimedOut
  <2> QED
    BY <2>1, <2>2, <2>3
<1>2. CASE MainRestart
  BY <1>2 DEF MainRestart
<1>11. CASE MainInitFails \/ MainRestartFails
  BY <1>11 DEF MainInitFails, MainRestartFails, Exit
<1>3. CASE \/ \E signo \in {"SIGALRM", "SIGTERM"} : ql_sigaction(signo)
           \/ MainLoop \/ MainPoll \/ MainTimeout \/ MainSignal \/ MainStop \/ MainEvent
           \/ MainDisconnected \/ MainReset \/ MainJoin
  <2>1. UNCHANGED <<tpc, pending, cdc_wdm_fd>> /\ (pc' = pc \/ pc' \in {"join", "sleep", "dead"})
    BY <1>3 DEF ql_sigaction, MainLoop, MainPoll, MainTimeout, MainSignal, MainStop, MainEvent,
                MainDisconnected, MainReset, MainJoin
  <2> QED
    BY <2>1
<1>4. ASSUME NEW r \in inflight, RecvAnswer(r) \/ RecvUnmatched(r) PROVE QuitInv'
  BY <1>4 DEF RecvAnswer, Complete, RecvUnmatched, CondSignal
<1>5. ASSUME NEW i \in Indications, RecvIndication(i) PROVE QuitInv'
  BY <1>5, IndicationIsNoAnswer DEF EventOf, Indications, Events
<1>6. CASE ThreadTick
  BY <1>6, RecvNullReleases DEF ThreadTick
<1>7. CASE ThreadRelease
  <2>1. pc' # "wait" /\ (pc' = pc \/ pc' = "signalled")
    BY <1>7, RecvNullReleases DEF ThreadRelease
  <2>2. pc' # "write"
    BY <1>7, <2>1 DEF ThreadRelease, MutexFree
  <2> QED
    BY <1>7, <2>1, <2>2 DEF ThreadRelease
<1>8. CASE ThreadClose
  BY <1>8 DEF ThreadClose
<1>9. CASE ThreadEvent \/ ThreadControl \/ ThreadControlClosed \/ ThreadHup \/ ThreadGoodbye
  BY <1>9 DEF ThreadEvent, ThreadControl, ThreadControlClosed, ThreadHup, ThreadGoodbye
<1>10. CASE UNCHANGED vars
  BY <1>10 DEF vars
<1> QED
  BY <1>1, <1>2, <1>3, <1>4, <1>5, <1>6, <1>7, <1>8, <1>9, <1>10, <1>11
  DEF Next, Main, Reader, Terminated

-----------------------------------------------------------------------------
(* The inductive invariant holds in every reachable state. *)
LEMMA Inductive == Spec => []IndInv
<1>1. Init => IndInv
  <2> SUFFICES ASSUME Init PROVE IndInv
    OBVIOUS
  <2>1. TypeOK
    BY TypeInit
  <2>2. TidInv
    BY TidAssumption DEF Init, TidInv, CallIsLatest, Counters
  <2>3. SlotInv /\ QuitInv
    BY DEF Init, SlotInv, QuitInv
  <2> QED
    BY <2>1, <2>2, <2>3 DEF IndInv
<1>2. IndInv /\ [Next]_vars => IndInv'
  BY TypeStep, TidStep, SlotStep, QuitStep DEF IndInv
<1> QED
  BY <1>1, <1>2, PTL DEF Spec

(* Every variable of the rendezvous keeps its type. *)
THEOREM TypeCorrect == Spec => []TypeOK
  BY Inductive, PTL DEF IndInv

(* QmiThreadSendQMI hands its caller the answer to that caller's own request *)
(* or none, whatever answers are late and however often the transaction ids *)
(* have wrapped, as long as the modem is never a whole turn behind.         *)
THEOREM AnswerCorrect == Spec => []AnswerBelongsToCall
<1>1. IndInv => AnswerBelongsToCall
  BY DEF IndInv, SlotInv, AnswerBelongsToCall
<1> QED
  BY <1>1, Inductive, PTL

(* QmiThreadRecvQMI never compares or frees a request that was freed. *)
THEOREM RegisteredCorrect == Spec => []RegisteredIsLive
<1>1. IndInv => RegisteredIsLive
  BY DEF IndInv, SlotInv, RegisteredIsLive
<1> QED
  BY <1>1, Inductive, PTL

(* The quit sequence of QmiWwanThread leaves no caller waiting. *)
THEOREM NoOrphanCorrect == Spec => []NoOrphanWaiter
<1>1. IndInv => NoOrphanWaiter
  BY DEF IndInv, QuitInv, NoOrphanWaiter
<1> QED
  BY <1>1, Inductive, PTL

-----------------------------------------------------------------------------
(* A step of the main thread's call is a step of QmiCall. *)
LEMMA CallerRefines == IndInv /\ Caller => [Rendezvous!Next]_(Rendezvous!vars)
<1> SUFFICES ASSUME IndInv, Caller PROVE [Rendezvous!Next]_(Rendezvous!vars)
  OBVIOUS
<1> USE DEF Rendezvous!Next, Rendezvous!vars, Phase, slotVars
<1>1. ASSUME NEW c \in Clients, SendBegin(c) PROVE Rendezvous!Begin
  <2>1. TypeOK'
    BY <1>1, TypeStep DEF IndInv, Next, Caller
  <2>2. call' \in Request
    BY <1>1, <2>1, NullAssumption DEF TypeOK, SendBegin
  <2> QED
    BY <1>1, <2>2 DEF Rendezvous!Begin, SendBegin
<1>2. CASE SendLock \/ SendPoll
  BY <1>2 DEF SendLock, SendPoll
<1>3. CASE SendWritten \/ SendNoRoom
  BY <1>3 DEF SendWritten, SendNoRoom, Rendezvous!Send
<1>4. CASE SendFailed \/ SendTimedOut
  BY <1>4 DEF SendFailed, SendTimedOut, Rendezvous!Return, IndInv, SlotInv
<1>5. CASE CondTimeout \/ CondSpurious
  BY <1>5 DEF CondTimeout, CondSpurious
<1>6. CASE \E b \in BOOLEAN : SendReturn(b)
  BY <1>6 DEF SendReturn, Rendezvous!Return
<1> QED
  BY <1>1, <1>2, <1>3, <1>4, <1>5, <1>6 DEF Caller

(* The reader thread answers the call of QmiCall, ignores an answer, gives  *)
(* the call up, or does nothing that QmiCall sees.                          *)
LEMMA ReaderRefines == IndInv /\ Reader => [Rendezvous!Next]_(Rendezvous!vars)
<1> SUFFICES ASSUME IndInv, Reader PROVE [Rendezvous!Next]_(Rendezvous!vars)
  OBVIOUS
<1> USE DEF Rendezvous!Next, Rendezvous!vars, Phase, callVars, slotVars, CondSignal, MutexFree
<1>1. ASSUME NEW r \in inflight, RecvAnswer(r) PROVE Rendezvous!Reply
  <2>1. s_pRequest = call /\ call # NULL /\ is_response(call, r)
    BY <1>1 DEF IndInv, SlotInv, RecvAnswer, Matches
  <2>2. r = call
    BY <2>1, WindowIsUnambiguous DEF IndInv, TidInv
  <2> QED
    BY <1>1, <2>2 DEF RecvAnswer, Complete, Rendezvous!Reply
<1>2. ASSUME NEW r \in inflight, RecvUnmatched(r) PROVE Rendezvous!Ignore
  BY <1>2 DEF RecvUnmatched, Rendezvous!Ignore
<1>3. ASSUME NEW i \in Indications, RecvIndication(i) PROVE UNCHANGED Rendezvous!vars
  BY <1>3, IndicationIsNoAnswer DEF IndInv
<1>4. ASSUME ThreadTick \/ ThreadRelease PROVE Rendezvous!GiveUp \/ UNCHANGED Rendezvous!vars
  BY <1>4 DEF ThreadTick, ThreadRelease, RecvNull, Rendezvous!GiveUp
<1>5. CASE ThreadEvent \/ ThreadControl \/ ThreadControlClosed \/ ThreadHup
           \/ ThreadClose \/ ThreadGoodbye
  BY <1>5 DEF ThreadEvent, ThreadControl, ThreadControlClosed, ThreadHup, ThreadClose,
              ThreadGoodbye
<1> QED
  BY <1>1, <1>2, <1>3, <1>4, <1>5 DEF Reader

(* The main thread between calls, and the end of the process, leave the     *)
(* call of QmiCall alone.                                                   *)
LEMMA MainRefines == Main \/ Terminated => UNCHANGED Rendezvous!vars
<1> USE DEF Rendezvous!vars, Phase, callVars, slotVars
<1>1. ASSUME NEW signo, ql_sigaction(signo) PROVE UNCHANGED Rendezvous!vars
  BY <1>1 DEF ql_sigaction
<1>2. MainLoop \/ MainPoll \/ MainTimeout \/ MainSignal \/ MainEvent => UNCHANGED Rendezvous!vars
  BY DEF MainLoop, MainPoll, MainTimeout, MainSignal, MainEvent
<1>3. MainStop \/ MainDisconnected \/ MainReset => UNCHANGED Rendezvous!vars
  BY DEF MainStop, MainDisconnected, MainReset, EventNext
<1>5. MainRestart \/ MainJoin => UNCHANGED Rendezvous!vars
  BY DEF MainRestart, MainJoin
<1>6. MainInitFails \/ MainRestartFails => UNCHANGED Rendezvous!vars
  BY DEF MainInitFails, MainRestartFails, Exit
<1>4. Terminated => UNCHANGED Rendezvous!vars
  BY DEF Terminated, vars
<1> QED
  BY <1>1, <1>2, <1>3, <1>4, <1>5, <1>6 DEF Main

(* The rendezvous of the two threads implements QmiCall: QmiThreadSendQMI   *)
(* returns the modem's one answer to its own request, or none.              *)
THEOREM Refinement == Spec => ImplementsQmiCall
<1>1. Init => Rendezvous!Init
  BY DEF Init, Rendezvous!Init, Phase
<1>2. IndInv /\ [Next]_vars => [Rendezvous!Next]_(Rendezvous!vars)
  <2>1. UNCHANGED vars => UNCHANGED Rendezvous!vars
    BY DEF vars, callVars, slotVars, Rendezvous!vars, Phase
  <2> QED
    BY <2>1, CallerRefines, ReaderRefines, MainRefines DEF Next
<1> QED
  BY <1>1, <1>2, Inductive, PTL DEF Spec, ImplementsQmiCall, Rendezvous!Spec
=============================================================================
