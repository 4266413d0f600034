------------------------------- MODULE MbimCm -------------------------------
(***************************************************************************)
(* The MBIM connection manager of quectel-CM (mbim-cm.c).  The main thread *)
(* asks the modem for its SIM, registration, packet service and            *)
(* connection, one command at a time, connects, and sleeps until one of    *)
(* them changes; mbim_read_thread takes answers and indications from the   *)
(* modem.  mbim_command_mutex guards the command in progress,              *)
(* mbim_state_mutex the sleep; the four states have no lock.               *)
(*                                                                         *)
(* Deactivating acts as Deactivated everywhere in the code, Home as        *)
(* Roaming: each pair is one value.  An address is there or not.           *)
(***************************************************************************)
EXTENDS Naturals, Sequences, FiniteSets

CONSTANTS
  MaxTid,          \* bound: ids are used again after it, in the code after 2^32 - 1
  ConnectAnswers,  \* what the modem says after a connect: "up", "down", "going"
  MaxChanges,      \* bound on what the modem, its plug and signals do unasked, and
                   \* on answers that keep to themselves what the modem could tell
  NULL

States == {"Ready", "Register", "Packet", "Activation"}
Values == [Ready |-> {"no", "yes"}, Register |-> {"no", "yes"},
           Packet |-> {"unknown", "detached", "attached"},
           Activation |-> {"unknown", "down", "going", "up"}]
AnyState == [Ready : Values.Ready, Register : Values.Register,
             Packet : Values.Packet, Activation : Values.Activation]
Commands == States \cup {"open", "caps", "attach", "connect", "ip", "off", "close"}
Request == [tid : 1 .. MaxTid, op : Commands, session : {0, 1}]

ASSUME MaxTidAssumption == MaxTid \in Nat /\ MaxTid >= 3
ASSUME AnswersAssumption == "up" \in ConnectAnswers /\ ConnectAnswers \subseteq {"up", "down", "going"}
ASSUME ChangesAssumption == MaxChanges \in Nat
ASSUME NullAssumption == NULL \notin Request \cup States

VARIABLES
  pc,             \* the main thread: a command, a test, or a place of its own
  stage,          \* in mbim_send_command: "idle", "write", "wait", "signalled", "expired"
  call,           \* pRequest of the current or last command
  answer,         \* the request that the last command's answer was given to
  TransactionId,
  session,        \* tells the ids of one open from those of the next
  mbim_pRequest, mbim_pResponse,
  state,          \* ReadyState, RegisterState, PacketServiceState, ActivationState
  mbim_open_state, mbim_quit,
  read_tid,       \* read_tid # 0
  tpc,            \* mbim_read_thread
  iface,          \* the network interface has the address of the call
  held,           \* commands the modem has not answered
  rx,             \* answers and indications on their way
  opened, modem,  \* the modem's own state
  overtaken,      \* an indication has passed an answer that was still to be used
  changes         \* (bounds the model)

callVars == <<call, answer, TransactionId, session>>
slotVars == <<mbim_pRequest, mbim_pResponse>>
modemVars == <<opened, modem>>
vars == <<pc, stage, callVars, slotVars, state, mbim_open_state, mbim_quit, read_tid,
          tpc, iface, held, rx, modemVars, overtaken, changes>>

Unknown == [Ready |-> "no", Register |-> "no", Packet |-> "unknown",
            Activation |-> "unknown"]

Init ==
  /\ pc = "top" /\ stage = "idle" /\ call = NULL /\ answer = NULL
  /\ TransactionId = 1 /\ session = 0
  /\ mbim_pRequest = NULL /\ mbim_pResponse = NULL
  /\ state = Unknown /\ mbim_open_state = FALSE /\ mbim_quit = FALSE
  /\ read_tid = TRUE /\ tpc = "poll"
  /\ iface \in BOOLEAN
  /\ held = {} /\ rx = <<>>
  /\ opened = FALSE
  /\ modem \in [Ready : {"no", "yes"}, Register : {"no", "yes"},
                Packet : {"detached", "attached"}, Activation : {"down", "up"}]
  /\ modem.Activation = "up" => modem.Packet = "attached"
  /\ modem.Packet = "attached" => modem.Register = "yes"
  /\ modem.Register = "yes" => modem.Ready = "yes"
  /\ overtaken = FALSE /\ changes = 0

Change == changes < MaxChanges /\ changes' = changes + 1

-----------------------------------------------------------------------------
(* The modem.                                                               *)

Indicate(c) == IF opened THEN rx' = Append(rx, [req |-> NULL, cid |-> c, val |-> modem'[c]])
                         ELSE UNCHANGED rx

ModemUnchanged == UNCHANGED <<pc, stage, callVars, slotVars, state, mbim_open_state,
                              mbim_quit, read_tid, tpc, iface, overtaken>>

(* A state changes unasked: SIM, network, packet service; a call drops. *)
ModemChanges(c) ==
  /\ Change
  /\ \E v \in Values[c] \ {modem[c], "unknown", "going"} :
       /\ c = "Activation" => modem[c] = "up"
       /\ modem' = [modem EXCEPT ![c] = v]
  /\ Indicate(c)
  /\ UNCHANGED <<held, opened>> /\ ModemUnchanged

(* An activation that took its time ends. *)
ModemActivated ==
  /\ modem.Activation = "going"
  /\ \E v \in {"up", "down"} : modem' = [modem EXCEPT !.Activation = v]
  /\ Indicate("Activation")
  /\ UNCHANGED <<held, opened, changes>> /\ ModemUnchanged

(* After suspend and resume the modem has to be opened again; it may have   *)
(* kept its call.                                                           *)
ModemForgets ==
  /\ Change
  /\ opened /\ opened' = FALSE
  /\ modem' \in {modem, [modem EXCEPT !.Activation = "down"]}
  /\ UNCHANGED <<held, rx>> /\ ModemUnchanged

(* What a command does to the modem, and the value its answer carries.      *)
(* "failed" is an answer without information: its Status may say why, but   *)
(* mbim_check_err lets it pass.  caps and close use nothing of theirs.      *)
Carries(op, v) ==
  CASE op = "open" ->
         opened' = (v = "done") /\ v \in {"done", "failed"} /\ UNCHANGED modem
    [] op # "open" /\ ~opened ->
         v = "NOT_OPENED" /\ UNCHANGED modemVars
    [] op \in States /\ opened ->
         v \in {modem[op], "failed"} /\ UNCHANGED modemVars
    [] op = "caps" /\ opened ->
         v = "done" /\ UNCHANGED modemVars
    [] op = "attach" /\ opened ->
         /\ v \in {"attached", "detached", "failed"} /\ UNCHANGED opened
         /\ modem' = IF v = "failed" THEN modem ELSE [modem EXCEPT !.Packet = v]
    [] op \in {"connect", "off"} /\ opened ->
         /\ v \in (IF op = "off" THEN {"down"} ELSE ConnectAnswers) \cup {"failed"}
         /\ modem' = IF v = "failed" THEN modem ELSE [modem EXCEPT !.Activation = v]
         /\ UNCHANGED opened
    [] op = "ip" /\ opened ->
         v \in {"done", "failed"} /\ (v = "done" => modem.Activation = "up") /\ UNCHANGED modemVars
    [] op = "close" /\ opened ->
         v = "done" /\ opened' = FALSE /\ UNCHANGED modem

Withheld(op, v) == v = "failed" /\ op # "open" /\ (op = "ip" => modem.Activation = "up")

ModemAnswers(r, v) ==
  /\ r \in held /\ held' = held \ {r}
  /\ Carries(r.op, v)
  /\ rx' = Append(rx, [req |-> r, cid |-> r.op, val |-> v])
  /\ IF Withheld(r.op, v) THEN Change ELSE UNCHANGED changes
  /\ ModemUnchanged

-----------------------------------------------------------------------------
(* mbim_send_command, for the command pc.                                   *)

(* mbim_command_mutex: held by the main thread until it waits, and by the   *)
(* reader thread while it takes the address away.                           *)
MutexFree == stage # "write" /\ tpc # "flush"

SendUnchanged == UNCHANGED <<mbim_quit, read_tid, tpc, rx, modemVars, changes>>

(* TransactionId++.  The 2^32 commands after which it would be 0, the id of *)
(* indications, are not reached between two opens, which start from 1: here *)
(* ids come back early, and 0 never.                                        *)
NextTid == (TransactionId % MaxTid) + 1

SendBegin ==
  /\ pc \in Commands /\ stage = "idle"
  /\ MutexFree
  /\ LET req == [tid |-> TransactionId, op |-> pc, session |-> session]
     IN  call' = req /\ mbim_pRequest' = req
  /\ TransactionId' = NextTid
  /\ answer' = NULL /\ mbim_pResponse' = NULL
  /\ stage' = "write"
  /\ UNCHANGED <<pc, session, state, mbim_open_state, iface, held, overtaken>>
  /\ SendUnchanged

SendWritten ==
  /\ stage = "write" /\ stage' = "wait"
  /\ held' = held \cup {call}
  /\ UNCHANGED <<pc, callVars, slotVars, state, mbim_open_state, iface, overtaken>>
  /\ SendUnchanged

CondTimeout ==
  /\ stage = "wait" /\ stage' = "expired"
  /\ UNCHANGED <<pc, callVars, slotVars, state, mbim_open_state, iface, held, overtaken>>
  /\ SendUnchanged

CondSpurious ==
  /\ stage = "wait" /\ stage' = "signalled"
  /\ UNCHANGED <<pc, callVars, slotVars, state, mbim_open_state, iface, held, overtaken>>
  /\ SendUnchanged

(* A command that fails ends the loop. *)
Failed == IF pc = "off" THEN "close" ELSE IF pc = "close" THEN "kill" ELSE "exit"

(* No answer: write failed, timeout, a wake-up without an answer, no memory *)
(* (mbim_check_err).                                                        *)
SendFailed ==
  /\ \/ stage = "write"
     \/ stage = "expired" /\ MutexFree
     \/ stage = "signalled" /\ MutexFree /\ mbim_pResponse = NULL
  /\ stage' = "idle"
  /\ mbim_pRequest' = NULL /\ mbim_pResponse' = NULL
  /\ pc' = Failed
  /\ UNCHANGED <<callVars, state, mbim_open_state, iface, held, overtaken>>
  /\ SendUnchanged

Then == [open |-> "caps", caps |-> "Ready?", Ready |-> "Ready2?", Register |-> "Register2?",
         Packet |-> "Packet2?", attach |-> "Packet3?", Activation |-> "connect?",
         connect |-> "connected?", ip |-> "towait", off |-> "close", close |-> "kill"]

(* Mutant: the answer to an attach is noted as the registration. *)
StateOfMixed(op) == CASE op \in States -> op
                      [] op = "attach" -> "Register"
                      [] op \in {"connect", "off"} -> "Activation"
                      [] OTHER -> NULL

(* The state that the answer to a command is about. *)
StateOf(op) == CASE op \in States -> op
                 [] op = "attach" -> "Packet"
                 [] op \in {"connect", "off"} -> "Activation"
                 [] OTHER -> NULL

(* Mutant: the state of the call survives a new open. *)
mbim_reset_stateKeepsCall == state' = [Unknown EXCEPT !.Activation = state.Activation]

mbim_reset_state == state' = Unknown

(* The error NOT_OPENED clears mbim_open_state; an open that is done sets it. *)
mbim_status_code(v) ==
  mbim_open_state' = CASE v = "NOT_OPENED" -> FALSE
                       [] v # "NOT_OPENED" /\ pc = "open" -> v = "done"
                       [] OTHER -> mbim_open_state

(* An answer with the value v is used.  NOT_OPENED comes in a message of 16 *)
(* bytes, whose InformationBufferLength lies behind its end: what is there  *)
(* decides whether a state, or the interface, is set, and to what.          *)
Use(v) ==
  LET s == StateOf(pc) IN
  /\ CASE v = "NOT_OPENED" /\ s # NULL ->
            \E w \in Values[s] : state' = [state EXCEPT ![s] = w] /\ UNCHANGED iface
       [] v = "NOT_OPENED" /\ pc = "ip" -> iface' \in {iface, TRUE} /\ UNCHANGED state
       [] v \notin {"NOT_OPENED", "failed"} /\ s # NULL -> state' = [state EXCEPT ![s] = v] /\ UNCHANGED iface
       [] v = "done" /\ pc = "ip" -> iface' = TRUE /\ UNCHANGED state
       [] v = "done" /\ pc = "open" -> mbim_reset_state /\ UNCHANGED iface
       [] OTHER -> UNCHANGED <<state, iface>>
  /\ mbim_status_code(v)
  /\ pc' = IF pc = "open" /\ v # "done" THEN "exit" ELSE Then[pc]

SendReturn ==
  /\ stage = "signalled" /\ MutexFree
  /\ mbim_pResponse # NULL
  /\ answer' = mbim_pResponse.req
  /\ Use(mbim_pResponse.val)
  /\ mbim_pRequest' = NULL /\ mbim_pResponse' = NULL
  /\ stage' = "idle"
  /\ overtaken' = (overtaken /\ pc # "open")
  /\ UNCHANGED <<call, TransactionId, session, held>>
  /\ SendUnchanged

-----------------------------------------------------------------------------
(* The loop of mbim_main between the commands.                              *)

MainUnchanged == UNCHANGED <<stage, call, answer, slotVars, state, mbim_open_state,
                             mbim_quit, tpc, read_tid, held, rx, modemVars, overtaken,
                             changes>>

Going == mbim_quit = FALSE /\ read_tid

(* Where a test of the loop leads. *)
Branch(p) ==
  CASE p = "top" -> IF ~Going THEN "exit" ELSE IF mbim_open_state THEN "Ready?" ELSE "down"
    [] p = "Ready?" -> IF state.Ready # "yes" THEN "Ready" ELSE "Ready2?"
    [] p = "Ready2?" -> IF state.Ready # "yes" THEN "towait" ELSE "Register?"
    [] p = "Register?" -> IF state.Register # "yes" THEN "Register" ELSE "Register2?"
    [] p = "Register2?" -> IF state.Register # "yes" THEN "towait" ELSE "Packet?"
    [] p = "Packet?" -> IF state.Packet # "attached" THEN "Packet" ELSE "Packet3?"
    [] p = "Packet2?" -> IF state.Packet = "detached" THEN "attach" ELSE "Packet3?"
    [] p = "Packet3?" -> IF state.Packet # "attached" THEN "towait" ELSE "Activation?"
    [] p = "Activation?" -> IF state.Activation = "unknown" THEN "Activation" ELSE "connect?"
    [] p = "connect?" -> IF state.Activation \in {"up", "going"} THEN "towait" ELSE "connect"
    [] p = "connected?" -> IF state.Activation = "up" THEN "ip" ELSE "towait"
    [] p = "settle" -> IF Going THEN "towait1" ELSE "top"
    [] p = "exit" -> IF ~read_tid THEN "ended"
                     ELSE IF state.Activation \in {"up", "going"} THEN "off" ELSE "close"
Tests == {"top", "Ready?", "Ready2?", "Register?", "Register2?", "Packet?", "Packet2?",
          "Packet3?", "Activation?", "connect?", "connected?", "settle", "exit"}

MainTest ==
  /\ pc \in Tests
  /\ pc' = Branch(pc)
  /\ UNCHANGED <<TransactionId, session, iface>> /\ MainUnchanged

(* Before the device is opened: no address, and ids from 1 again. *)
MainDown ==
  /\ pc = "down" /\ pc' = "open"
  /\ iface' = FALSE
  /\ TransactionId' = 1 /\ session' = 1 - session
  /\ MainUnchanged

(* wait_state_change(24 h or 30 s), and wait_state_change(1): lock          *)
(* mbim_state_mutex, and sleep without a look at what has changed already.  *)
MainLock ==
  /\ pc \in {"towait", "towait1"}
  /\ pc' = IF pc = "towait" THEN "locked" ELSE "locked1"
  /\ UNCHANGED <<TransactionId, session, iface>> /\ MainUnchanged

MainSleep ==
  /\ pc \in {"locked", "locked1"}
  /\ pc' = IF pc = "locked" THEN "wait" ELSE "wait1"
  /\ UNCHANGED <<TransactionId, session, iface>> /\ MainUnchanged

MainTimeout ==
  /\ pc \in {"wait", "wait1"}
  /\ pc' = IF pc = "wait" THEN "settle" ELSE "top"
  /\ UNCHANGED <<TransactionId, session, iface>> /\ MainUnchanged

StateMutexFree == pc \notin {"locked", "locked1", "stuck"}

(* _notify_state_chage: lost unless the main thread sleeps. *)
Notify == pc' = IF pc \in {"wait", "wait1"} THEN "settle" ELSE pc

(* SIGTERM, SIGINT or SIGHUP, handled by the main thread: ql_sigaction      *)
(* locks mbim_state_mutex, for ever if the main thread has it already.      *)
ql_sigaction ==
  /\ Change
  /\ pc \notin {"ended", "crashed", "stuck"}
  /\ mbim_quit' = TRUE
  /\ IF StateMutexFree THEN Notify ELSE pc' = "stuck"
  /\ UNCHANGED <<stage, callVars, slotVars, state, mbim_open_state, read_tid, tpc,
                 iface, held, rx, modemVars, overtaken>>

(* pthread_kill and pthread_join, both with the read_tid of that moment.    *)
(* The signal ends the reader thread's poll; anywhere else it is handled    *)
(* and forgotten.                                                           *)
MainKill ==
  /\ pc = "kill"
  /\ IF read_tid THEN pc' = "join" /\ mbim_quit' = TRUE ELSE pc' = "crashed" /\ UNCHANGED mbim_quit
  /\ tpc' = IF read_tid /\ tpc = "poll" THEN "quit" ELSE tpc
  /\ UNCHANGED <<stage, callVars, slotVars, state, mbim_open_state, read_tid, iface, held,
                 rx, modemVars, overtaken, changes>>

MainJoin ==
  /\ pc = "join"
  /\ pc' = IF read_tid THEN "joining" ELSE "crashed"
  /\ UNCHANGED <<TransactionId, session, iface>> /\ MainUnchanged

MainJoined ==
  /\ pc = "joining" /\ pc' = "ended"
  /\ tpc = "exited"
  /\ iface' = FALSE
  /\ UNCHANGED <<TransactionId, session>> /\ MainUnchanged

-----------------------------------------------------------------------------
(* mbim_read_thread.                                                        *)

ReadUnchanged == UNCHANGED <<callVars, mbim_open_state, held, modemVars>>

CondSignal == stage' = IF stage = "wait" THEN "signalled" ELSE stage

PollIn ==
  /\ tpc = "poll" /\ tpc' = "read"
  /\ rx # <<>>
  /\ UNCHANGED <<pc, stage, slotVars, state, mbim_quit, read_tid, iface, rx, overtaken,
                 changes>> /\ ReadUnchanged

(* POLLHUP: the modem has been unplugged. *)
PollHup ==
  /\ Change
  /\ tpc = "poll" /\ tpc' = "quit"
  /\ UNCHANGED <<pc, stage, slotVars, state, mbim_quit, read_tid, iface, rx, overtaken>>
  /\ ReadUnchanged

(* Mutant: the id of an answer is not compared. *)
IsResponseAny(r) == mbim_pRequest # NULL /\ r # NULL

(* The message answers the command in progress.  Indications have id 0. *)
IsResponse(r) == mbim_pRequest # NULL /\ r # NULL /\ mbim_pRequest.tid = r.tid

(* mbim_recv_command with an answer; malloc may fail. *)
RecvAnswer ==
  /\ tpc = "read" /\ tpc' = "poll"
  /\ MutexFree
  /\ rx' = Tail(rx)
  /\ IF IsResponse(Head(rx).req)
     THEN mbim_pResponse' \in {Head(rx), NULL} /\ CondSignal
     ELSE Head(rx).req # NULL /\ UNCHANGED <<mbim_pResponse, stage>>
  /\ UNCHANGED <<pc, mbim_pRequest, state, mbim_quit, read_tid, iface, overtaken, changes>>
  /\ ReadUnchanged

(* Mutant: a call that was dropped keeps its address. *)
RecvIndicationKeepsAddress ==
  /\ tpc = "read"
  /\ MutexFree /\ StateMutexFree
  /\ Head(rx).req = NULL
  /\ LET c == Head(rx).cid  v == Head(rx).val IN
     /\ state' = [state EXCEPT ![c] = v]
     /\ IF state[c] # v THEN Notify ELSE UNCHANGED pc
  /\ tpc' = "poll"
  /\ rx' = Tail(rx)
  /\ overtaken' = (overtaken \/ mbim_pResponse # NULL)
  /\ UNCHANGED <<stage, slotVars, mbim_quit, read_tid, iface, changes>> /\ ReadUnchanged

(* mbim_recv_command with an indication: note the state, wake the main      *)
(* thread if it is new, and take the address away when the call is down.    *)
RecvIndication ==
  /\ tpc = "read"
  /\ MutexFree /\ StateMutexFree
  /\ Head(rx).req = NULL
  /\ LET c == Head(rx).cid  v == Head(rx).val IN
     /\ state' = [state EXCEPT ![c] = v]
     /\ IF state[c] # v THEN Notify ELSE UNCHANGED pc
     /\ tpc' = IF c = "Activation" /\ v = "down" THEN "flush" ELSE "poll"
  /\ rx' = Tail(rx)
  /\ overtaken' = (overtaken \/ mbim_pResponse # NULL)
  /\ UNCHANGED <<stage, slotVars, mbim_quit, read_tid, iface, changes>> /\ ReadUnchanged

RecvFlush ==
  /\ tpc = "flush" /\ tpc' = "poll"
  /\ iface' = FALSE
  /\ UNCHANGED <<pc, stage, slotVars, state, mbim_quit, read_tid, rx, overtaken, changes>>
  /\ ReadUnchanged

(* Mutant: the thread ends and says so to nobody. *)
ReadQuitSilent ==
  /\ tpc = "quit" /\ tpc' = "release"
  /\ UNCHANGED <<pc, stage, slotVars, state, mbim_quit, read_tid, iface, rx, overtaken, changes>>
  /\ ReadUnchanged

(* The end of the thread: no read_tid, quit, wake a command, wake the loop. *)
ReadQuit ==
  /\ tpc = "quit" /\ tpc' = "release"
  /\ read_tid' = FALSE /\ mbim_quit' = TRUE
  /\ UNCHANGED <<pc, stage, slotVars, state, iface, rx, overtaken, changes>> /\ ReadUnchanged

ReadRelease ==
  /\ tpc = "release" /\ tpc' = "notify"
  /\ MutexFree
  /\ CondSignal
  /\ UNCHANGED <<pc, slotVars, state, mbim_quit, read_tid, iface, rx, overtaken, changes>>
  /\ ReadUnchanged

ReadExit ==
  /\ tpc = "notify" /\ tpc' = "exited"
  /\ StateMutexFree
  /\ Notify
  /\ UNCHANGED <<stage, slotVars, state, mbim_quit, read_tid, iface, rx, overtaken, changes>>
  /\ ReadUnchanged

-----------------------------------------------------------------------------
Modem ==
  \/ (\E c \in States : ModemChanges(c)) \/ ModemActivated \/ ModemForgets
  \/ \E r \in held : \E v \in {"done", "failed", "NOT_OPENED", "no", "yes", "detached",
                              "attached", "down", "going", "up"} : ModemAnswers(r, v)

Command == SendBegin \/ SendWritten \/ SendFailed \/ SendReturn

Main == Command \/ MainTest \/ MainDown \/ MainLock \/ MainSleep \/ MainKill \/ MainJoin
        \/ MainJoined

Reader ==
  /\ pc \notin {"ended", "crashed"}
  /\ PollIn \/ RecvAnswer \/ RecvIndication \/ RecvFlush \/ ReadQuit \/ ReadRelease
     \/ ReadExit

Hangup == pc \notin {"ended", "crashed"} /\ PollHup

Next == Modem \/ Main \/ CondTimeout \/ CondSpurious \/ MainTimeout \/ ql_sigaction
        \/ Reader \/ Hangup

(* Both threads run and every wait ends at its timeout.  The reader thread  *)
(* gets a mutex that is free again and again: the main thread sleeps for    *)
(* seconds at least between two uses.  Main, CondTimeout and MainTimeout    *)
(* are never enabled together.  The modem neither refuses a connection nor  *)
(* an attachment for ever; that it does not withhold its answers for ever   *)
(* is in MaxChanges.                                                        *)
Fairness ==
  /\ WF_vars(Main \/ CondTimeout \/ MainTimeout) /\ SF_vars(Reader)
  /\ SF_vars(\E r \in held : r.op = "connect" /\ ModemAnswers(r, "up"))
  /\ SF_vars(\E r \in held : r.op = "attach" /\ ModemAnswers(r, "attached"))

Spec == Init /\ [][Next]_vars
FairSpec == Spec /\ Fairness

-----------------------------------------------------------------------------
TypeOK ==
  /\ pc \in Commands \cup Tests \cup
       {"down", "towait", "locked", "wait", "towait1", "locked1", "wait1", "kill", "join",
        "joining", "ended", "crashed", "stuck"}
  /\ stage \in {"idle", "write", "wait", "signalled", "expired"}
  /\ call \in Request \cup {NULL} /\ answer \in Request \cup {NULL}
  /\ TransactionId \in 1 .. MaxTid /\ session \in {0, 1}
  /\ mbim_pRequest \in Request \cup {NULL}
  /\ mbim_pResponse # NULL => mbim_pResponse.req \in Request
  /\ state \in AnyState /\ modem \in AnyState /\ opened \in BOOLEAN
  /\ mbim_open_state \in BOOLEAN /\ mbim_quit \in BOOLEAN /\ read_tid \in BOOLEAN
  /\ tpc \in {"poll", "read", "flush", "quit", "release", "notify", "exited"}
  /\ iface \in BOOLEAN /\ held \in SUBSET Request
  /\ \A i \in DOMAIN rx : rx[i].req \in Request \cup {NULL}
  /\ overtaken \in BOOLEAN /\ changes \in Nat

Phase == CASE stage = "idle" -> "none"
           [] stage = "write" -> "new"
           [] OTHER -> "sent"

Rendezvous == INSTANCE QmiCall
  WITH Requests <- Request, None <- NULL, phase <- Phase,
       reply <- IF mbim_pResponse = NULL THEN NULL ELSE mbim_pResponse.req,
       modem <- held \cup {rx[i].req : i \in {j \in DOMAIN rx : rx[j].req # NULL}}

(* mbim_send_command promises what the call of QMI does: the modem's one    *)
(* answer to this very command, or none.  The ids start from 1 again with   *)
(* every open, while commands may still be unanswered.                      *)
ImplementsQmiCall == Rendezvous!Spec

(* While the main thread sleeps and nothing is on its way, the interface    *)
(* has an address only if the modem has a call, although main thread and    *)
(* reader thread both set it and both set ActivationState without a lock.   *)
(* The exception is an answer that is used after a later indication.        *)
LinkFollowsCall ==
  pc = "wait" /\ opened /\ rx = <<>> /\ tpc = "poll" /\ ~overtaken /\ iface
    => modem.Activation = "up"

(* When the modem is unplugged the process ends, wherever its main thread   *)
(* is, in a command that nobody answers or on its way to a sleep whose      *)
(* wake-up it has missed; unless the signal handler has locked it up.       *)
HangupEnds == tpc = "exited" ~> pc \in {"ended", "crashed", "stuck"}

(* The modem tells of a call, in the answer to the query after an open, or  *)
(* gives no address for it: the code sets none then, and asks for it no     *)
(* more while the call lasts.                                               *)
CallWithoutAddress ==
  /\ mbim_pResponse # NULL /\ modem.Activation = "up"
  /\ \/ pc = "Activation" /\ mbim_pResponse.val = "up"
     \/ pc = "ip" /\ mbim_pResponse.val = "failed"

(* With SIM and network the connection is set up again and again, after the *)
(* call was dropped, the packet service detached, a query, an attachment or *)
(* a connection failed or the open state was forgotten.  The exceptions are *)
(* a loop that is left, a state of the call that is "Activating", which     *)
(* nothing ends with an address, an answer that has overwritten a later     *)
(* indication, and CallWithoutAddress as long as that call lasts.           *)
Redials ==
  <>[](opened /\ modem.Ready = "yes" /\ modem.Register = "yes")
    => \/ []<>(iface /\ modem.Activation = "up")
       \/ <>(overtaken \/ state.Activation = "going" \/ pc \in {"exit", "stuck"})
       \/ <>(CallWithoutAddress /\ [](modem.Activation = "up"))
=============================================================================
