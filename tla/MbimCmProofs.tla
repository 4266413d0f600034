---------------------------- MODULE MbimCmProofs ----------------------------
(***************************************************************************)
(* Proofs about MbimCm for every number of transaction ids from 3 on, every *)
(* set of answers to a connect and any number of changes of the modem.     *)
(***************************************************************************)
EXTENDS MbimCm, TLAPS

Known == [Ready |-> {"no", "yes"}, Register |-> {"no", "yes"},
          Packet |-> {"detached", "attached"}, Activation |-> {"down", "going", "up"}]
KnownState == [Ready : Known.Ready, Register : Known.Register,
               Packet : Known.Packet, Activation : Known.Activation]
Words == {"done", "failed", "NOT_OPENED", "no", "yes", "detached", "attached", "down",
          "going", "up"}
Message == [req : Request \cup {NULL}, cid : Commands, val : Words]

(* An answer is about its command and tells a value of its state, nothing,  *)
(* or that the modem is not open; an indication tells a value of a state.   *)
MessageOK(m) ==
  IF m.req # NULL
  THEN /\ m.cid = m.req.op
       /\ StateOf(m.cid) # NULL => m.val \in Known[StateOf(m.cid)] \cup {"NOT_OPENED", "failed"}
       /\ m.cid = "open" => m.val # "NOT_OPENED"
  ELSE m.cid \in States /\ m.val \in Known[m.cid]

Flags == /\ opened \in BOOLEAN /\ mbim_open_state \in BOOLEAN /\ mbim_quit \in BOOLEAN
         /\ read_tid \in BOOLEAN /\ iface \in BOOLEAN /\ overtaken \in BOOLEAN

Places ==
  /\ pc \in Commands \cup Tests \cup
       {"down", "towait", "locked", "wait", "towait1", "locked1", "wait1", "kill", "join",
        "joining", "ended", "crashed", "stuck"}
  /\ stage \in {"idle", "write", "wait", "signalled", "expired"}
  /\ tpc \in {"poll", "read", "flush", "quit", "release", "notify", "exited"}
  /\ TransactionId \in 1 .. MaxTid /\ session \in {0, 1} /\ changes \in Nat
  /\ stage # "idle" => pc \in Commands

(* What is on its way is well formed, and the reader thread reads only when *)
(* something is.                                                            *)
Queue ==
  /\ rx \in Seq(Message) /\ \A i \in DOMAIN rx : MessageOK(rx[i])
  /\ tpc = "read" => rx # <<>>
  /\ modem \in KnownState /\ held \in SUBSET Request

(* The slot holds the command in progress and no answer but its own. *)
Slot ==
  /\ mbim_pRequest = IF stage = "idle" THEN NULL ELSE call
  /\ call \in Request \cup {NULL} /\ answer \in Request \cup {NULL}
  /\ stage # "idle" => call \in Request /\ call.op = pc /\ answer = NULL
  /\ mbim_pResponse # NULL =>
       /\ mbim_pResponse \in Message /\ MessageOK(mbim_pResponse)
       /\ mbim_pResponse.req = call /\ stage \notin {"idle", "write"}

(* The commands that are with the modem or whose answers are on their way. *)
Reqs(s) == {s[i].req : i \in {j \in DOMAIN s : s[j].req # NULL}}
Out == held \cup Reqs(rx)
Once(s) == \A i, j \in DOMAIN s : s[i].req # NULL /\ s[i].req = s[j].req => i = j

Prev(t) == IF t = 1 THEN MaxTid ELSE t - 1
Shutdown == {"exit", "off", "close"}
Over == {"kill", "join", "joining", "ended", "crashed", "stuck"}

(* The command in progress is the only one that may be out.  One that fails *)
(* ends the loop, and the shutdown has two commands more: the ids of the    *)
(* three are not the same.                                                  *)
Older(r) ==
  IF stage = "idle"
  THEN \/ pc \in {"exit", "off"} /\ r.tid = Prev(TransactionId)
       \/ pc = "close" /\ r.tid \in {Prev(TransactionId), Prev(Prev(TransactionId))}
       \/ pc \in Over
  ELSE \/ r = call /\ stage # "write"
       \/ pc = "off" /\ r.tid = Prev(call.tid)
       \/ pc = "close" /\ r.tid \in {Prev(call.tid), Prev(Prev(call.tid))}

OutInv ==
  /\ stage # "idle" => call.tid = Prev(TransactionId)
  /\ \A r \in Out : Older(r)
  /\ Once(rx) /\ held \cap Reqs(rx) = {}
  /\ mbim_pResponse # NULL => call \notin Out

IndInv == Flags /\ Places /\ Queue /\ Slot /\ state \in AnyState /\ OutInv

-----------------------------------------------------------------------------
(* The sequences of the queue. *)
LEMMA AppendFacts ==
  ASSUME NEW S, NEW s \in Seq(S), NEW e \in S
  PROVE  /\ Append(s, e) \in Seq(S) /\ Append(s, e) # <<>>
         /\ Len(s) \in Nat /\ DOMAIN s = 1 .. Len(s)
         /\ DOMAIN Append(s, e) = 1 .. Len(s) + 1
         /\ \A i \in 1 .. Len(s) : Append(s, e)[i] = s[i]
         /\ Append(s, e)[Len(s) + 1] = e
  OBVIOUS

(* What the queue needs to know of Tail.                                    *)
LEMMA TailFacts ==
  ASSUME NEW S, NEW s \in Seq(S), s # <<>>
  PROVE  /\ Len(s) \in Nat \ {0} /\ DOMAIN s = 1 .. Len(s)
         /\ Head(s) = s[1] /\ Head(s) \in S
         /\ Tail(s) \in Seq(S) /\ DOMAIN Tail(s) = 1 .. Len(s) - 1
         /\ \A i \in 1 .. Len(s) - 1 : Tail(s)[i] = s[i + 1]
  OBVIOUS

(* One of the four states is set. *)
LEMMA StateSet ==
  ASSUME NEW s \in AnyState, NEW c \in States, NEW w \in Values[c]
  PROVE  /\ [s EXCEPT ![c] = w] \in AnyState
         /\ [s EXCEPT ![c] = w].Activation = IF c = "Activation" THEN w ELSE s.Activation
  BY DEF AnyState, States, Values

(* One of the four states of the modem changes.                             *)
LEMMA ModemSet ==
  ASSUME NEW s \in KnownState, NEW c \in States, NEW w \in Known[c]
  PROVE  /\ [s EXCEPT ![c] = w] \in KnownState
         /\ [s EXCEPT ![c] = w].Activation = IF c = "Activation" THEN w ELSE s.Activation
         /\ [s EXCEPT ![c] = w][c] = w
  BY DEF KnownState, States, Known

(* The modem knows its states, and each of them may be told.                *)
LEMMA KnownFacts ==
  /\ KnownState \subseteq AnyState
  /\ \A c \in States : /\ Known[c] = Values[c] \ {"unknown"}
                       /\ Known[c] \subseteq Words
                       /\ \A s \in KnownState : s[c] \in Known[c]
  /\ \A op : StateOf(op) # NULL => StateOf(op) \in States
  BY NullAssumption DEF KnownState, AnyState, States, Known, Values, Words, StateOf

-----------------------------------------------------------------------------
(* What the modem does on a command, and what it says. *)
LEMMA CarriesFacts ==
  ASSUME modem \in KnownState, opened \in BOOLEAN, NEW op \in Commands, NEW v \in Words,
         Carries(op, v)
  PROVE  /\ modem' \in KnownState /\ opened' \in BOOLEAN
         /\ op \notin {"connect", "off"} => modem'.Activation = modem.Activation
         /\ op = "connect" /\ v \notin {"NOT_OPENED", "failed"} => modem'.Activation = v
         /\ op = "connect" /\ v = "failed" => modem'.Activation = modem.Activation
         /\ op = "Activation" /\ v \notin {"NOT_OPENED", "failed"} => modem.Activation = v
         /\ op = "off" => modem'.Activation \in {"down", modem.Activation}
         /\ op = "ip" /\ v = "done" => modem.Activation = "up"
         /\ op # "open" => (opened' => opened)
         /\ op # "open" => (v = "NOT_OPENED" <=> ~opened)
         /\ op = "open" => v # "NOT_OPENED"
         /\ StateOf(op) # NULL => v \in Known[StateOf(op)] \cup {"NOT_OPENED", "failed"}
<1> USE NullAssumption, AnswersAssumption DEF Carries, StateOf, Commands, States, modemVars
<1>1. CASE op = "open"
  <2>1. opened' = (v = "done") /\ v \in {"done", "failed"} /\ UNCHANGED modem
    BY <1>1
  <2>2. opened' \in BOOLEAN
    BY <2>1, Zenon
  <2> QED
    BY <1>1, <2>1, <2>2
<1>2. CASE op # "open" /\ ~opened
  BY <1>2
<1>3. CASE opened /\ op \in States
  BY <1>3 DEF KnownState, Known
<1>4. CASE opened /\ op \in {"attach", "connect", "off"}
  BY <1>4 DEF KnownState, Known
<1>5. CASE opened /\ op \in {"caps", "ip"}
  BY <1>5
<1>6. CASE opened /\ op = "close"
  BY <1>6, Zenon
<1> QED
  BY <1>1, <1>2, <1>3, <1>4, <1>5, <1>6

(* Every step keeps the flags.                                              *)
LEMMA FlagsKept ==
  ASSUME Flags, Queue, [Next]_vars
  PROVE  Flags'
<1> USE DEF Flags, callVars, slotVars, modemVars
<1>1. ASSUME NEW c \in States, ModemChanges(c) PROVE Flags'
  BY <1>1, Zenon DEF ModemChanges, ModemUnchanged
<1>2. CASE ModemActivated
  BY <1>2, Zenon DEF ModemActivated, ModemUnchanged
<1>3. CASE ModemForgets
  BY <1>3, Zenon DEF ModemForgets, ModemUnchanged
<1>4. ASSUME NEW r \in held, NEW v \in Words, ModemAnswers(r, v) PROVE Flags'
  <2>1. Carries(r.op, v) /\ ModemUnchanged
    BY <1>4, Zenon DEF ModemAnswers
  <2>2. r.op \in Commands
    BY DEF Queue, Request
  <2>3. opened' \in BOOLEAN
    BY <2>1, <2>2, CarriesFacts DEF Queue
  <2> QED
    BY <2>1, <2>3, Zenon DEF ModemUnchanged
<1>5. CASE SendBegin \/ SendWritten \/ SendFailed \/ CondTimeout \/ CondSpurious
  BY <1>5, Zenon DEF SendBegin, SendWritten, SendFailed, CondTimeout, CondSpurious, SendUnchanged
<1>6. CASE SendReturn
  <2>1. /\ overtaken' = (overtaken /\ pc # "open")
        /\ UNCHANGED <<mbim_quit, read_tid, opened>>
        /\ Use(mbim_pResponse.val)
    BY <1>6, Zenon DEF SendReturn, SendUnchanged
  <2>2. overtaken' \in BOOLEAN
    BY <2>1, Zenon
  <2>3. mbim_open_state' \in {FALSE, mbim_pResponse.val = "done", mbim_open_state}
    BY <2>1 DEF Use, mbim_status_code
  <2>4. mbim_open_state' \in BOOLEAN
    BY <2>3, Zenon
  <2>5. iface' \in {iface, TRUE}
    BY <2>1 DEF Use
  <2> QED
    BY <2>1, <2>2, <2>4, <2>5, Zenon
<1>7. CASE MainTest \/ MainLock \/ MainSleep \/ MainTimeout \/ MainDown \/ MainJoin \/ MainJoined
  BY <1>7, Zenon DEF MainTest, MainLock, MainSleep, MainTimeout, MainDown, MainJoin, MainJoined,
                     MainUnchanged
<1>8. CASE ql_sigaction
  BY <1>8, Zenon DEF ql_sigaction
<1>9. CASE MainKill
  BY <1>9, Zenon DEF MainKill
<1>10. CASE PollIn \/ PollHup \/ RecvAnswer \/ RecvFlush
  BY <1>10, Zenon DEF PollIn, PollHup, RecvAnswer, RecvFlush, ReadUnchanged
<1>11. CASE RecvIndication
  BY <1>11, Zenon DEF RecvIndication, ReadUnchanged
<1>12. CASE ReadQuit \/ ReadRelease \/ ReadExit
  BY <1>12, Zenon DEF ReadQuit, ReadRelease, ReadExit, ReadUnchanged
<1>13. CASE UNCHANGED vars
  BY <1>13, Zenon DEF vars
<1> QED
  BY <1>1, <1>2, <1>3, <1>4, <1>5, <1>6, <1>7, <1>8, <1>9, <1>10, <1>11, <1>12, <1>13
  DEF Next, Modem, Main, Command, Reader, Hangup, Words

-----------------------------------------------------------------------------
(* Transaction ids go round, and three in a row differ. *)
LEMMA TidFacts ==
  ASSUME NEW t \in 1 .. MaxTid
  PROVE  /\ (t % MaxTid) + 1 \in 1 .. MaxTid
         /\ Prev((t % MaxTid) + 1) = t
         /\ Prev(t) \in 1 .. MaxTid /\ Prev(t) # t
         /\ Prev(Prev(t)) # t
<1> USE MaxTidAssumption
<1>1. CASE t = MaxTid
  <2>1. t % MaxTid = 0
    BY <1>1
  <2> QED
    BY <1>1, <2>1 DEF Prev
<1>2. CASE t < MaxTid
  <2>1. t % MaxTid = t
    BY <1>2
  <2> QED
    BY <1>2, <2>1 DEF Prev
<1> QED
  BY <1>1, <1>2

(* Every step keeps the places of the two threads and the counter.          *)
LEMMA PlacesKept ==
  ASSUME Flags, Places, [Next]_vars
  PROVE  Places'
<1> USE DEF Places, callVars, slotVars, modemVars
<1>1. CASE Modem
  <2>1. UNCHANGED <<pc, stage, callVars, tpc>> /\ changes' \in {changes, changes + 1}
    BY <1>1 DEF Modem, ModemChanges, ModemActivated, ModemForgets, ModemAnswers, ModemUnchanged,
                Change
  <2> QED
    BY <2>1
<1>2. CASE SendBegin
  <2>1. NextTid \in 1 .. MaxTid
    BY TidFacts DEF NextTid
  <2> QED
    BY <1>2, <2>1 DEF SendBegin, SendUnchanged
<1>3. CASE SendWritten \/ CondTimeout \/ CondSpurious
  BY <1>3 DEF SendWritten, CondTimeout, CondSpurious, SendUnchanged
<1>4. CASE SendFailed
  BY <1>4 DEF SendFailed, SendUnchanged, Failed, Commands, Tests
<1>5. CASE SendReturn
  <2>1. /\ pc' = IF pc = "open" /\ mbim_pResponse.val # "done" THEN "exit" ELSE Then[pc]
        /\ stage' = "idle" /\ UNCHANGED <<TransactionId, session, tpc, changes>>
        /\ pc \in Commands
    BY <1>5 DEF SendReturn, SendUnchanged, Use
  <2> QED
    BY <2>1 DEF Then, Commands, Tests, States
<1>6. CASE MainTest
  <2>1. /\ pc \in Tests /\ pc' = Branch(pc)
        /\ UNCHANGED <<stage, TransactionId, session, tpc, changes>>
    BY <1>6 DEF MainTest, MainUnchanged
  <2>2. stage = "idle"
    BY <2>1 DEF Tests, Commands, States
  <2>3. pc' \in Commands \cup Tests \cup {"down", "towait", "towait1", "ended"}
    BY <2>1 DEF Branch, Tests, Commands, States
  <2> QED
    BY <2>1, <2>2, <2>3
<1>7. CASE MainLock \/ MainSleep \/ MainTimeout \/ MainDown \/ MainJoin \/ MainJoined
  BY <1>7, MaxTidAssumption
  DEF MainLock, MainSleep, MainTimeout, MainDown, MainJoin, MainJoined, MainUnchanged,
      Commands, States, Tests
<1>8. CASE ql_sigaction
  BY <1>8 DEF ql_sigaction, Change, Notify, StateMutexFree, Commands, States, Tests
<1>9. CASE MainKill
  BY <1>9 DEF MainKill, Commands, States
<1>10. CASE PollIn \/ PollHup \/ RecvAnswer \/ RecvFlush
  BY <1>10 DEF PollIn, PollHup, RecvAnswer, RecvFlush, ReadUnchanged, Change, CondSignal
<1>11. CASE RecvIndication
  BY <1>11 DEF RecvIndication, ReadUnchanged, Notify, Commands, States, Tests
<1>12. CASE ReadQuit \/ ReadRelease \/ ReadExit
  BY <1>12 DEF ReadQuit, ReadRelease, ReadExit, ReadUnchanged, Notify, CondSignal, Commands,
               States, Tests
<1>13. CASE UNCHANGED vars
  BY <1>13 DEF vars
<1> QED
  BY <1>1, <1>2, <1>3, <1>4, <1>5, <1>6, <1>7, <1>8, <1>9, <1>10, <1>11, <1>12, <1>13
  DEF Next, Main, Command, Reader, Hangup

-----------------------------------------------------------------------------
(* A message that joins the queue, and one that leaves it. *)
LEMMA ReqsAppend ==
  ASSUME NEW s \in Seq(Message), NEW m \in Message
  PROVE  /\ Reqs(Append(s, m)) = Reqs(s) \cup (IF m.req = NULL THEN {} ELSE {m.req})
         /\ Once(s) /\ m.req \notin Reqs(s) => Once(Append(s, m))
<1> DEFINE t == Append(s, m)
<1>1. /\ Len(s) \in Nat /\ DOMAIN s = 1 .. Len(s) /\ DOMAIN t = 1 .. Len(s) + 1
      /\ \A i \in 1 .. Len(s) : t[i] = s[i]
      /\ t[Len(s) + 1] = m
  BY AppendFacts
<1> HIDE DEF t
<1>2. Reqs(t) = Reqs(s) \cup (IF m.req = NULL THEN {} ELSE {m.req})
  <2>1. ASSUME NEW x \in Reqs(t) PROVE x \in Reqs(s) \cup (IF m.req = NULL THEN {} ELSE {m.req})
    BY <1>1 DEF Reqs
  <2>2. ASSUME NEW x \in Reqs(s) PROVE x \in Reqs(t)
    BY <1>1 DEF Reqs
  <2>3. m.req # NULL => m.req \in Reqs(t)
    BY <1>1 DEF Reqs
  <2> QED
    BY <2>1, <2>2, <2>3
<1>3. Once(s) /\ m.req \notin Reqs(s) => Once(t)
  BY <1>1 DEF Reqs, Once
<1> QED
  BY <1>2, <1>3 DEF t

(* The commands whose answers are in the queue, after its head is taken.    *)
LEMMA ReqsTail ==
  ASSUME NEW s \in Seq(Message), s # <<>>, Once(s)
  PROVE  /\ Head(s).req = NULL => Reqs(Tail(s)) = Reqs(s)
         /\ Head(s).req # NULL => /\ Head(s).req \in Reqs(s)
                                  /\ Reqs(Tail(s)) = Reqs(s) \ {Head(s).req}
         /\ Once(Tail(s))
<1> DEFINE t == Tail(s)
           h == Head(s)
<1>1. /\ Len(s) \in Nat \ {0} /\ DOMAIN s = 1 .. Len(s) /\ DOMAIN t = 1 .. Len(s) - 1
      /\ \A i \in 1 .. Len(s) - 1 : t[i] = s[i + 1]
      /\ h = s[1]
  BY TailFacts
<1> HIDE DEF t, h
<1>2. Once(t)
  BY <1>1 DEF Once
<1>3. ASSUME NEW x \in Reqs(t) PROVE x \in Reqs(s) /\ x # h.req
  BY <1>1 DEF Reqs, Once
<1>4. ASSUME NEW x \in Reqs(s), x # h.req PROVE x \in Reqs(t)
  <2>1. PICK i \in 1 .. Len(s) : s[i].req = x /\ x # NULL
    BY <1>1 DEF Reqs
  <2>2. i # 1 /\ i - 1 \in 1 .. Len(s) - 1 /\ t[i - 1] = s[i]
    BY <1>1, <1>4, <2>1
  <2> QED
    BY <1>1, <2>1, <2>2 DEF Reqs
<1>5. h.req # NULL => h.req \in Reqs(s)
  BY <1>1 DEF Reqs
<1>6. NULL \notin Reqs(s)
  BY DEF Reqs
<1> QED
  BY <1>2, <1>3, <1>4, <1>5, <1>6 DEF t, h

(* The modem sends well-formed messages. *)
LEMMA IndicationSent ==
  ASSUME NEW c \in States, modem' \in KnownState
  PROVE  LET m == [req |-> NULL, cid |-> c, val |-> modem'[c]] IN m \in Message /\ MessageOK(m)
  BY KnownFacts DEF Message, MessageOK, Commands

(* An answer of the modem is about its command.                             *)
LEMMA AnswerSent ==
  ASSUME Flags, Queue, NEW r \in held, NEW v \in Words, ModemAnswers(r, v)
  PROVE  LET m == [req |-> r, cid |-> r.op, val |-> v] IN
           m \in Message /\ MessageOK(m) /\ rx' = Append(rx, m)
<1>1. r \in Request /\ r.op \in Commands /\ r # NULL
  BY NullAssumption DEF Queue, Request
<1>2. Carries(r.op, v)
  BY DEF ModemAnswers
<1>3. /\ StateOf(r.op) # NULL => v \in Known[StateOf(r.op)] \cup {"NOT_OPENED", "failed"}
      /\ r.op = "open" => v # "NOT_OPENED"
  BY <1>1, <1>2, CarriesFacts DEF Queue, Flags
<1>4. rx' = Append(rx, [req |-> r, cid |-> r.op, val |-> v])
  BY DEF ModemAnswers
<1> QED
  BY <1>1, <1>3, <1>4 DEF Message, MessageOK

(* The queue stays well formed when a message is sent, ...                  *)
LEMMA QueueGrows ==
  ASSUME Queue, NEW m \in Message, MessageOK(m), rx' = Append(rx, m)
  PROVE  rx' \in Seq(Message) /\ (\A i \in DOMAIN rx' : MessageOK(rx'[i])) /\ rx' # <<>>
<1>1. /\ rx' \in Seq(Message) /\ rx' # <<>>
      /\ Len(rx) \in Nat /\ DOMAIN rx = 1 .. Len(rx)
      /\ DOMAIN rx' = 1 .. Len(rx) + 1
      /\ \A i \in 1 .. Len(rx) : rx'[i] = rx[i]
      /\ rx'[Len(rx) + 1] = m
  BY AppendFacts DEF Queue
<1>2. \A i \in 1 .. Len(rx) : MessageOK(rx[i])
  BY <1>1 DEF Queue
<1>3. ASSUME NEW i \in DOMAIN rx' PROVE MessageOK(rx'[i])
  <2>1. CASE i = Len(rx) + 1
    BY <1>1, <2>1
  <2>2. CASE i \in 1 .. Len(rx)
    BY <1>1, <1>2, <2>2
  <2> QED
    BY <1>1, <2>1, <2>2
<1> QED
  BY <1>1, <1>3

(* ... and when one is taken.                                               *)
LEMMA QueueShrinks ==
  ASSUME Queue, rx # <<>>, rx' = Tail(rx)
  PROVE  /\ rx' \in Seq(Message) /\ (\A i \in DOMAIN rx' : MessageOK(rx'[i]))
         /\ Head(rx) \in Message /\ MessageOK(Head(rx)) /\ rx[1] = Head(rx) /\ 1 \in DOMAIN rx
<1>1. /\ Len(rx) \in Nat \ {0} /\ DOMAIN rx = 1 .. Len(rx)
      /\ Head(rx) = rx[1] /\ Head(rx) \in Message
      /\ rx' \in Seq(Message) /\ DOMAIN rx' = 1 .. Len(rx) - 1
      /\ \A i \in 1 .. Len(rx) - 1 : rx'[i] = rx[i + 1]
  BY TailFacts DEF Queue
<1>2. \A i \in 1 .. Len(rx) : MessageOK(rx[i])
  BY <1>1 DEF Queue
<1>3. ASSUME NEW i \in DOMAIN rx' PROVE MessageOK(rx'[i])
  <2>1. i + 1 \in 1 .. Len(rx) /\ rx'[i] = rx[i + 1]
    BY <1>1
  <2> QED
    BY <1>2, <2>1
<1> QED
  BY <1>1, <1>2, <1>3

(* Every step keeps the queue.                                              *)
LEMMA QueueKept ==
  ASSUME Flags, Places, Queue, Slot, [Next]_vars
  PROVE  Queue'
<1> USE DEF callVars, slotVars, modemVars
<1> DEFINE Same == UNCHANGED <<rx, modem>>
<1>1. ASSUME Same, held' \in SUBSET Request, tpc' = "read" => tpc = "read" \/ rx # <<>>
      PROVE Queue'
  BY <1>1 DEF Queue
<1>2. ASSUME Same, UNCHANGED held, tpc' = "read" => tpc = "read" PROVE Queue'
  BY <1>1, <1>2 DEF Queue
<1>3. ASSUME modem' \in KnownState, held' \in SUBSET Request, UNCHANGED tpc,
             NEW m \in Message, MessageOK(m), rx' = Append(rx, m)
      PROVE  Queue'
  BY <1>3, QueueGrows DEF Queue
<1>4. ASSUME UNCHANGED <<modem, held>>, tpc = "read", tpc' # "read", rx' = Tail(rx)
      PROVE  Queue'
  BY <1>4, QueueShrinks DEF Queue
<1> HIDE DEF Same
<1>5. ASSUME NEW c \in States, ModemChanges(c) \/ (c = "Activation" /\ ModemActivated) PROVE Queue'
  <2>1. /\ UNCHANGED <<tpc, held, opened>> /\ Indicate(c)
        /\ \E v \in Values[c] \ {"unknown"} : modem' = [modem EXCEPT ![c] = v]
    <3>1. CASE ModemChanges(c)
      BY <3>1 DEF ModemChanges, ModemUnchanged
    <3>2. CASE c = "Activation" /\ ModemActivated
      <4>1. {"up", "down"} \subseteq Values[c] \ {"unknown"}
        BY <3>2 DEF Values
      <4>2. /\ UNCHANGED <<tpc, held, opened>> /\ Indicate(c)
            /\ \E v \in {"up", "down"} : modem' = [modem EXCEPT ![c] = v]
        BY <3>2 DEF ModemActivated, ModemUnchanged
      <4> QED
        BY <4>1, <4>2
    <3> QED
      BY <1>5, <3>1, <3>2
  <2>2. modem' \in KnownState
    <3>1. PICK v \in Values[c] \ {"unknown"} : modem' = [modem EXCEPT ![c] = v]
      BY <2>1
    <3>2. v \in Known[c] /\ modem \in KnownState
      BY KnownFacts DEF Queue
    <3> QED
      BY <3>1, <3>2, ModemSet
  <2>3. CASE opened
    BY <1>3, <2>1, <2>2, <2>3, IndicationSent DEF Queue, Indicate
  <2>4. CASE ~opened
    BY <2>1, <2>2, <2>4 DEF Queue, Indicate
  <2> QED
    BY <2>3, <2>4
<1>6. CASE ModemForgets
  <2>1. modem' \in KnownState
    BY <1>6, ModemSet DEF ModemForgets, Queue, States, Known
  <2> QED
    BY <1>6, <2>1 DEF ModemForgets, ModemUnchanged, Queue
<1>7. ASSUME NEW r \in held, NEW v \in Words, ModemAnswers(r, v) PROVE Queue'
  <2>1. UNCHANGED tpc /\ held' \in SUBSET Request /\ Carries(r.op, v)
    BY <1>7 DEF ModemAnswers, ModemUnchanged, Queue
  <2>2. r.op \in Commands
    BY DEF Queue, Request
  <2>3. modem' \in KnownState
    BY <2>1, <2>2, CarriesFacts DEF Queue, Flags
  <2> QED
    BY <1>3, <1>7, <2>1, <2>3, AnswerSent
<1>8. CASE SendBegin \/ SendFailed \/ SendReturn \/ CondTimeout \/ CondSpurious
  BY <1>2, <1>8 DEF Same, SendBegin, SendFailed, SendReturn, CondTimeout, CondSpurious, SendUnchanged
<1>9. CASE SendWritten
  BY <1>1, <1>9 DEF Same, SendWritten, SendUnchanged, Slot, Queue
<1>10. CASE MainTest \/ MainLock \/ MainSleep \/ MainTimeout \/ MainDown \/ MainJoin \/ MainJoined
  BY <1>2, <1>10 DEF Same, MainTest, MainLock, MainSleep, MainTimeout, MainDown, MainJoin, MainJoined,
                     MainUnchanged
<1>11. CASE ql_sigaction \/ MainKill
  BY <1>2, <1>11 DEF Same, ql_sigaction, MainKill
<1>12. CASE PollIn
  BY <1>1, <1>12 DEF Same, PollIn, ReadUnchanged, Queue
<1>13. CASE PollHup \/ RecvFlush \/ ReadQuit \/ ReadRelease \/ ReadExit
  BY <1>2, <1>13 DEF Same, PollHup, RecvFlush, ReadQuit, ReadRelease, ReadExit, ReadUnchanged
<1>14. CASE RecvAnswer \/ RecvIndication
  BY <1>4, <1>14 DEF RecvAnswer, RecvIndication, ReadUnchanged
<1>15. CASE UNCHANGED vars
  BY <1>2, <1>15 DEF vars, Same
<1> QED
  BY <1>5, <1>6, <1>7, <1>8, <1>9, <1>10, <1>11, <1>12, <1>13, <1>14, <1>15
  DEF Next, Modem, Main, Command, Reader, Hangup, Words, States

-----------------------------------------------------------------------------
(* What is out are commands.                                                *)
LEMMA OutTypes ==
  ASSUME Queue
  PROVE  Out \subseteq Request /\ NULL \notin Out
<1>1. \A i \in DOMAIN rx : rx[i] \in Message
  BY DEF Queue
<1>2. Reqs(rx) \subseteq Request
  BY <1>1 DEF Reqs, Message
<1> QED
  BY <1>2, NullAssumption DEF Out, Queue

(* The answer that mbim_recv_command takes for that of the command in       *)
(* progress is its answer.                                                  *)
LEMMA ResponseIsCall ==
  ASSUME IndInv, rx # <<>>, Head(rx).req # NULL
  PROVE  /\ Head(rx).req \in Out
         /\ IsResponse(Head(rx).req) /\ stage # "write" =>
              Head(rx).req = call /\ stage \notin {"idle", "write"}
<1> DEFINE r == Head(rx).req
<1>1. r \in Reqs(rx)
  BY ReqsTail DEF IndInv, Queue, OutInv
<1>2. r \in Out /\ r \in Request
  BY <1>1, OutTypes DEF Out, IndInv
<1> HIDE DEF r
<1>3. ASSUME IsResponse(r), stage # "write" PROVE r = call /\ stage # "idle"
  <2>1. stage # "idle" /\ mbim_pRequest = call /\ call \in Request /\ r.tid = call.tid
    BY <1>3 DEF IsResponse, IndInv, Slot
  <2>2. call.tid \in 1 .. MaxTid
    BY <2>1 DEF Request
  <2>3. Prev(call.tid) # call.tid /\ Prev(Prev(call.tid)) # call.tid
    BY <2>2, TidFacts
  <2>4. Older(r)
    BY <1>2 DEF IndInv, OutInv
  <2> QED
    BY <2>1, <2>3, <2>4 DEF Older
<1> QED
  BY <1>2, <1>3 DEF r

(* What the use of an answer does. *)
LEMMA UseFacts ==
  ASSUME IndInv, SendReturn
  PROVE  LET v == mbim_pResponse.val IN
         /\ pc \in Commands /\ v \in Words /\ mbim_pResponse.cid = pc
         /\ state' \in AnyState
         /\ iface' \in {iface, TRUE}
         /\ pc # "ip" => iface' = iface
         /\ v \notin {"done", "NOT_OPENED"} => iface' = iface
         /\ pc \in {"Activation", "connect"} /\ v \notin {"NOT_OPENED", "failed"} =>
              state'.Activation = v /\ v \in Known.Activation
         /\ pc \in {"Activation", "connect"} /\ v = "failed" => state'.Activation = state.Activation
         /\ pc \notin {"Activation", "connect", "off", "open"} /\ v # "NOT_OPENED" =>
              state'.Activation = state.Activation
         /\ pc = "open" /\ v = "done" => state' = Unknown
         /\ pc' = IF pc = "open" /\ v # "done" THEN "exit" ELSE Then[pc]
<1> DEFINE v == mbim_pResponse.val
           s == StateOf(pc)
<1>1. /\ stage = "signalled" /\ mbim_pResponse # NULL /\ Use(v)
  BY DEF SendReturn
<1>2. /\ mbim_pResponse \in Message /\ MessageOK(mbim_pResponse)
      /\ call \in Request /\ call.op = pc /\ mbim_pResponse.req = call /\ pc \in Commands
  BY <1>1 DEF IndInv, Slot, Places
<1>3. mbim_pResponse.cid = pc /\ v \in Words
  BY <1>2, NullAssumption DEF MessageOK, Message
<1>4. /\ s # NULL => v \in Known[s] \cup {"NOT_OPENED", "failed"} /\ s \in States
      /\ pc = "open" => v # "NOT_OPENED"
  BY <1>2, <1>3, NullAssumption, KnownFacts DEF MessageOK
<1>5. state \in AnyState
  BY DEF IndInv
<1>9. pc' = IF pc = "open" /\ v # "done" THEN "exit" ELSE Then[pc]
  BY <1>1 DEF Use
<1> HIDE DEF v
<1>6. ASSUME s # NULL, NEW w \in Values[s], state' = [state EXCEPT ![s] = w]
      PROVE  /\ state' \in AnyState
             /\ s = "Activation" => state'.Activation = w
             /\ s # "Activation" => state'.Activation = state.Activation
  BY <1>4, <1>5, <1>6, StateSet
<1> DEFINE
  IfaceUse == /\ iface' \in {iface, TRUE}
              /\ pc # "ip" => iface' = iface
              /\ v \notin {"done", "NOT_OPENED"} => iface' = iface
  StateUse == /\ state' \in AnyState
              /\ pc \in {"Activation", "connect"} /\ v \notin {"NOT_OPENED", "failed"} =>
                   state'.Activation = v /\ v \in Known.Activation
              /\ pc \in {"Activation", "connect"} /\ v = "failed" => state'.Activation = state.Activation
              /\ pc \notin {"Activation", "connect", "off", "open"} /\ v # "NOT_OPENED" =>
                   state'.Activation = state.Activation
              /\ pc = "open" /\ v = "done" => state' = Unknown
<1>7. ASSUME s # NULL PROVE IfaceUse /\ StateUse
  <2>1. iface' = iface /\ pc \notin {"ip", "open"}
    BY <1>1, <1>7 DEF Use, StateOf, States
  <2>2. CASE v = "NOT_OPENED"
    <3>1. \E w \in Values[s] : state' = [state EXCEPT ![s] = w]
      BY <1>1, <1>7, <2>1, <2>2, Zenon DEF Use
    <3>2. state' \in AnyState
      BY <1>6, <1>7, <3>1
    <3> QED
      BY <2>1, <2>2, <3>2
  <2>4. CASE v = "failed"
    BY <1>1, <1>5, <1>7, <2>1, <2>4 DEF Use
  <2>3. CASE v \notin {"NOT_OPENED", "failed"}
    <3>0. v \in Values[s]
      BY <1>4, <1>7, <2>3, KnownFacts
    <3>1. state' = [state EXCEPT ![s] = v]
      BY <1>1, <1>7, <2>1, <2>3, Zenon DEF Use
    <3>2. /\ state' \in AnyState
          /\ s = "Activation" => state'.Activation = v /\ v \in Known.Activation
          /\ s # "Activation" => state'.Activation = state.Activation
      BY <1>4, <1>6, <1>7, <2>3, <3>0, <3>1
    <3>3. /\ pc \in {"Activation", "connect"} => s = "Activation"
          /\ pc \notin {"Activation", "connect", "off", "open"} => s # "Activation"
      BY <1>7 DEF StateOf, States
    <3> QED
      BY <2>1, <2>3, <3>2, <3>3
  <2> QED
    BY <2>2, <2>3, <2>4
<1>8. ASSUME s = NULL PROVE IfaceUse /\ StateUse
  <2>0. "Activation" # NULL
    BY NullAssumption DEF States
  <2>1. pc \notin {"Activation", "connect", "off"}
    BY <1>8, <2>0 DEF StateOf, States
  <2>2. \/ UNCHANGED <<state, iface>> /\ ~(pc = "open" /\ v = "done")
        \/ pc = "ip" /\ iface' \in {iface, TRUE} /\ UNCHANGED state /\ v \in {"done", "NOT_OPENED"}
        \/ pc = "open" /\ v = "done" /\ state' = Unknown /\ UNCHANGED iface
    BY <1>1, <1>8 DEF Use, mbim_reset_state
  <2>3. Unknown \in AnyState
    BY DEF Unknown, AnyState, Values
  <2>4. state' \in AnyState
    BY <1>5, <2>2, <2>3
  <2> QED
    BY <2>1, <2>2, <2>4
<1> QED
  BY <1>2, <1>3, <1>7, <1>8, <1>9, Zenon DEF v

(* Every step leaves the four states of the main thread in their types.     *)
LEMMA StateKept ==
  ASSUME IndInv, [Next]_vars
  PROVE  state' \in AnyState
<1> USE DEF callVars, slotVars, modemVars
<1>0. state \in AnyState
  BY DEF IndInv
<1>1. CASE SendReturn
  BY <1>1, UseFacts
<1>2. CASE RecvIndication
  <2>1. rx # <<>> /\ Head(rx).req = NULL /\ rx' = Tail(rx)
    BY <1>2 DEF RecvIndication, IndInv, Queue
  <2>2. Head(rx).cid \in States /\ Head(rx).val \in Known[Head(rx).cid]
    BY <2>1, QueueShrinks DEF IndInv, MessageOK
  <2>3. Head(rx).val \in Values[Head(rx).cid]
    BY <2>2, KnownFacts
  <2> QED
    BY <1>0, <1>2, <2>2, <2>3, StateSet DEF RecvIndication
<1>3. CASE UNCHANGED state
  BY <1>0, <1>3
<1>4. CASE Modem
  BY <1>3, <1>4 DEF Modem, ModemChanges, ModemActivated, ModemForgets, ModemAnswers, ModemUnchanged
<1>5. CASE SendBegin \/ SendWritten \/ SendFailed \/ CondTimeout \/ CondSpurious
  BY <1>3, <1>5 DEF SendBegin, SendWritten, SendFailed, CondTimeout, CondSpurious
<1>6. CASE MainTest \/ MainLock \/ MainSleep \/ MainTimeout \/ MainDown \/ MainJoin \/ MainJoined
  BY <1>3, <1>6 DEF MainTest, MainLock, MainSleep, MainTimeout, MainDown, MainJoin, MainJoined,
                    MainUnchanged
<1>7. CASE ql_sigaction \/ MainKill \/ PollIn \/ PollHup \/ RecvAnswer \/ RecvFlush
  BY <1>3, <1>7 DEF ql_sigaction, MainKill, PollIn, PollHup, RecvAnswer, RecvFlush
<1>8. CASE ReadQuit \/ ReadRelease \/ ReadExit
  BY <1>3, <1>8 DEF ReadQuit, ReadRelease, ReadExit
<1>9. CASE UNCHANGED vars
  BY <1>3, <1>9 DEF vars
<1> QED
  BY <1>1, <1>2, <1>4, <1>5, <1>6, <1>7, <1>8, <1>9 DEF Next, Main, Command, Reader, Hangup

-----------------------------------------------------------------------------
(* A step that is no part of a command leaves the place of a main thread    *)
(* alone that is in one.                                                    *)
LEMMA PcInCommand ==
  ASSUME Places, stage # "idle"
  PROVE  pc \notin Tests \cup {"wait", "wait1", "locked", "locked1", "towait", "towait1", "down",
                               "stuck", "kill", "join", "joining"}
  BY DEF Places, Commands, States, Tests

(* Every step leaves in the slot the command in progress and no answer but  *)
(* its own.                                                                 *)
LEMMA SlotKept ==
  ASSUME IndInv, [Next]_vars
  PROVE  Slot'
<1> USE DEF callVars, slotVars, modemVars
<1>0. Places /\ Slot /\ Queue
  BY DEF IndInv
<1>1. ASSUME UNCHANGED <<stage, call, answer, slotVars>>, stage # "idle" => UNCHANGED pc
      PROVE  Slot'
  BY <1>0, <1>1 DEF Slot
<1>2. CASE Modem
  BY <1>1, <1>2 DEF Modem, ModemChanges, ModemActivated, ModemForgets, ModemAnswers, ModemUnchanged
<1>3. CASE SendBegin
  <2>1. [tid |-> TransactionId, op |-> pc, session |-> session] \in Request
    BY <1>0, <1>3 DEF SendBegin, Places, Request
  <2> QED
    BY <1>3, <2>1 DEF SendBegin, Slot
<1>4. CASE SendWritten \/ CondTimeout \/ CondSpurious
  BY <1>0, <1>4 DEF SendWritten, CondTimeout, CondSpurious, Slot
<1>5. CASE SendFailed
  BY <1>0, <1>5 DEF SendFailed, Slot
<1>6. CASE SendReturn
  BY <1>0, <1>6 DEF SendReturn, Slot
<1>7. CASE MainTest \/ MainLock \/ MainSleep \/ MainTimeout \/ MainDown \/ MainJoin \/ MainJoined
  BY <1>0, <1>1, <1>7, PcInCommand
  DEF MainTest, MainLock, MainSleep, MainTimeout, MainDown, MainJoin, MainJoined, MainUnchanged
<1>8. CASE ql_sigaction \/ MainKill
  BY <1>0, <1>1, <1>8, PcInCommand DEF ql_sigaction, MainKill, StateMutexFree, Notify
<1>9. CASE PollIn \/ PollHup \/ RecvFlush \/ ReadQuit
  BY <1>1, <1>9 DEF PollIn, PollHup, RecvFlush, ReadQuit, ReadUnchanged
<1>10. CASE RecvIndication \/ ReadExit
  <2>1. /\ UNCHANGED <<stage, call, answer, slotVars>>
        /\ UNCHANGED pc \/ Notify
    BY <1>10 DEF RecvIndication, ReadExit, ReadUnchanged
  <2> QED
    BY <1>0, <1>1, <2>1, PcInCommand DEF Notify
<1>11. CASE ReadRelease
  BY <1>0, <1>11 DEF ReadRelease, ReadUnchanged, CondSignal, Slot
<1>12. CASE RecvAnswer
  <2>1. /\ rx # <<>> /\ rx' = Tail(rx) /\ stage # "write"
        /\ UNCHANGED <<pc, call, answer, mbim_pRequest>>
    BY <1>0, <1>12 DEF RecvAnswer, MutexFree, ReadUnchanged, Queue
  <2>2. Head(rx) \in Message /\ MessageOK(Head(rx))
    BY <1>0, <2>1, QueueShrinks
  <2>3. CASE IsResponse(Head(rx).req)
    <3>1. Head(rx).req = call /\ stage \notin {"idle", "write"}
      BY <2>1, <2>3, ResponseIsCall DEF IsResponse
    <3>2. mbim_pResponse' \in {Head(rx), NULL} /\ stage' \notin {"idle", "write"}
      BY <1>12, <2>3, <3>1 DEF RecvAnswer, CondSignal
    <3> QED
      BY <1>0, <2>1, <2>2, <3>1, <3>2 DEF Slot
  <2>4. CASE ~IsResponse(Head(rx).req)
    BY <1>1, <1>12, <2>1, <2>4 DEF RecvAnswer
  <2> QED
    BY <2>3, <2>4
<1>13. CASE UNCHANGED vars
  BY <1>1, <1>13 DEF vars
<1> QED
  BY <1>2, <1>3, <1>4, <1>5, <1>6, <1>7, <1>8, <1>9, <1>10, <1>11, <1>12, <1>13
  DEF Next, Main, Command, Reader, Hangup

(* The modem moves commands from held to the queue of answers. *)
LEMMA ModemOut ==
  ASSUME IndInv, Modem
  PROVE  Out' = Out /\ Once(rx') /\ held' \cap Reqs(rx') = {}
<1> USE DEF callVars, slotVars, modemVars
<1>0. Queue /\ Flags /\ Once(rx) /\ held \cap Reqs(rx) = {} /\ rx \in Seq(Message)
  BY DEF IndInv, OutInv, Queue
<1>1. CASE UNCHANGED <<held, rx>>
  BY <1>0, <1>1 DEF Out
<1>2. ASSUME UNCHANGED held, NEW c \in States,
             rx' = Append(rx, [req |-> NULL, cid |-> c, val |-> modem'[c]]), modem' \in KnownState
      PROVE  Out' = Out /\ Once(rx') /\ held' \cap Reqs(rx') = {}
  <2> DEFINE m == [req |-> NULL, cid |-> c, val |-> modem'[c]]
  <2>1. m \in Message /\ m.req = NULL
    BY <1>2, IndicationSent
  <2>2. NULL \notin Reqs(rx)
    BY DEF Reqs
  <2> HIDE DEF m
  <2>3. rx' = Append(rx, m)
    BY <1>2 DEF m
  <2>4. Reqs(rx') = Reqs(rx) /\ Once(rx')
    BY <1>0, <2>1, <2>2, <2>3, ReqsAppend
  <2> QED
    BY <1>0, <1>2, <2>4 DEF Out
<1>3. modem' \in KnownState
  BY QueueKept DEF IndInv, Next, Queue
<1>4. ASSUME NEW c \in States, ModemChanges(c)
      PROVE  Out' = Out /\ Once(rx') /\ held' \cap Reqs(rx') = {}
  BY <1>1, <1>2, <1>3, <1>4 DEF ModemChanges, Indicate
<1>5. CASE ModemActivated
  BY <1>1, <1>2, <1>3, <1>5 DEF ModemActivated, Indicate, States
<1>6. CASE ModemForgets
  BY <1>1, <1>6 DEF ModemForgets
<1>7. ASSUME NEW r \in held, NEW v \in Words, ModemAnswers(r, v)
      PROVE  Out' = Out /\ Once(rx') /\ held' \cap Reqs(rx') = {}
  <2> DEFINE m == [req |-> r, cid |-> r.op, val |-> v]
  <2>1. m \in Message /\ m.req = r /\ rx' = Append(rx, m)
    BY <1>0, <1>7, AnswerSent
  <2> HIDE DEF m
  <2>2. r # NULL /\ r \notin Reqs(rx)
    BY <1>0, NullAssumption DEF Queue
  <2>3. Reqs(rx') = Reqs(rx) \cup {r} /\ Once(rx')
    BY <1>0, <2>1, <2>2, ReqsAppend
  <2>4. held' = held \ {r}
    BY <1>7 DEF ModemAnswers
  <2> QED
    BY <1>0, <2>3, <2>4 DEF Out
<1> QED
  BY <1>4, <1>5, <1>6, <1>7 DEF Modem, Words

(* A step that sends nothing and does not go back into the loop.            *)
LEMMA OutFrame ==
  ASSUME IndInv, Out' \subseteq Out, UNCHANGED <<call, TransactionId>>,
         Once(rx'), held' \cap Reqs(rx') = {},
         mbim_pResponse' # NULL => call \notin Out',
         stage' = stage \/ (stage \notin {"idle", "write"} /\ stage' \notin {"idle", "write"}),
         \/ pc' = pc
         \/ stage = "idle" /\ pc \notin Shutdown \cup Over
         \/ stage = "idle" /\ pc' \in Over
  PROVE  OutInv'
<1>1. \A r \in Out' : Older(r)'
  BY DEF IndInv, OutInv, Older, Shutdown
<1> QED
  BY <1>1 DEF IndInv, OutInv

(* A message that the reader thread takes. *)
LEMMA ReaderOut ==
  ASSUME IndInv, tpc = "read", rx' = Tail(rx), UNCHANGED held
  PROVE  /\ Once(rx') /\ held' \cap Reqs(rx') = {}
         /\ Head(rx).req = NULL => Out' = Out
         /\ Head(rx).req # NULL => Head(rx).req \in Out /\ Out' = Out \ {Head(rx).req}
<1>1. rx \in Seq(Message) /\ rx # <<>> /\ Once(rx) /\ held \cap Reqs(rx) = {}
  BY DEF IndInv, Queue, OutInv
<1>2. /\ Once(rx')
      /\ Head(rx).req = NULL => Reqs(rx') = Reqs(rx)
      /\ Head(rx).req # NULL => /\ Head(rx).req \in Reqs(rx)
                                /\ Reqs(rx') = Reqs(rx) \ {Head(rx).req}
  BY <1>1, ReqsTail
<1> QED
  BY <1>1, <1>2 DEF Out

(* Every step keeps OutInv.                                                 *)
LEMMA OutKept ==
  ASSUME IndInv, [Next]_vars
  PROVE  OutInv'
<1> USE DEF callVars, slotVars, modemVars
<1>0. /\ Places /\ Slot /\ Queue /\ OutInv
      /\ Once(rx) /\ held \cap Reqs(rx) = {}
  BY DEF IndInv, OutInv
<1> DEFINE StageSame == stage' = stage \/ (stage \notin {"idle", "write"} /\ stage' \notin {"idle", "write"})
           PcSame == \/ pc' = pc
                     \/ stage = "idle" /\ pc \notin Shutdown \cup Over
                     \/ stage = "idle" /\ pc' \in Over
<1>1. ASSUME UNCHANGED <<held, rx, call, TransactionId, mbim_pResponse>>, StageSame, PcSame
      PROVE  OutInv'
  <2>1. Out' = Out /\ Once(rx') /\ held' \cap Reqs(rx') = {}
    BY <1>0, <1>1 DEF Out
  <2> QED
    BY <1>0, <1>1, <2>1, OutFrame DEF OutInv
<1> HIDE DEF StageSame, PcSame
<1>2. CASE Modem
  <2>1. UNCHANGED <<call, TransactionId, stage, pc, mbim_pResponse>>
    BY <1>2 DEF Modem, ModemChanges, ModemActivated, ModemForgets, ModemAnswers, ModemUnchanged
  <2>2. Out' = Out /\ Once(rx') /\ held' \cap Reqs(rx') = {}
    BY <1>2, ModemOut
  <2> QED
    BY <1>0, <2>1, <2>2, OutFrame DEF OutInv
<1>3. CASE SendBegin
  <2>1. /\ stage = "idle" /\ stage' = "write" /\ pc \in Commands /\ pc' = pc
        /\ call'.tid = TransactionId /\ TransactionId' = (TransactionId % MaxTid) + 1
        /\ UNCHANGED <<held, rx>> /\ mbim_pResponse' = NULL
    BY <1>3 DEF SendBegin, SendUnchanged, NextTid
  <2>2. TransactionId = Prev(TransactionId')
    BY <1>0, <2>1, TidFacts DEF Places
  <2>3. Out' = Out
    BY <2>1 DEF Out
  <2>4. \A r \in Out : Older(r) => Older(r)'
    BY <2>1 DEF Older, Commands, States, Over
  <2> QED
    BY <1>0, <2>1, <2>2, <2>3, <2>4 DEF OutInv
<1>4. CASE SendWritten
  <2>1. /\ stage = "write" /\ stage' = "wait" /\ held' = held \cup {call}
        /\ UNCHANGED <<pc, call, TransactionId, rx, mbim_pResponse>>
        /\ call \in Request /\ mbim_pResponse = NULL
    BY <1>0, <1>4 DEF SendWritten, SendUnchanged, Slot
  <2>2. call.tid \in 1 .. MaxTid
    BY <2>1 DEF Request
  <2>3. Prev(call.tid) # call.tid /\ Prev(Prev(call.tid)) # call.tid
    BY <2>2, TidFacts
  <2>4. call \notin Out
    BY <1>0, <2>1, <2>3 DEF OutInv, Older
  <2>5. Out' = Out \cup {call} /\ held' \cap Reqs(rx') = {}
    BY <1>0, <2>1, <2>4 DEF Out
  <2>6. \A r \in Out' : Older(r)'
    BY <1>0, <2>1, <2>5 DEF OutInv, Older
  <2> QED
    BY <1>0, <2>1, <2>5, <2>6 DEF OutInv
<1>5. CASE SendFailed
  <2>1. /\ stage # "idle" /\ stage' = "idle" /\ pc' = Failed /\ pc \in Commands
        /\ UNCHANGED <<call, TransactionId, rx, held>> /\ mbim_pResponse' = NULL
        /\ call.tid = Prev(TransactionId)
    BY <1>0, <1>5 DEF SendFailed, SendUnchanged, Places, OutInv
  <2>2. Out' = Out
    BY <2>1 DEF Out
  <2>3. \A r \in Out : Older(r) => Older(r)'
    BY <2>1 DEF Older, Failed, Over
  <2> QED
    BY <1>0, <2>1, <2>2, <2>3 DEF OutInv
<1>6. CASE SendReturn
  <2>1. /\ stage = "signalled" /\ stage' = "idle" /\ pc \in Commands
        /\ UNCHANGED <<call, TransactionId, rx, held>> /\ mbim_pResponse' = NULL
        /\ call.tid = Prev(TransactionId) /\ call \notin Out
    BY <1>0, <1>6 DEF SendReturn, SendUnchanged, Places, OutInv
  <2>2. Out' = Out
    BY <2>1 DEF Out
  <2>3. (pc = "off" => pc' = "close") /\ (pc = "close" => pc' = "kill")
    BY <1>6, UseFacts DEF Then
  <2>4. \A r \in Out : Older(r) => Older(r)'
    BY <2>1, <2>3 DEF Older, Over
  <2> QED
    BY <1>0, <2>1, <2>2, <2>4 DEF OutInv
<1>7. CASE CondTimeout \/ CondSpurious
  BY <1>1, <1>7 DEF CondTimeout, CondSpurious, SendUnchanged, StageSame, PcSame
<1>8. CASE MainTest
  <2>1. /\ pc \in Tests /\ pc' = Branch(pc)
        /\ UNCHANGED <<stage, call, TransactionId, rx, held, mbim_pResponse>>
    BY <1>8 DEF MainTest, MainUnchanged
  <2>2. stage = "idle"
    BY <1>0, <2>1, PcInCommand
  <2>3. CASE pc # "exit"
    BY <1>1, <2>1, <2>2, <2>3 DEF StageSame, PcSame, Tests, Shutdown, Over
  <2>4. CASE pc = "exit"
    <3>1. pc' \in {"off", "close", "ended"}
      BY <2>1, <2>4 DEF Branch
    <3>2. Out' = Out
      BY <2>1 DEF Out
    <3>3. \A r \in Out : Older(r) => Older(r)'
      BY <2>1, <2>2, <2>4, <3>1 DEF Older, Over
    <3> QED
      BY <1>0, <2>1, <2>2, <3>2, <3>3 DEF OutInv
  <2> QED
    BY <2>3, <2>4
<1>9. CASE MainDown
  <2>1. /\ pc = "down" /\ UNCHANGED <<stage, call, rx, held, mbim_pResponse>>
    BY <1>9 DEF MainDown, MainUnchanged
  <2>2. stage = "idle"
    BY <1>0, <2>1, PcInCommand
  <2>3. Out = {} /\ Out' = Out
    BY <1>0, <2>1, <2>2 DEF Out, OutInv, Older, Over
  <2> QED
    BY <1>0, <2>1, <2>2, <2>3 DEF OutInv
<1>10. CASE MainLock \/ MainSleep \/ MainTimeout \/ MainJoin \/ MainJoined \/ MainKill
  <2>1. /\ pc \in {"towait", "towait1", "locked", "locked1", "wait", "wait1", "join", "joining", "kill"}
        /\ pc \in {"join", "joining", "kill"} => pc' \in Over
        /\ UNCHANGED <<stage, call, TransactionId, rx, held, mbim_pResponse>>
    BY <1>10 DEF MainLock, MainSleep, MainTimeout, MainJoin, MainJoined, MainKill, MainUnchanged, Over
  <2>2. stage = "idle"
    BY <1>0, <2>1, PcInCommand
  <2> QED
    BY <1>1, <2>1, <2>2 DEF StageSame, PcSame, Shutdown, Over
<1>11. CASE ql_sigaction \/ ReadExit
  <2>1. /\ UNCHANGED <<stage, call, TransactionId, rx, held, mbim_pResponse>>
        /\ \/ Notify
           \/ pc \in {"locked", "locked1", "stuck"} /\ pc' = "stuck"
    BY <1>11 DEF ql_sigaction, ReadExit, ReadUnchanged, StateMutexFree
  <2> QED
    BY <1>0, <1>1, <2>1, PcInCommand DEF StageSame, PcSame, Shutdown, Over, Notify
<1>12. CASE PollIn \/ PollHup \/ RecvFlush \/ ReadQuit \/ ReadRelease
  BY <1>1, <1>12 DEF PollIn, PollHup, RecvFlush, ReadQuit, ReadRelease, ReadUnchanged, CondSignal,
                     StageSame, PcSame
<1>13. CASE RecvIndication
  <2>1. /\ tpc = "read" /\ Head(rx).req = NULL /\ rx' = Tail(rx)
        /\ UNCHANGED <<held, stage, call, TransactionId, mbim_pResponse>>
        /\ UNCHANGED pc \/ Notify
    BY <1>13 DEF RecvIndication, ReadUnchanged
  <2>2. Out' = Out /\ Once(rx') /\ held' \cap Reqs(rx') = {}
    BY <2>1, ReaderOut
  <2>3. pc' = pc \/ (stage = "idle" /\ pc \notin Shutdown \cup Over)
    BY <1>0, <2>1, PcInCommand DEF Notify, Shutdown, Over
  <2> QED
    BY <1>0, <2>1, <2>2, <2>3, OutFrame DEF OutInv
<1>14. CASE RecvAnswer
  <2>1. /\ tpc = "read" /\ rx' = Tail(rx) /\ stage # "write"
        /\ UNCHANGED <<held, call, TransactionId, pc>>
        /\ Head(rx).req # NULL /\ rx # <<>>
    BY <1>0, <1>14 DEF RecvAnswer, ReadUnchanged, MutexFree, IsResponse, Queue
  <2>2. /\ Once(rx') /\ held' \cap Reqs(rx') = {} /\ Out' = Out \ {Head(rx).req}
    BY <2>1, ReaderOut
  <2>3. StageSame
    BY <1>14, <2>1 DEF RecvAnswer, CondSignal, StageSame
  <2>4. mbim_pResponse' # NULL => call \notin Out'
    BY <1>0, <1>14, <2>1, <2>2, ResponseIsCall DEF RecvAnswer, OutInv
  <2> QED
    BY <2>1, <2>2, <2>3, <2>4, OutFrame DEF StageSame
<1>15. CASE UNCHANGED vars
  BY <1>1, <1>15 DEF vars, StageSame, PcSame
<1> QED
  BY <1>2, <1>3, <1>4, <1>5, <1>6, <1>7, <1>8, <1>9, <1>10, <1>11, <1>12, <1>13, <1>14, <1>15
  DEF Next, Main, Command, Reader, Hangup

-----------------------------------------------------------------------------
(* The parts of the inductive invariant hold together. *)
LEMMA Inductive == Spec => []IndInv
<1>1. Init => IndInv
  <2> SUFFICES ASSUME Init PROVE IndInv
    OBVIOUS
  <2> USE DEF Init
  <2>1. Flags
    BY Zenon DEF Flags
  <2>2. Places
    BY MaxTidAssumption DEF Places, Tests, Commands
  <2>3. Queue
    BY DEF Queue, KnownState, Known
  <2>4. Slot
    BY DEF Slot
  <2>5. state \in AnyState
    BY DEF AnyState, Values, Unknown
  <2>6. Out = {} /\ Once(rx) /\ held \cap Reqs(rx) = {}
    BY DEF Out, Reqs, Once
  <2>7. OutInv
    BY <2>6 DEF OutInv
  <2> QED
    BY <2>1, <2>2, <2>3, <2>4, <2>5, <2>7 DEF IndInv
<1>2. IndInv /\ [Next]_vars => IndInv'
  <2> SUFFICES ASSUME IndInv, [Next]_vars PROVE IndInv'
    OBVIOUS
  <2>1. Flags /\ Places /\ Queue /\ Slot
    BY DEF IndInv
  <2> QED
    BY <2>1, FlagsKept, PlacesKept, QueueKept, SlotKept, StateKept, OutKept DEF IndInv
<1> QED
  BY <1>1, <1>2, PTL DEF Spec

(* Every variable of mbim-cm.c's two threads keeps its type. *)
THEOREM TypeCorrect == Spec => []TypeOK
<1>1. IndInv => TypeOK
  <2> SUFFICES ASSUME IndInv PROVE TypeOK
    OBVIOUS
  <2>1. Flags /\ Places /\ Queue /\ Slot /\ state \in AnyState
    BY DEF IndInv
  <2>2. \A i \in DOMAIN rx : rx[i].req \in Request \cup {NULL}
    <3>1. \A i \in DOMAIN rx : rx[i] \in Message
      BY <2>1 DEF Queue
    <3> QED
      BY <3>1 DEF Message
  <2>3. mbim_pResponse # NULL => mbim_pResponse.req \in Request
    BY <2>1 DEF Slot
  <2>4. mbim_pRequest \in Request \cup {NULL}
    BY <2>1 DEF Slot
  <2>5. modem \in AnyState /\ held \in SUBSET Request
    BY <2>1, KnownFacts DEF Queue
  <2> QED
    BY <2>1, <2>2, <2>3, <2>4, <2>5 DEF TypeOK, Flags, Places, Slot
<1> QED
  BY <1>1, Inductive, PTL

-----------------------------------------------------------------------------
(* What QmiCall sees of the two threads: the phase of the command, the      *)
(* commands that are out, and the answer that is kept.                      *)
Kept == IF mbim_pResponse = NULL THEN NULL ELSE mbim_pResponse.req

(* The steps of QmiCall in terms of the two threads.                        *)
LEMMA SeenAs ==
  /\ Rendezvous!vars = <<Phase, call, answer, Kept, Out>>
  /\ UNCHANGED <<Phase, call, answer, Kept, Out>> => UNCHANGED Rendezvous!vars
  /\ Phase = "none" /\ Phase' = "new" /\ call' \in Request /\ answer' = NULL /\ Kept' = NULL
       /\ Out' = Out => Rendezvous!Begin
  /\ Phase = "new" /\ Phase' = "sent" /\ Out' = Out \cup {call}
       /\ UNCHANGED <<call, answer, Kept>> => Rendezvous!Send
  /\ Phase # "new" /\ call \in Out /\ Out' = Out \ {call} /\ Kept' \in {call, NULL}
       /\ UNCHANGED <<Phase, call, answer>> => Rendezvous!Reply
  /\ (\E r \in Out : Out' = Out \ {r}) /\ UNCHANGED <<Phase, call, answer, Kept>>
       => Rendezvous!Ignore
  /\ Phase # "none" /\ Phase' = "none" /\ answer' \in {Kept, NULL} /\ Kept' = NULL
       /\ UNCHANGED <<call, Out>> => Rendezvous!Return
<1> USE DEF Out, Reqs, Kept
<1>1. Rendezvous!vars = <<Phase, call, answer, Kept, Out>>
  BY Zenon DEF Rendezvous!vars
<1>2. UNCHANGED <<Phase, call, answer, Kept, Out>> => UNCHANGED Rendezvous!vars
  BY DEF Rendezvous!vars
<1>3. Phase = "none" /\ Phase' = "new" /\ call' \in Request /\ answer' = NULL /\ Kept' = NULL
       /\ Out' = Out => Rendezvous!Begin
  BY DEF Rendezvous!Begin
<1>4. Phase = "new" /\ Phase' = "sent" /\ Out' = Out \cup {call}
       /\ UNCHANGED <<call, answer, Kept>> => Rendezvous!Send
  BY DEF Rendezvous!Send
<1>5. Phase # "new" /\ call \in Out /\ Out' = Out \ {call} /\ Kept' \in {call, NULL}
       /\ UNCHANGED <<Phase, call, answer>> => Rendezvous!Reply
  BY DEF Rendezvous!Reply
<1>6. (\E r \in Out : Out' = Out \ {r}) /\ UNCHANGED <<Phase, call, answer, Kept>>
       => Rendezvous!Ignore
  BY DEF Rendezvous!Ignore
<1>7. Phase # "none" /\ Phase' = "none" /\ answer' \in {Kept, NULL} /\ Kept' = NULL
       /\ UNCHANGED <<call, Out>> => Rendezvous!Return
  BY DEF Rendezvous!Return
<1> QED
  BY <1>1, <1>2, <1>3, <1>4, <1>5, <1>6, <1>7

(* A step of mbim_send_command is a step of a call of QmiCall. *)
LEMMA CommandRefines ==
  ASSUME IndInv, Command
  PROVE  Rendezvous!Next
<1> USE DEF callVars, slotVars, Phase
<1>0. Slot /\ Places /\ OutInv
  BY DEF IndInv
<1>1. CASE SendBegin
  <2>1. Slot'
    BY <1>1, SlotKept DEF Next, Main, Command
  <2>2. stage' = "write" /\ stage = "idle" /\ answer' = NULL /\ UNCHANGED <<held, rx>>
        /\ mbim_pResponse' = NULL
    BY <1>1 DEF SendBegin, SendUnchanged
  <2>3. call' \in Request
    BY <2>1, <2>2 DEF Slot
  <2> QED
    BY <2>2, <2>3, SeenAs DEF Kept, Out, Rendezvous!Next
<1>2. CASE SendWritten
  <2>1. /\ stage = "write" /\ stage' = "wait" /\ held' = held \cup {call}
        /\ UNCHANGED <<call, answer, mbim_pResponse, rx>>
    BY <1>2 DEF SendWritten, SendUnchanged
  <2> QED
    BY <2>1, SeenAs DEF Kept, Out, Rendezvous!Next
<1>3. CASE SendFailed \/ SendReturn
  <2>1. /\ stage # "idle" /\ stage' = "idle" /\ mbim_pResponse' = NULL
        /\ UNCHANGED <<call, held, rx>>
        /\ answer' \in {Kept, NULL}
    BY <1>0, <1>3 DEF SendFailed, SendReturn, SendUnchanged, Kept, Slot
  <2> QED
    BY <2>1, SeenAs DEF Kept, Out, Rendezvous!Next
<1> QED
  BY <1>1, <1>2, <1>3 DEF Command

(* The reader thread answers the call of QmiCall or ignores an answer. *)
LEMMA ReaderRefines ==
  ASSUME IndInv, RecvAnswer
  PROVE  Rendezvous!Next
<1> USE DEF callVars, slotVars, Phase
<1>1. /\ tpc = "read" /\ rx' = Tail(rx) /\ stage # "write" /\ rx # <<>>
      /\ UNCHANGED <<held, call, answer>> /\ Head(rx).req # NULL
  BY DEF RecvAnswer, ReadUnchanged, MutexFree, IsResponse, IndInv, Queue
<1>2. Head(rx).req \in Out /\ Out' = Out \ {Head(rx).req}
  BY <1>1, ReaderOut
<1>3. CASE IsResponse(Head(rx).req)
  <2>1. Head(rx).req = call /\ stage \notin {"idle", "write"}
    BY <1>1, <1>3, ResponseIsCall
  <2>2. mbim_pResponse' \in {Head(rx), NULL} /\ stage' \notin {"idle", "write"}
    BY <1>3, <2>1 DEF RecvAnswer, CondSignal
  <2> QED
    BY <1>1, <1>2, <2>1, <2>2, SeenAs DEF Kept, Rendezvous!Next
<1>4. CASE ~IsResponse(Head(rx).req)
  <2>1. UNCHANGED <<mbim_pResponse, stage>>
    BY <1>4 DEF RecvAnswer
  <2> QED
    BY <1>1, <1>2, <2>1, SeenAs DEF Kept, Rendezvous!Next
<1> QED
  BY <1>3, <1>4

(* Nothing else is seen by a caller. *)
LEMMA OthersStutter ==
  ASSUME IndInv, [Next]_vars, ~Command, ~RecvAnswer
  PROVE  UNCHANGED Rendezvous!vars
<1> USE DEF callVars, slotVars, modemVars
<1>1. ASSUME UNCHANGED <<call, answer, mbim_pResponse>>, Out' = Out, UNCHANGED Phase
      PROVE  UNCHANGED Rendezvous!vars
  BY <1>1, SeenAs DEF Kept
<1>2. ASSUME UNCHANGED <<call, answer, mbim_pResponse, held, rx>>,
             stage' = stage \/ (stage = "wait" /\ stage' \in {"signalled", "expired"})
      PROVE  UNCHANGED Rendezvous!vars
  BY <1>1, <1>2 DEF Out, Phase
<1>3. CASE Modem
  <2>1. UNCHANGED <<call, answer, mbim_pResponse, stage>>
    BY <1>3 DEF Modem, ModemChanges, ModemActivated, ModemForgets, ModemAnswers, ModemUnchanged
  <2> QED
    BY <1>1, <1>3, <2>1, ModemOut DEF Phase
<1>4. CASE CondTimeout \/ CondSpurious
  BY <1>2, <1>4 DEF CondTimeout, CondSpurious, SendUnchanged
<1>5. CASE MainTest \/ MainLock \/ MainSleep \/ MainTimeout \/ MainDown \/ MainJoin \/ MainJoined
  BY <1>2, <1>5 DEF MainTest, MainLock, MainSleep, MainTimeout, MainDown, MainJoin, MainJoined,
                    MainUnchanged
<1>6. CASE ql_sigaction \/ MainKill
  BY <1>2, <1>6 DEF ql_sigaction, MainKill
<1>7. CASE PollIn \/ PollHup \/ RecvFlush \/ ReadQuit \/ ReadRelease \/ ReadExit
  BY <1>2, <1>7 DEF PollIn, PollHup, RecvFlush, ReadQuit, ReadRelease, ReadExit, ReadUnchanged,
                    CondSignal
<1>8. CASE RecvIndication
  <2>1. /\ tpc = "read" /\ rx' = Tail(rx) /\ Head(rx).req = NULL
        /\ UNCHANGED <<held, call, answer, mbim_pResponse, stage>>
    BY <1>8 DEF RecvIndication, ReadUnchanged
  <2> QED
    BY <1>1, <2>1, ReaderOut DEF Phase
<1>9. CASE UNCHANGED vars
  BY <1>2, <1>9 DEF vars
<1> QED
  BY <1>3, <1>4, <1>5, <1>6, <1>7, <1>8, <1>9 DEF Next, Main, Reader, Hangup

(* mbim_send_command and the reader thread implement QmiCall: a command     *)
(* gets the modem's one answer to it, or none, although the ids start from  *)
(* 1 again with every open and the shutdown sends commands while earlier    *)
(* ones are unanswered.                                                     *)
THEOREM Refinement == Spec => ImplementsQmiCall
<1>1. Init => Rendezvous!Init
  BY DEF Init, Rendezvous!Init, Phase
<1>2. IndInv /\ [Next]_vars => [Rendezvous!Next]_(Rendezvous!vars)
  BY CommandRefines, ReaderRefines, OthersStutter
<1> QED
  BY <1>1, <1>2, Inductive, PTL DEF Spec, ImplementsQmiCall, Rendezvous!Spec

-----------------------------------------------------------------------------
(* LinkFollowsCall.  What is told of a call can only fall, "going" before   *)
(* "up" before "down", until the next connect or open: what the threads     *)
(* note is never below what the modem says later.  A connect that was      *)
(* answered without information is none.                                    *)
Rank(v) == IF v = "down" THEN 0 ELSE IF v = "up" THEN 1 ELSE IF v = "going" THEN 2 ELSE 3
Info(m) == m.cid \in {"Activation", "connect"} /\ m.val \notin {"NOT_OPENED", "failed"}
Refusal(m) == m.cid = "connect" /\ m.val = "failed"
Barrier(m) == m.cid \in {"open", "connect"} /\ ~Refusal(m)
Drop(m) == m.req = NULL /\ m.cid = "Activation" /\ m.val = "down"
IpDone(m) == m.cid = "ip" /\ m.val = "done"

FallsTo(s, v) ==
  \A i \in DOMAIN s : Info(s[i]) /\ (\A j \in DOMAIN s : j > i => ~Barrier(s[j])) =>
    /\ Rank(v) <= Rank(s[i].val)
    /\ \A j \in DOMAIN s : j > i /\ Info(s[j]) => Rank(s[j].val) <= Rank(s[i].val)
Above(w, s, v) ==
  /\ Rank(v) <= Rank(w)
  /\ \A i \in DOMAIN s : Info(s[i]) => Rank(s[i].val) <= Rank(w)
Dropping(s) == \E i \in DOMAIN s : Drop(s[i])
IpAnswers(s) == \E i \in DOMAIN s : IpDone(s[i])
Refusing(s) == \E i \in DOMAIN s : Refusal(s[i])

(* An address that is on its way belongs to a call that is up, or whose end *)
(* is behind it.                                                            *)
IpInOrder(s, v) ==
  \A i \in DOMAIN s : IpDone(s[i]) =>
    /\ v = "up" \/ \E j \in DOMAIN s : j > i /\ Drop(s[j])
    /\ \A j \in DOMAIN s : j < i => ~Drop(s[j])

Activation == modem.Activation
Looping == pc \notin Shutdown \cup Over
Fine == opened /\ ~overtaken /\ Looping /\ pc # "open"

Falls == opened => FallsTo(rx, Activation)

NoRefusal ==
  Looping /\ opened => /\ \A i \in DOMAIN rx : rx[i].val # "NOT_OPENED"
                       /\ mbim_pResponse # NULL => mbim_pResponse.val # "NOT_OPENED"

(* No connect has been carried out since the state of the call was noted. *)
Settled == \/ pc # "connect" \/ stage \in {"idle", "write"} \/ call \in held \/ Refusing(rx)
           \/ mbim_pResponse # NULL /\ Refusal(mbim_pResponse)

Addressed == iface => Activation = "up" \/ Dropping(rx) \/ tpc = "flush"
Unaddressed == /\ pc \in {"connect", "Activation"} => ~iface \/ (stage = "idle" /\ tpc = "flush")
               /\ state.Activation \in {"down", "unknown"} => ~iface \/ tpc = "flush"
Noted == /\ Settled => Above(state.Activation, rx, Activation)
         /\ mbim_pResponse # NULL /\ Info(mbim_pResponse) =>
              Above(mbim_pResponse.val, rx, Activation)
Addressing ==
  /\ pc = "ip" => state.Activation \in {"up", "down"}
  /\ IpInOrder(rx, Activation)
  /\ mbim_pResponse # NULL /\ IpDone(mbim_pResponse) => Activation = "up" \/ Dropping(rx)
  /\ IpAnswers(rx) \/ (mbim_pResponse # NULL /\ IpDone(mbim_pResponse)) =>
       state.Activation # "down"

LinkInv ==
  /\ Falls /\ NoRefusal
  /\ pc = "open" => ~iface
  /\ Fine => Addressed /\ Unaddressed /\ Noted /\ Addressing

(* The four values in their order.                                          *)
LEMMA RankFacts ==
  /\ \A v : Rank(v) \in 0 .. 3
  /\ Rank("down") = 0 /\ Rank("up") = 1 /\ Rank("going") = 2 /\ Rank("unknown") = 3
  BY DEF Rank

(* A message m joins the queue, and the state of the call falls from v to w *)
(* or starts anew.                                                          *)
LEMMA LinkAppend ==
  ASSUME NEW s \in Seq(Message), NEW m \in Message, NEW v, NEW w
  PROVE  LET t == Append(s, m) IN
         /\ FallsTo(s, v) /\ ~Barrier(m) /\ Rank(w) <= Rank(v) /\ (Info(m) => m.val = w)
              => FallsTo(t, w)
         /\ Barrier(m) /\ (Info(m) => m.val = w) => FallsTo(t, w)
         /\ \A x : Above(x, s, v) /\ Rank(w) <= Rank(v) /\ (Info(m) => m.val = w)
              => Above(x, t, w)
         /\ Dropping(s) \/ Drop(m) => Dropping(t)
         /\ IpAnswers(t) => IpAnswers(s) \/ IpDone(m)
         /\ Refusing(t) => Refusing(s) \/ Refusal(m)
         /\ IpInOrder(s, v) /\ (v = "up" => w = "up" \/ Drop(m))
              /\ (IpDone(m) => w = "up" /\ ~Dropping(s)) => IpInOrder(t, w)
<1> DEFINE t == Append(s, m)
           n == Len(s)
<1>1. /\ n \in Nat /\ DOMAIN s = 1 .. n /\ DOMAIN t = 1 .. n + 1
      /\ \A i \in 1 .. n : t[i] = s[i]
      /\ t[n + 1] = m
  BY AppendFacts
<1> HIDE DEF t, n
<1>2. ASSUME FallsTo(s, v), ~Barrier(m), Rank(w) <= Rank(v), Info(m) => m.val = w
      PROVE  FallsTo(t, w)
  <2> SUFFICES ASSUME NEW i \in DOMAIN t, Info(t[i]),
                      \A j \in DOMAIN t : j > i => ~Barrier(t[j])
               PROVE  /\ Rank(w) <= Rank(t[i].val)
                      /\ \A j \in DOMAIN t : j > i /\ Info(t[j]) => Rank(t[j].val) <= Rank(t[i].val)
    BY DEF FallsTo
  <2>1. CASE i = n + 1
    BY <1>1, <1>2, <2>1, RankFacts
  <2>2. CASE i \in 1 .. n
    <3>1. /\ Info(s[i]) /\ t[i] = s[i]
          /\ \A j \in 1 .. n : j > i => ~Barrier(s[j])
      BY <1>1, <2>2
    <3>2. /\ Rank(v) <= Rank(s[i].val)
          /\ \A j \in 1 .. n : j > i /\ Info(s[j]) => Rank(s[j].val) <= Rank(s[i].val)
      BY <1>1, <1>2, <2>2, <3>1 DEF FallsTo
    <3>3. Rank(w) <= Rank(s[i].val)
      BY <1>2, <3>2, RankFacts
    <3>4. ASSUME NEW j \in DOMAIN t, j > i, Info(t[j]) PROVE Rank(t[j].val) <= Rank(s[i].val)
      <4>1. CASE j = n + 1
        BY <1>1, <1>2, <3>3, <3>4, <4>1
      <4>2. CASE j \in 1 .. n
        BY <1>1, <3>2, <3>4, <4>2
      <4> QED
        BY <1>1, <4>1, <4>2
    <3> QED
      BY <3>1, <3>3, <3>4
  <2> QED
    BY <1>1, <2>1, <2>2
<1>3. ASSUME Barrier(m), Info(m) => m.val = w PROVE FallsTo(t, w)
  <2> SUFFICES ASSUME NEW i \in DOMAIN t, Info(t[i]),
                      \A j \in DOMAIN t : j > i => ~Barrier(t[j])
               PROVE  /\ Rank(w) <= Rank(t[i].val)
                      /\ \A j \in DOMAIN t : j > i /\ Info(t[j]) => Rank(t[j].val) <= Rank(t[i].val)
    BY DEF FallsTo
  <2>1. i = n + 1
    BY <1>1, <1>3
  <2> QED
    BY <1>1, <1>3, <2>1, RankFacts
<1>4. ASSUME NEW x, Above(x, s, v), Rank(w) <= Rank(v), Info(m) => m.val = w
      PROVE  Above(x, t, w)
  <2>1. Rank(w) <= Rank(x)
    BY <1>4, RankFacts DEF Above
  <2>2. ASSUME NEW i \in DOMAIN t, Info(t[i]) PROVE Rank(t[i].val) <= Rank(x)
    <3>1. CASE i = n + 1
      BY <1>1, <1>4, <2>1, <2>2, <3>1
    <3>2. CASE i \in 1 .. n
      BY <1>1, <1>4, <2>2, <3>2 DEF Above
    <3> QED
      BY <1>1, <3>1, <3>2
  <2> QED
    BY <2>1, <2>2 DEF Above
<1>5. Dropping(s) \/ Drop(m) => Dropping(t)
  <2>1. CASE Drop(m)
    BY <1>1, <2>1 DEF Dropping
  <2>2. ASSUME NEW i \in 1 .. n, Drop(s[i]) PROVE Dropping(t)
    BY <1>1, <2>2 DEF Dropping
  <2> QED
    BY <1>1, <2>1, <2>2 DEF Dropping
<1>6. IpAnswers(t) => IpAnswers(s) \/ IpDone(m)
  <2> SUFFICES ASSUME NEW i \in DOMAIN t, IpDone(t[i]) PROVE IpAnswers(s) \/ IpDone(m)
    BY DEF IpAnswers
  <2>1. CASE i = n + 1
    BY <1>1, <2>1
  <2>2. CASE i \in 1 .. n
    BY <1>1, <2>2 DEF IpAnswers
  <2> QED
    BY <1>1, <2>1, <2>2
<1>7. ASSUME IpInOrder(s, v), v = "up" => w = "up" \/ Drop(m),
             IpDone(m) => w = "up" /\ ~Dropping(s)
      PROVE  IpInOrder(t, w)
  <2> SUFFICES ASSUME NEW i \in DOMAIN t, IpDone(t[i])
               PROVE  /\ w = "up" \/ \E j \in DOMAIN t : j > i /\ Drop(t[j])
                      /\ \A j \in DOMAIN t : j < i => ~Drop(t[j])
    BY DEF IpInOrder
  <2>1. CASE i = n + 1
    <3>1. w = "up" /\ ~Dropping(s)
      BY <1>1, <1>7, <2>1
    <3>2. \A j \in 1 .. n : ~Drop(t[j])
      BY <1>1, <3>1 DEF Dropping
    <3> QED
      BY <1>1, <2>1, <3>1, <3>2
  <2>2. CASE i \in 1 .. n
    <3>1. /\ v = "up" \/ \E j \in 1 .. n : j > i /\ Drop(s[j])
          /\ \A j \in 1 .. n : j < i => ~Drop(s[j])
      BY <1>1, <1>7, <2>2 DEF IpInOrder
    <3>2. \A j \in DOMAIN t : j < i => ~Drop(t[j])
      BY <1>1, <2>2, <3>1
    <3>3. w = "up" \/ \E j \in DOMAIN t : j > i /\ Drop(t[j])
      <4>1. CASE v = "up" /\ Drop(m)
        BY <1>1, <2>2, <4>1
      <4>2. ASSUME NEW j \in 1 .. n, j > i, Drop(s[j]) PROVE \E k \in DOMAIN t : k > i /\ Drop(t[k])
        BY <1>1, <4>2
      <4> QED
        BY <1>7, <3>1, <4>1, <4>2
    <3> QED
      BY <3>2, <3>3
  <2> QED
    BY <1>1, <2>1, <2>2
<1>8. Refusing(t) => Refusing(s) \/ Refusal(m)
  <2> SUFFICES ASSUME NEW i \in DOMAIN t, Refusal(t[i]) PROVE Refusing(s) \/ Refusal(m)
    BY DEF Refusing
  <2>1. CASE i = n + 1
    BY <1>1, <2>1
  <2>2. CASE i \in 1 .. n
    BY <1>1, <2>2 DEF Refusing
  <2> QED
    BY <1>1, <2>1, <2>2
<1> QED
  BY <1>2, <1>3, <1>4, <1>5, <1>6, <1>7, <1>8 DEF t

(* The reader thread takes the first message of the queue. *)
LEMMA LinkTail ==
  ASSUME NEW s \in Seq(Message), s # <<>>, NEW v
  PROVE  LET t == Tail(s)  h == Head(s) IN
         /\ FallsTo(s, v) => FallsTo(t, v)
         /\ FallsTo(s, v) /\ Info(h) /\ (\A i \in DOMAIN s : i > 1 => ~Barrier(s[i]))
              => Above(h.val, t, v)
         /\ \A x : Above(x, s, v) => Above(x, t, v)
         /\ Dropping(s) /\ ~Drop(h) => Dropping(t)
         /\ IpAnswers(t) => IpAnswers(s)
         /\ IpDone(h) => IpAnswers(s)
         /\ Refusing(t) \/ Refusal(h) => Refusing(s)
         /\ IpInOrder(s, v) => IpInOrder(t, v)
         /\ IpInOrder(s, v) /\ IpDone(h) => v = "up" \/ Dropping(t)
         /\ IpInOrder(s, v) /\ Drop(h) => ~IpAnswers(t)
<1> DEFINE t == Tail(s)
           h == Head(s)
           n == Len(s)
<1>1. /\ n \in Nat \ {0} /\ DOMAIN s = 1 .. n /\ DOMAIN t = 1 .. n - 1
      /\ \A i \in 1 .. n - 1 : t[i] = s[i + 1] /\ i + 1 \in 1 .. n
      /\ h = s[1] /\ 1 \in 1 .. n
  BY TailFacts
<1>2. \A i \in 1 .. n : i > 1 => i - 1 \in 1 .. n - 1 /\ t[i - 1] = s[i]
  BY <1>1
<1> HIDE DEF t, h, n
<1>3. FallsTo(s, v) => FallsTo(t, v)
  <2> SUFFICES ASSUME FallsTo(s, v), NEW i \in DOMAIN t, Info(t[i]),
                      \A j \in DOMAIN t : j > i => ~Barrier(t[j])
               PROVE  /\ Rank(v) <= Rank(t[i].val)
                      /\ \A j \in DOMAIN t : j > i /\ Info(t[j]) => Rank(t[j].val) <= Rank(t[i].val)
    BY DEF FallsTo
  <2>1. t[i] = s[i + 1] /\ i + 1 \in 1 .. n /\ i \in 1 .. n - 1
    BY <1>1
  <2>2. ASSUME NEW j \in 1 .. n, j > i + 1 PROVE ~Barrier(s[j])
    <3>1. j - 1 \in DOMAIN t /\ t[j - 1] = s[j] /\ j - 1 > i
      BY <1>1, <1>2, <2>1, <2>2
    <3> QED
      BY <3>1
  <2>3. /\ Rank(v) <= Rank(s[i + 1].val)
        /\ \A j \in 1 .. n : j > i + 1 /\ Info(s[j]) => Rank(s[j].val) <= Rank(s[i + 1].val)
    BY <1>1, <2>1, <2>2 DEF FallsTo
  <2>4. ASSUME NEW j \in DOMAIN t, j > i, Info(t[j]) PROVE Rank(t[j].val) <= Rank(t[i].val)
    <3>1. t[j] = s[j + 1] /\ j + 1 \in 1 .. n /\ j + 1 > i + 1
      BY <1>1, <2>1, <2>4
    <3> QED
      BY <2>1, <2>3, <2>4, <3>1
  <2> QED
    BY <2>1, <2>3, <2>4
<1>4. FallsTo(s, v) /\ Info(h) /\ (\A i \in DOMAIN s : i > 1 => ~Barrier(s[i]))
        => Above(h.val, t, v)
  <2> SUFFICES ASSUME FallsTo(s, v), Info(s[1]), \A i \in DOMAIN s : i > 1 => ~Barrier(s[i])
               PROVE  Above(s[1].val, t, v)
    BY <1>1
  <2>1. /\ Rank(v) <= Rank(s[1].val)
        /\ \A j \in DOMAIN s : j > 1 /\ Info(s[j]) => Rank(s[j].val) <= Rank(s[1].val)
    BY <1>1 DEF FallsTo
  <2>2. ASSUME NEW i \in DOMAIN t, Info(t[i]) PROVE Rank(t[i].val) <= Rank(s[1].val)
    <3>1. t[i] = s[i + 1] /\ i + 1 \in DOMAIN s /\ i + 1 > 1
      BY <1>1
    <3> QED
      BY <2>1, <2>2, <3>1
  <2> QED
    BY <2>1, <2>2 DEF Above
<1>5. ASSUME NEW x, Above(x, s, v) PROVE Above(x, t, v)
  BY <1>1, <1>5 DEF Above
<1>6. ASSUME Dropping(s), ~Drop(h) PROVE Dropping(t)
  <2>1. PICK i \in 1 .. n : Drop(s[i])
    BY <1>1, <1>6 DEF Dropping
  <2>2. i > 1
    BY <1>1, <1>6, <2>1
  <2> QED
    BY <1>1, <1>2, <2>1, <2>2 DEF Dropping
<1>7. (IpAnswers(t) => IpAnswers(s)) /\ (IpDone(h) => IpAnswers(s))
  BY <1>1 DEF IpAnswers
<1>8. IpInOrder(s, v) => IpInOrder(t, v)
  <2> SUFFICES ASSUME IpInOrder(s, v), NEW i \in DOMAIN t, IpDone(t[i])
               PROVE  /\ v = "up" \/ \E j \in DOMAIN t : j > i /\ Drop(t[j])
                      /\ \A j \in DOMAIN t : j < i => ~Drop(t[j])
    BY DEF IpInOrder
  <2>1. t[i] = s[i + 1] /\ i + 1 \in 1 .. n /\ i \in 1 .. n - 1
    BY <1>1
  <2>2. /\ v = "up" \/ \E j \in 1 .. n : j > i + 1 /\ Drop(s[j])
        /\ \A j \in 1 .. n : j < i + 1 => ~Drop(s[j])
    BY <1>1, <2>1 DEF IpInOrder
  <2>3. ASSUME NEW j \in 1 .. n, j > i + 1, Drop(s[j]) PROVE \E k \in DOMAIN t : k > i /\ Drop(t[k])
    <3>1. j - 1 \in DOMAIN t /\ t[j - 1] = s[j] /\ j - 1 > i
      BY <1>1, <1>2, <2>1, <2>3
    <3> QED
      BY <2>3, <3>1
  <2>4. ASSUME NEW j \in DOMAIN t, j < i PROVE ~Drop(t[j])
    <3>1. t[j] = s[j + 1] /\ j + 1 \in 1 .. n /\ j + 1 < i + 1
      BY <1>1, <2>1, <2>4
    <3> QED
      BY <2>2, <3>1
  <2> QED
    BY <2>2, <2>3, <2>4
<1>9. ASSUME IpInOrder(s, v), IpDone(h) PROVE v = "up" \/ Dropping(t)
  <2>1. v = "up" \/ \E j \in 1 .. n : j > 1 /\ Drop(s[j])
    BY <1>1, <1>9 DEF IpInOrder
  <2> QED
    BY <1>1, <1>2, <2>1 DEF Dropping
<1>10. ASSUME IpInOrder(s, v), Drop(h) PROVE ~IpAnswers(t)
  <2> SUFFICES ASSUME NEW i \in DOMAIN t, IpDone(t[i]) PROVE FALSE
    BY DEF IpAnswers
  <2>1. t[i] = s[i + 1] /\ i + 1 \in 1 .. n /\ 1 < i + 1 /\ 1 \in 1 .. n
    BY <1>1
  <2>2. \A j \in 1 .. n : j < i + 1 => ~Drop(s[j])
    BY <1>1, <1>10, <2>1 DEF IpInOrder
  <2> QED
    BY <1>1, <1>10, <2>1, <2>2
<1>11. Refusing(t) \/ Refusal(h) => Refusing(s)
  BY <1>1 DEF Refusing
<1> QED
  BY <1>3, <1>4, <1>5, <1>6, <1>7, <1>8, <1>9, <1>10, <1>11 DEF t, h

-----------------------------------------------------------------------------
(* While the loop runs, the command in progress is the only one that is out *)
(* and nothing is out once its answer is in the slot.                       *)
LEMMA OnlyCall ==
  ASSUME IndInv, Looping
  PROVE  /\ \A r \in Out : /\ r = call /\ stage \notin {"idle", "write"} /\ r.op = pc
                           /\ mbim_pResponse = NULL
         /\ \A i \in DOMAIN rx :
              /\ rx[i].req # NULL => /\ rx[i].req \in Out /\ rx[i].cid = pc
                                     /\ rx[i].req \notin held
              /\ Barrier(rx[i]) => rx[i].req # NULL /\ pc \in {"open", "connect"}
              /\ Refusal(rx[i]) => rx[i].req # NULL
              /\ IpDone(rx[i]) => rx[i].req # NULL /\ pc = "ip"
              /\ rx[i].req = NULL => rx[i].cid \in States /\ rx[i].val \in Known[rx[i].cid]
         /\ mbim_pResponse # NULL => mbim_pResponse.cid = pc /\ mbim_pResponse.req = call
<1>0. Slot /\ OutInv /\ Places /\ Queue
  BY DEF IndInv
<1>1. ASSUME NEW r \in Out
      PROVE  r = call /\ stage \notin {"idle", "write"} /\ r.op = pc /\ mbim_pResponse = NULL
  <2>1. Older(r)
    BY <1>0 DEF OutInv
  <2>2. stage \notin {"idle", "write"} /\ r = call
    BY <2>1 DEF Older, Looping, Shutdown
  <2> QED
    BY <1>0, <2>2 DEF Slot, OutInv
<1>2. ASSUME NEW i \in DOMAIN rx
      PROVE  /\ rx[i].req # NULL => rx[i].req \in Out /\ rx[i].cid = pc /\ rx[i].req \notin held
             /\ Barrier(rx[i]) => rx[i].req # NULL /\ pc \in {"open", "connect"}
             /\ Refusal(rx[i]) => rx[i].req # NULL
             /\ IpDone(rx[i]) => rx[i].req # NULL /\ pc = "ip"
             /\ rx[i].req = NULL => rx[i].cid \in States /\ rx[i].val \in Known[rx[i].cid]
  <2>1. MessageOK(rx[i])
    BY <1>0 DEF Queue
  <2>2. ASSUME rx[i].req # NULL
        PROVE  rx[i].req \in Out /\ rx[i].cid = pc /\ rx[i].req \notin held
    <3>1. rx[i].req \in Reqs(rx)
      BY <2>2 DEF Reqs
    <3> QED
      BY <1>0, <1>1, <2>1, <2>2, <3>1 DEF Out, OutInv, MessageOK
  <2>3. rx[i].req = NULL => rx[i].cid \in States /\ rx[i].val \in Known[rx[i].cid]
    BY <2>1 DEF MessageOK
  <2> QED
    BY <2>2, <2>3 DEF Barrier, Refusal, IpDone, States
<1>3. ASSUME mbim_pResponse # NULL PROVE mbim_pResponse.cid = pc /\ mbim_pResponse.req = call
  <2>1. mbim_pResponse.req = call /\ MessageOK(mbim_pResponse) /\ stage # "idle"
        /\ call \in Request /\ call.op = pc
    BY <1>0, <1>3 DEF Slot
  <2> QED
    BY <2>1, NullAssumption DEF MessageOK
<1> QED
  BY <1>1, <1>2, <1>3

(* Nothing lifts the state of the call before the next connect. *)
LEMMA SettledFacts ==
  ASSUME IndInv, Looping, pc # "open", Settled, mbim_pResponse = NULL
  PROVE  \A i \in DOMAIN rx : ~Barrier(rx[i])
<1> SUFFICES ASSUME NEW i \in DOMAIN rx, Barrier(rx[i]) PROVE FALSE
  OBVIOUS
<1>1. /\ rx[i].req \in Out /\ rx[i].req = call /\ rx[i].req # NULL /\ rx[i].req \notin held
      /\ pc = "connect" /\ stage \notin {"idle", "write"}
  BY OnlyCall
<1>2. PICK j \in DOMAIN rx : Refusal(rx[j])
  BY <1>1 DEF Settled, Refusing
<1>3. rx[j].req = call
  BY <1>2, OnlyCall
<1>4. i = j
  BY <1>1, <1>3 DEF IndInv, OutInv, Once
<1> QED
  BY <1>2, <1>4 DEF Barrier

(* The modem tells of a change. *)
LEMMA LinkIndication ==
  ASSUME IndInv, LinkInv, opened, UNCHANGED <<opened, held>>, ModemUnchanged,
         NEW c \in States, NEW m \in Message, m.req = NULL, m.cid = c, m.val \in Known[c],
         rx' = Append(rx, m),
         Rank(Activation') <= Rank(Activation),
         c # "Activation" => Activation' = Activation,
         c = "Activation" => m.val = Activation' /\ Activation' \in {"down", "up"},
         c = "Activation" /\ Activation' = "up" => Activation # "up"
  PROVE  LinkInv'
<1> USE DEF callVars, slotVars
<1>0. /\ rx \in Seq(Message)
      /\ UNCHANGED <<pc, stage, state, tpc, iface, overtaken, opened, mbim_pResponse, call>>
  BY DEF IndInv, Queue, ModemUnchanged
<1>1. /\ ~Barrier(m) /\ ~IpDone(m) /\ ~Refusal(m) /\ (Info(m) => m.val = Activation')
      /\ Drop(m) <=> c = "Activation" /\ Activation' = "down"
      /\ m.val # "NOT_OPENED"
  BY DEF Barrier, Refusal, IpDone, Info, Drop, States, Known
<1>2. Activation = "up" => Activation' = "up" \/ Drop(m)
  BY <1>1
<1>3. FallsTo(rx', Activation')
  BY <1>0, <1>1, LinkAppend DEF LinkInv, Falls
<1>4. NoRefusal'
  <2>1. /\ Len(rx) \in Nat /\ DOMAIN rx = 1 .. Len(rx) /\ DOMAIN rx' = 1 .. Len(rx) + 1
        /\ \A i \in 1 .. Len(rx) : rx'[i] = rx[i]
        /\ rx'[Len(rx) + 1] = m
    BY <1>0, AppendFacts
  <2>2. Looping => \A i \in 1 .. Len(rx) : rx[i].val # "NOT_OPENED"
    BY <2>1 DEF LinkInv, NoRefusal
  <2>3. ASSUME Looping, NEW i \in DOMAIN rx' PROVE rx'[i].val # "NOT_OPENED"
    <3>1. CASE i = Len(rx) + 1
      BY <1>1, <2>1, <3>1
    <3>2. CASE i \in 1 .. Len(rx)
      BY <2>1, <2>2, <2>3, <3>2
    <3> QED
      BY <2>1, <3>1, <3>2
  <2> QED
    BY <1>0, <2>3 DEF LinkInv, NoRefusal, Looping
<1>5. ASSUME Fine PROVE Addressed' /\ Unaddressed' /\ Noted' /\ Addressing'
  <2>0. Addressed /\ Unaddressed /\ Noted /\ Addressing
    BY <1>5 DEF LinkInv
  <2>1. Addressed'
    <3>1. Activation = "up" \/ Dropping(rx) => Activation' = "up" \/ Dropping(rx')
      BY <1>0, <1>2, LinkAppend
    <3> QED
      BY <1>0, <2>0, <3>1 DEF Addressed
  <2>2. Unaddressed'
    BY <1>0, <2>0 DEF Unaddressed
  <2>3. Noted'
    <3>1. \A x : Above(x, rx, Activation) => Above(x, rx', Activation')
      BY <1>0, <1>1, LinkAppend
    <3>2. Refusing(rx') => Refusing(rx)
      BY <1>0, <1>1, LinkAppend
    <3>3. Settled' => Settled
      BY <1>0, <3>2 DEF Settled
    <3> QED
      BY <1>0, <2>0, <3>1, <3>3 DEF Noted
  <2>4. Addressing'
    <3>1. IpInOrder(rx', Activation')
      BY <1>0, <1>1, <1>2, <2>0, LinkAppend DEF Addressing
    <3>2. IpAnswers(rx') => IpAnswers(rx)
      BY <1>0, <1>1, LinkAppend
    <3>3. Activation = "up" \/ Dropping(rx) => Activation' = "up" \/ Dropping(rx')
      BY <1>0, <1>2, LinkAppend
    <3> QED
      BY <1>0, <2>0, <3>1, <3>2, <3>3 DEF Addressing
  <2> QED
    BY <2>1, <2>2, <2>3, <2>4
<1> QED
  BY <1>0, <1>3, <1>4, <1>5 DEF LinkInv, Falls, Fine, Looping

(* A command is answered. *)
LEMMA LinkAnswer ==
  ASSUME IndInv, LinkInv, opened', NEW r \in held, NEW v \in Words, ModemAnswers(r, v)
  PROVE  LinkInv'
<1> USE DEF callVars, slotVars
<1> DEFINE m == [req |-> r, cid |-> r.op, val |-> v]
<1>0. /\ rx \in Seq(Message) /\ Flags /\ Queue /\ modem \in KnownState
      /\ UNCHANGED <<pc, stage, state, tpc, iface, overtaken, mbim_pResponse, call>>
      /\ Carries(r.op, v) /\ held' = held \ {r}
  BY DEF IndInv, Queue, ModemAnswers, ModemUnchanged
<1>1. /\ m \in Message /\ rx' = Append(rx, m) /\ m.req = r /\ m.cid = r.op /\ m.val = v
      /\ r \in Out /\ r # NULL /\ r.op \in Commands
  BY <1>0, AnswerSent, NullAssumption DEF Out, Queue, Request
<1> HIDE DEF m
<1>2. /\ r.op \notin {"connect", "off"} => Activation' = Activation
      /\ r.op = "connect" /\ v \notin {"NOT_OPENED", "failed"} => Activation' = v
      /\ r.op = "connect" /\ v = "failed" => Activation' = Activation
      /\ r.op = "Activation" /\ v \notin {"NOT_OPENED", "failed"} => Activation = v
      /\ r.op = "off" => Activation' \in {"down", Activation}
      /\ r.op = "ip" /\ v = "done" => Activation = "up"
      /\ r.op # "open" => opened /\ v # "NOT_OPENED"
      /\ r.op = "open" => v # "NOT_OPENED"
  BY <1>0, <1>1, CarriesFacts DEF Flags, Activation
<1>3. ~Drop(m)
  BY <1>1 DEF Drop
<1>4. r.op = "off" => Rank(Activation') <= Rank(Activation)
  BY <1>2, RankFacts
<1>5. FallsTo(rx', Activation')
  <2>1. CASE r.op = "open" \/ (r.op = "connect" /\ v # "failed")
    BY <1>0, <1>1, <1>2, <2>1, LinkAppend DEF Barrier, Refusal, Info
  <2>2. CASE r.op # "open" /\ (r.op = "connect" => v = "failed")
    <3>1. FallsTo(rx, Activation) /\ ~Barrier(m) /\ (Info(m) => m.val = Activation')
      BY <1>1, <1>2, <2>2 DEF LinkInv, Falls, Barrier, Refusal, Info
    <3>2. Rank(Activation') <= Rank(Activation)
      BY <1>2, <1>4, <2>2, RankFacts
    <3> QED
      BY <1>0, <1>1, <3>1, <3>2, LinkAppend
  <2> QED
    BY <2>1, <2>2
<1>6. NoRefusal'
  <2> SUFFICES ASSUME Looping
               PROVE  /\ \A i \in DOMAIN rx' : rx'[i].val # "NOT_OPENED"
                      /\ mbim_pResponse' # NULL => mbim_pResponse'.val # "NOT_OPENED"
    BY <1>0 DEF NoRefusal, Looping
  <2>1. /\ Len(rx) \in Nat /\ DOMAIN rx = 1 .. Len(rx) /\ DOMAIN rx' = 1 .. Len(rx) + 1
        /\ \A i \in 1 .. Len(rx) : rx'[i] = rx[i]
        /\ rx'[Len(rx) + 1] = m
    BY <1>0, <1>1, AppendFacts
  <2>2. mbim_pResponse = NULL
    BY <1>1, OnlyCall
  <2>3. ASSUME NEW i \in 1 .. Len(rx) PROVE rx[i].val # "NOT_OPENED"
    <3>1. CASE r.op # "open"
      BY <1>2, <2>1, <3>1 DEF LinkInv, NoRefusal
    <3>2. CASE rx[i].req = NULL
      BY <2>1, <3>2, OnlyCall DEF States, Known
    <3>3. rx[i].req = NULL
      BY <1>1, <2>1, OnlyCall
    <3> QED
      BY <3>1, <3>2, <3>3
  <2>4. ASSUME NEW i \in DOMAIN rx' PROVE rx'[i].val # "NOT_OPENED"
    <3>1. CASE i = Len(rx) + 1
      BY <1>1, <1>2, <2>1, <3>1
    <3>2. CASE i \in 1 .. Len(rx)
      BY <2>1, <2>3, <3>2
    <3> QED
      BY <2>1, <3>1, <3>2
  <2> QED
    BY <1>0, <2>2, <2>4
<1>7. ASSUME Fine' PROVE Addressed' /\ Unaddressed' /\ Noted' /\ Addressing'
  <2>1. /\ Looping /\ pc # "open" /\ r.op = pc /\ stage \notin {"idle", "write"}
        /\ mbim_pResponse = NULL /\ r = call
    BY <1>0, <1>1, <1>7, OnlyCall DEF Fine, Looping
  <2>2. Fine /\ opened
    BY <1>0, <1>2, <1>7, <2>1 DEF Fine, Looping
  <2>3. Addressed /\ Unaddressed /\ Noted /\ Addressing
    BY <2>2 DEF LinkInv
  <2>4. pc # "off"
    BY <2>1 DEF Looping, Shutdown
  <2>5. Unaddressed'
    BY <1>0, <2>3 DEF Unaddressed
  <2>6. CASE pc = "connect" /\ v # "failed"
    <3>0. ~Settled'
      <4>1. ~Refusing(rx)
        BY <1>1, <2>1, OnlyCall DEF Refusing
      <4>2. ~Refusing(rx')
        BY <1>0, <1>1, <2>6, <4>1, LinkAppend DEF Refusal
      <4> QED
        BY <1>0, <2>1, <2>6, <4>2 DEF Settled
    <3>1. ~iface /\ ~IpAnswers(rx)
      BY <2>1, <2>3, <2>6, OnlyCall DEF Unaddressed, IpAnswers
    <3>2. ~IpAnswers(rx') /\ ~IpDone(m)
      BY <1>0, <1>1, <2>1, <2>6, <3>1, LinkAppend DEF IpDone
    <3>3. IpInOrder(rx', Activation')
      BY <3>2 DEF IpInOrder, IpAnswers
    <3> QED
      BY <1>0, <2>1, <2>5, <2>6, <3>0, <3>1, <3>2, <3>3 DEF Addressed, Noted, Addressing
  <2>7. CASE pc = "connect" => v = "failed"
    <3>0. Above(state.Activation, rx, Activation)
      BY <1>0, <2>1, <2>3 DEF Noted, Settled
    <3>1. Activation' = Activation /\ (Info(m) => m.val = Activation)
      BY <1>1, <1>2, <2>1, <2>4, <2>7 DEF Info
    <3>2. Rank(Activation') <= Rank(Activation)
      BY <3>1, RankFacts
    <3>3. IpDone(m) => Activation = "up" /\ ~Dropping(rx) /\ state.Activation # "down"
      <4> SUFFICES ASSUME IpDone(m)
                   PROVE  Activation = "up" /\ ~Dropping(rx) /\ state.Activation # "down"
        OBVIOUS
      <4>1. pc = "ip" /\ Activation = "up"
        BY <1>1, <1>2, <2>1 DEF IpDone
      <4>2. state.Activation # "down"
        BY <3>0, <4>1, RankFacts DEF Above
      <4>3. ASSUME NEW i \in DOMAIN rx, Drop(rx[i]) PROVE FALSE
        <5>1. Info(rx[i]) /\ rx[i].val = "down"
          BY <4>3 DEF Drop, Info
        <5>2. \A j \in DOMAIN rx : ~Barrier(rx[j])
          BY <2>1, <4>1, OnlyCall
        <5>3. Rank("up") <= Rank("down")
          BY <2>2, <4>1, <5>1, <5>2 DEF LinkInv, Falls, FallsTo
        <5> QED
          BY <5>3, RankFacts
      <4> QED
        BY <4>1, <4>2, <4>3 DEF Dropping
    <3>4. Addressed'
      BY <1>0, <1>1, <2>3, <3>1, LinkAppend DEF Addressed
    <3>5. Noted'
      BY <1>0, <1>1, <2>1, <3>0, <3>1, <3>2, LinkAppend DEF Noted
    <3>6. IpInOrder(rx', Activation') /\ (IpAnswers(rx') => state.Activation # "down")
      BY <1>0, <1>1, <2>3, <3>1, <3>3, LinkAppend DEF Addressing
    <3> QED
      BY <1>0, <2>1, <2>3, <2>5, <3>4, <3>5, <3>6 DEF Addressing
  <2> QED
    BY <2>6, <2>7
<1> QED
  BY <1>0, <1>5, <1>6, <1>7 DEF LinkInv, Falls

(* Every step of the modem keeps LinkInv.                                   *)
LEMMA LinkModem ==
  ASSUME IndInv, LinkInv, Modem
  PROVE  LinkInv'
<1> USE DEF callVars, slotVars, modemVars
<1>0. /\ ModemUnchanged /\ Queue /\ modem \in KnownState /\ Flags
      /\ UNCHANGED <<pc, stage, state, tpc, iface, overtaken, mbim_pResponse>>
  BY DEF Modem, ModemChanges, ModemActivated, ModemForgets, ModemAnswers, ModemUnchanged, IndInv, Queue
<1>1. CASE ~opened'
  BY <1>0, <1>1 DEF LinkInv, Falls, NoRefusal, Fine
<1>2. ASSUME NEW c \in States, NEW v \in Known[c], opened, UNCHANGED <<opened, held>>,
             modem' = [modem EXCEPT ![c] = v], Indicate(c),
             c = "Activation" => \/ modem.Activation = "up" /\ v = "down"
                                 \/ modem.Activation = "going" /\ v \in {"up", "down"}
      PROVE  LinkInv'
  <2> DEFINE m == [req |-> NULL, cid |-> c, val |-> modem'[c]]
  <2>1. /\ modem' \in KnownState /\ modem'[c] = v
        /\ Activation' = IF c = "Activation" THEN v ELSE Activation
    <3> DEFINE t == [modem EXCEPT ![c] = v]
    <3>1. /\ t \in KnownState /\ t[c] = v
          /\ t.Activation = IF c = "Activation" THEN v ELSE modem.Activation
      <4>1. modem \in KnownState /\ v \in Known[c]
        BY <1>0, <1>2
      <4> QED
        BY <4>1 DEF KnownState, States, Known
    <3>2. modem' = t
      BY <1>2
    <3> HIDE DEF t
    <3> QED
      BY <3>1, <3>2 DEF Activation
  <2>2. m \in Message /\ m.req = NULL /\ m.cid = c /\ m.val = v
    BY <2>1, IndicationSent
  <2>3. rx' = Append(rx, m)
    BY <1>2 DEF Indicate
  <2>4. Rank(Activation') <= Rank(Activation)
    BY <1>2, <2>1, RankFacts DEF Activation
  <2> HIDE DEF m
  <2> QED
    BY <1>0, <1>2, <2>1, <2>2, <2>3, <2>4, LinkIndication DEF Activation
<1>3. ASSUME NEW c \in States, ModemChanges(c), opened' PROVE LinkInv'
  <2>1. PICK v \in Values[c] \ {modem[c], "unknown", "going"} :
          /\ c = "Activation" => modem[c] = "up"
          /\ modem' = [modem EXCEPT ![c] = v]
    BY <1>3 DEF ModemChanges
  <2>2. opened /\ UNCHANGED <<opened, held>> /\ Indicate(c)
    BY <1>3 DEF ModemChanges
  <2>3. v \in Known[c]
    BY KnownFacts
  <2>4. c = "Activation" => modem.Activation = "up" /\ v = "down"
    BY <2>1, <2>3 DEF Known
  <2> QED
    BY <1>2, <2>1, <2>2, <2>3, <2>4
<1>4. ASSUME ModemActivated, opened' PROVE LinkInv'
  <2>1. /\ modem.Activation = "going" /\ Indicate("Activation") /\ opened /\ UNCHANGED <<opened, held>>
        /\ \E v \in {"up", "down"} : modem' = [modem EXCEPT !["Activation"] = v]
    BY <1>4 DEF ModemActivated
  <2>2. "Activation" \in States /\ {"up", "down"} \subseteq Known["Activation"]
    BY DEF States, Known
  <2> QED
    BY <1>2, <2>1, <2>2
<1>5. ASSUME ModemForgets PROVE LinkInv'
  BY <1>1, <1>5 DEF ModemForgets
<1>6. ASSUME NEW r \in held, NEW v \in Words, ModemAnswers(r, v), opened' PROVE LinkInv'
  BY <1>6, LinkAnswer
<1> QED
  BY <1>1, <1>3, <1>4, <1>5, <1>6 DEF Modem, Words

(* A step that leaves the modem, the queue and the slot alone. *)
LEMMA LinkFrame ==
  ASSUME IndInv, LinkInv,
         UNCHANGED <<rx, modem, opened, state, overtaken>>,
         mbim_pResponse' \in {mbim_pResponse, NULL},
         Looping' => Looping, pc' # "open" => pc # "open" \/ ~Looping',
         pc' = "open" => ~iface',
         iface' => iface, iface' /\ tpc = "flush" => tpc' = "flush",
         pc' \in {"connect", "Activation"} =>
           \/ pc' = pc /\ (stage = "idle" <=> stage' = "idle")
           \/ ~iface' \/ (stage' = "idle" /\ tpc' = "flush"),
         Looping' /\ Settled' => Settled,
         pc' = "ip" => pc = "ip" \/ state.Activation = "up"
  PROVE  LinkInv'
<1>1. Activation' = Activation
  BY DEF Activation
<1>2. Falls' /\ NoRefusal'
  BY <1>1 DEF LinkInv, Falls, NoRefusal
<1>3. ASSUME Fine' PROVE Addressed' /\ Unaddressed' /\ Noted' /\ Addressing'
  <2>1. Fine
    BY <1>3 DEF Fine
  <2>2. Addressed /\ Unaddressed /\ Noted /\ Addressing /\ Looping'
    BY <1>3, <2>1 DEF LinkInv, Fine
  <2>3. Addressed'
    BY <1>1, <2>2 DEF Addressed
  <2>4. Unaddressed'
    BY <2>2 DEF Unaddressed
  <2>5. Noted'
    BY <1>1, <2>2 DEF Noted
  <2>6. Addressing'
    BY <1>1, <2>2 DEF Addressing
  <2> QED
    BY <2>3, <2>4, <2>5, <2>6
<1> QED
  BY <1>2, <1>3 DEF LinkInv

(* Every step of mbim_send_command keeps LinkInv.                           *)
LEMMA LinkCommand ==
  ASSUME IndInv, LinkInv, Command \/ CondTimeout \/ CondSpurious
  PROVE  LinkInv'
<1> USE DEF callVars, slotVars, modemVars
<1>0. Places /\ Slot /\ OutInv
  BY DEF IndInv
<1>1. CASE SendBegin
  <2>1. /\ pc' = pc /\ stage = "idle" /\ stage' = "write" /\ tpc # "flush" /\ mbim_pResponse' = NULL
        /\ UNCHANGED <<rx, modem, opened, state, overtaken, iface, tpc>>
    BY <1>1 DEF SendBegin, SendUnchanged, MutexFree
  <2>2. Fine /\ pc' \in {"connect", "Activation"} => ~iface
    BY <2>1 DEF LinkInv, Unaddressed
  <2>3. Activation' = Activation /\ Falls' /\ NoRefusal' /\ (Fine' <=> Fine)
    BY <2>1 DEF LinkInv, Falls, NoRefusal, Fine, Looping, Activation
  <2>4. ASSUME Fine PROVE Addressed' /\ Unaddressed' /\ Noted' /\ Addressing'
    BY <2>1, <2>2, <2>3, <2>4 DEF LinkInv, Addressed, Unaddressed, Noted, Settled, Addressing
  <2> QED
    BY <2>1, <2>3, <2>4 DEF LinkInv
<1>2. CASE SendWritten \/ CondTimeout \/ CondSpurious
  <2>1. /\ pc' = pc /\ stage # "idle" /\ stage' # "idle" /\ mbim_pResponse' = mbim_pResponse
        /\ UNCHANGED <<rx, modem, opened, state, overtaken, iface, tpc>>
    BY <1>2 DEF SendWritten, CondTimeout, CondSpurious, SendUnchanged
  <2>2. Settled' => Settled
    <3>1. CASE SendWritten
      BY <3>1 DEF SendWritten, Settled
    <3>2. CASE CondTimeout \/ CondSpurious
      BY <2>1, <3>2 DEF CondTimeout, CondSpurious, Settled
    <3> QED
      BY <1>2, <3>1, <3>2
  <2> QED
    BY <2>1, <2>2, LinkFrame DEF Looping, LinkInv
<1>3. CASE SendFailed
  <2>1. /\ pc' = Failed /\ pc \in Commands /\ mbim_pResponse' = NULL
        /\ UNCHANGED <<rx, modem, opened, state, overtaken, iface, tpc>>
    BY <1>0, <1>3 DEF SendFailed, SendUnchanged, Places
  <2>2. ~Looping' /\ pc' \notin {"open", "connect", "Activation", "ip"}
    BY <2>1 DEF Failed, Looping, Shutdown, Over
  <2> QED
    BY <2>1, <2>2, LinkFrame
<1>4. CASE SendReturn
  <2> DEFINE v == mbim_pResponse.val
  <2>1. /\ stage = "signalled" /\ stage' = "idle" /\ tpc # "flush"
        /\ mbim_pResponse # NULL /\ mbim_pResponse' = NULL
        /\ overtaken' = (overtaken /\ pc # "open")
        /\ UNCHANGED <<rx, modem, opened, tpc>> /\ call \notin Out
    BY <1>0, <1>4 DEF SendReturn, SendUnchanged, MutexFree, OutInv
  <2>2. /\ pc \in Commands /\ v \in Words /\ mbim_pResponse.cid = pc
        /\ pc # "ip" => iface' = iface
        /\ v \notin {"done", "NOT_OPENED"} => iface' = iface
        /\ pc \in {"Activation", "connect"} /\ v \notin {"NOT_OPENED", "failed"} =>
             state'.Activation = v /\ v \in Known.Activation
        /\ pc \in {"Activation", "connect"} /\ v = "failed" => state'.Activation = state.Activation
        /\ pc \notin {"Activation", "connect", "off", "open"} /\ v # "NOT_OPENED" =>
             state'.Activation = state.Activation
        /\ pc = "open" /\ v = "done" => state' = Unknown
        /\ pc' = IF pc = "open" /\ v # "done" THEN "exit" ELSE Then[pc]
    BY <1>4, UseFacts
  <2> HIDE DEF v
  <2>3. /\ pc' \notin Commands \/ pc = "off" \/ (pc = "open" /\ pc' = "caps")
        /\ Looping' => pc \notin {"off", "close"} /\ (pc = "open" => v = "done")
        /\ pc \notin {"off", "close"} => Looping
    BY <2>2 DEF Then, Commands, States, Looping, Shutdown, Over
  <2>4. pc' \notin {"open", "connect", "Activation", "ip"}
    BY <2>2 DEF Then, Commands, States
  <2>5. Activation' = Activation /\ Falls' /\ NoRefusal'
    BY <2>1, <2>3 DEF LinkInv, Falls, NoRefusal, Activation
  <2>6. ASSUME Fine', pc = "open" PROVE Addressed' /\ Unaddressed' /\ Noted' /\ Addressing'
    <3>1. Looping /\ v = "done"
      BY <2>3, <2>6 DEF Fine
    <3>2. ~iface' /\ state'.Activation = "unknown"
      BY <2>2, <2>6, <3>1 DEF LinkInv, Unknown
    <3>3. ~IpAnswers(rx) /\ IpInOrder(rx, Activation)
      BY <2>6, <3>1, OnlyCall DEF IpAnswers, IpInOrder
    <3>4. Above("unknown", rx, Activation)
      BY RankFacts DEF Above
    <3> QED
      BY <2>1, <2>4, <2>5, <3>2, <3>3, <3>4 DEF Addressed, Unaddressed, Noted, Addressing
  <2>7. ASSUME Fine', pc # "open" PROVE Addressed' /\ Unaddressed' /\ Noted' /\ Addressing'
    <3>1. Fine /\ Looping /\ pc \notin {"off", "close"}
      BY <2>1, <2>3, <2>7 DEF Fine
    <3>2. Addressed /\ Unaddressed /\ Noted /\ Addressing
      BY <3>1 DEF LinkInv
    <3>3. v # "NOT_OPENED"
      BY <2>1, <3>1 DEF LinkInv, NoRefusal, Fine, v
    <3>4. \A i \in DOMAIN rx : ~IpDone(rx[i])
      BY <2>1, <3>1, OnlyCall
    <3>5. ~IpAnswers(rx) /\ IpInOrder(rx, Activation)
      BY <3>4 DEF IpAnswers, IpInOrder
    <3>6. Addressing'
      BY <2>1, <2>4, <2>5, <3>5 DEF Addressing
    <3>7. Above(state'.Activation, rx, Activation)
      <4>3. CASE pc \in {"Activation", "connect"} /\ v = "failed"
        <5>1. Settled
          BY <2>1, <2>2, <4>3 DEF Settled, Refusal, v
        <5> QED
          BY <2>2, <3>2, <4>3, <5>1 DEF Noted
      <4>1. CASE pc \in {"Activation", "connect"} /\ v # "failed"
        <5>1. Info(mbim_pResponse)
          BY <2>2, <3>3, <4>1 DEF Info, v
        <5> QED
          BY <2>1, <2>2, <3>2, <3>3, <4>1, <5>1 DEF Noted, v
      <4>2. CASE pc \notin {"Activation", "connect"}
        BY <2>2, <2>7, <3>1, <3>2, <3>3, <4>2 DEF Noted, Settled
      <4> QED
        BY <4>1, <4>2, <4>3
    <3>8. Noted'
      BY <2>1, <2>5, <3>7 DEF Noted
    <3>9. CASE pc = "ip" /\ v = "done"
      <4>1. IpDone(mbim_pResponse)
        BY <2>2, <3>9 DEF IpDone, v
      <4>2. (Activation = "up" \/ Dropping(rx)) /\ state.Activation = "up"
        BY <2>1, <3>2, <3>9, <4>1 DEF Addressing
      <4>3. state'.Activation = "up"
        BY <2>2, <3>3, <3>9, <4>2
      <4> QED
        BY <2>1, <2>4, <2>5, <3>6, <3>8, <4>2, <4>3 DEF Addressed, Unaddressed
    <3>10. CASE ~(pc = "ip" /\ v = "done")
      <4>1. iface' = iface
        BY <2>2, <3>3, <3>10
      <4>2. state'.Activation \in {"down", "unknown"} => ~iface
        <5>1. CASE pc \in {"Activation", "connect"}
          BY <2>1, <3>2, <5>1 DEF Unaddressed
        <5>2. CASE pc \notin {"Activation", "connect"}
          BY <2>1, <2>2, <2>7, <3>1, <3>2, <3>3, <5>2 DEF Unaddressed
        <5> QED
          BY <5>1, <5>2
      <4> QED
        BY <2>1, <2>4, <2>5, <3>2, <3>6, <3>8, <4>1, <4>2 DEF Addressed, Unaddressed
    <3> QED
      BY <3>9, <3>10
  <2> QED
    BY <2>4, <2>5, <2>6, <2>7 DEF LinkInv
<1> QED
  BY <1>1, <1>2, <1>3, <1>4 DEF Command

(* Every other step of the main thread keeps LinkInv.                       *)
LEMMA LinkMain ==
  ASSUME IndInv, LinkInv,
         \/ MainTest \/ MainDown \/ MainLock \/ MainSleep \/ MainTimeout \/ ql_sigaction
         \/ MainKill \/ MainJoin \/ MainJoined
  PROVE  LinkInv'
<1> USE DEF callVars, slotVars, modemVars
<1>0. Places
  BY DEF IndInv
<1>1. CASE MainTest
  <2>1. /\ pc \in Tests /\ pc' = Branch(pc)
        /\ UNCHANGED <<rx, modem, opened, state, overtaken, iface, tpc, mbim_pResponse, stage>>
    BY <1>1 DEF MainTest, MainUnchanged
  <2>2. stage = "idle" /\ pc \notin {"open", "connect"}
    BY <1>0, <2>1, PcInCommand DEF Tests
  <2>3. /\ pc' \in {"connect", "Activation"} => state.Activation \in {"down", "unknown"}
        /\ pc' = "ip" => state.Activation = "up"
        /\ pc' # "open"
        /\ Looping' => Looping
    <3>1. state.Activation \in {"down", "unknown", "going", "up"}
      BY DEF IndInv, AnyState, Values
    <3> QED
      BY <2>1, <3>1 DEF Branch, Tests, Looping, Shutdown, Over
  <2>4. Fine' => Fine
    BY <2>1, <2>2, <2>3 DEF Fine
  <2>5. Fine' /\ pc' \in {"connect", "Activation"} => ~iface \/ tpc = "flush"
    BY <2>3, <2>4 DEF LinkInv, Unaddressed
  <2>6. Activation' = Activation /\ Falls' /\ NoRefusal'
    BY <2>1, <2>3 DEF LinkInv, Falls, NoRefusal, Activation
  <2>7. ASSUME Fine' PROVE Addressed' /\ Unaddressed' /\ Noted' /\ Addressing'
    <3>1. Addressed /\ Unaddressed /\ Noted /\ Addressing
      BY <2>4, <2>7 DEF LinkInv
    <3>2. Addressed' /\ Noted'
      BY <2>1, <2>2, <2>6, <3>1 DEF Addressed, Noted, Settled
    <3>3. Unaddressed'
      BY <2>1, <2>2, <2>5, <2>7, <3>1 DEF Unaddressed
    <3>4. Addressing'
      BY <2>1, <2>3, <2>6, <3>1 DEF Addressing
    <3> QED
      BY <3>2, <3>3, <3>4
  <2> QED
    BY <2>3, <2>6, <2>7 DEF LinkInv
<1>2. CASE MainDown
  <2>1. /\ pc = "down" /\ pc' = "open" /\ iface' = FALSE
        /\ UNCHANGED <<rx, modem, opened, state, overtaken, mbim_pResponse>>
    BY <1>2 DEF MainDown, MainUnchanged
  <2>2. Falls' /\ NoRefusal'
    BY <2>1 DEF LinkInv, Falls, NoRefusal, Activation, Looping, Shutdown, Over
  <2> QED
    BY <2>1, <2>2 DEF LinkInv, Fine
<1>3. CASE MainLock \/ MainSleep \/ MainTimeout
  <2>1. /\ pc \in {"towait", "towait1", "locked", "locked1", "wait", "wait1"}
        /\ pc' \in {"locked", "locked1", "wait", "wait1", "settle", "top"}
        /\ UNCHANGED <<rx, modem, opened, state, overtaken, iface, tpc, mbim_pResponse, stage>>
    BY <1>3 DEF MainLock, MainSleep, MainTimeout, MainUnchanged
  <2> QED
    BY <2>1, LinkFrame DEF Looping, Shutdown, Over, Settled
<1>4. CASE ql_sigaction
  <2>1. /\ pc' = pc \/ (pc \in {"wait", "wait1"} /\ pc' = "settle") \/ pc' = "stuck"
        /\ UNCHANGED <<rx, modem, opened, state, overtaken, iface, tpc, mbim_pResponse, stage,
                       call, held>>
    BY <1>4 DEF ql_sigaction, Notify, StateMutexFree
  <2>2. Looping' /\ Settled' => Settled
    BY <2>1 DEF Looping, Over, Settled
  <2> QED
    BY <2>1, <2>2, LinkFrame DEF Looping, Shutdown, Over, LinkInv
<1>5. CASE MainKill \/ MainJoin \/ MainJoined
  <2>1. /\ pc \in Over /\ pc' \in Over /\ (iface' => iface)
        /\ tpc = "flush" => tpc' = "flush"
        /\ UNCHANGED <<rx, modem, opened, state, overtaken, mbim_pResponse>>
    BY <1>5 DEF MainKill, MainJoin, MainJoined, MainUnchanged, Over
  <2> QED
    BY <2>1, LinkFrame DEF Looping, Over
<1> QED
  BY <1>1, <1>2, <1>3, <1>4, <1>5

(* Every step of the reader thread keeps LinkInv.                           *)
LEMMA LinkReader ==
  ASSUME IndInv, LinkInv, Reader \/ Hangup
  PROVE  LinkInv'
<1> USE DEF callVars, slotVars, modemVars
<1>0. Places /\ Slot /\ Queue /\ OutInv /\ state \in AnyState /\ modem \in KnownState
  BY DEF IndInv, Queue
<1>1. CASE PollIn \/ PollHup \/ ReadQuit \/ ReadRelease \/ ReadExit
  <2>1. /\ pc' = pc \/ (pc \in {"wait", "wait1"} /\ pc' = "settle")
        /\ tpc # "flush"
        /\ stage' = stage \/ (stage = "wait" /\ stage' = "signalled")
        /\ UNCHANGED <<rx, modem, opened, state, overtaken, iface, mbim_pResponse, call, held>>
    BY <1>1 DEF PollIn, PollHup, ReadQuit, ReadRelease, ReadExit, ReadUnchanged, Notify, CondSignal
  <2>2. Settled' => Settled
    BY <2>1 DEF Settled
  <2> QED
    BY <2>1, <2>2, LinkFrame DEF Looping, Shutdown, Over, LinkInv
<1>2. CASE RecvFlush
  <2>1. /\ pc' = pc /\ iface' = FALSE /\ stage' = stage
        /\ UNCHANGED <<rx, modem, opened, state, overtaken, mbim_pResponse, call, held>>
    BY <1>2 DEF RecvFlush, ReadUnchanged
  <2> QED
    BY <2>1, LinkFrame DEF Looping, Settled
<1>3. CASE RecvAnswer
  <2> DEFINE h == Head(rx)
  <2>1. /\ tpc = "read" /\ tpc' = "poll" /\ stage # "write" /\ h.req # NULL
        /\ rx # <<>> /\ rx' = Tail(rx) /\ rx \in Seq(Message)
        /\ stage' = stage \/ (stage = "wait" /\ stage' = "signalled")
        /\ UNCHANGED <<pc, modem, opened, state, overtaken, iface, call, held>>
        /\ mbim_pResponse' \in {mbim_pResponse, h, NULL}
    BY <1>0, <1>3 DEF RecvAnswer, MutexFree, ReadUnchanged, CondSignal, IsResponse, Queue
  <2>2. h = rx[1] /\ 1 \in DOMAIN rx
    BY <1>0, <2>1, QueueShrinks
  <2>3. /\ FallsTo(rx, Activation) => FallsTo(rx', Activation)
        /\ FallsTo(rx, Activation) /\ Info(h) /\ (\A i \in DOMAIN rx : i > 1 => ~Barrier(rx[i]))
             => Above(h.val, rx', Activation)
        /\ \A x : Above(x, rx, Activation) => Above(x, rx', Activation)
        /\ Dropping(rx) /\ ~Drop(h) => Dropping(rx')
        /\ IpAnswers(rx') => IpAnswers(rx)
        /\ IpDone(h) => IpAnswers(rx)
        /\ Refusing(rx') \/ Refusal(h) => Refusing(rx)
        /\ IpInOrder(rx, Activation) => IpInOrder(rx', Activation)
        /\ IpInOrder(rx, Activation) /\ IpDone(h) => Activation = "up" \/ Dropping(rx')
    BY <2>1, LinkTail
  <2>4. ~Drop(h) /\ Activation' = Activation
    BY <2>1 DEF Drop, Activation
  <2>5. \A i \in DOMAIN rx' : \E j \in DOMAIN rx : rx'[i] = rx[j]
    <3>1. /\ DOMAIN rx = 1 .. Len(rx) /\ DOMAIN rx' = 1 .. Len(rx) - 1 /\ Len(rx) \in Nat
          /\ \A i \in 1 .. Len(rx) - 1 : rx'[i] = rx[i + 1]
      BY <2>1, TailFacts
    <3>2. ASSUME NEW i \in DOMAIN rx' PROVE i + 1 \in DOMAIN rx /\ rx'[i] = rx[i + 1]
      BY <3>1
    <3> QED
      BY <3>2
  <2> HIDE DEF h
  <2>6. Falls'
    BY <2>1, <2>3, <2>4 DEF LinkInv, Falls
  <2>7. NoRefusal'
    BY <2>1, <2>2, <2>5 DEF LinkInv, NoRefusal, Looping
  <2>8. ASSUME Fine' PROVE Addressed' /\ Unaddressed' /\ Noted' /\ Addressing'
    <3>1. Fine /\ Looping
      BY <2>1, <2>8 DEF Fine, Looping
    <3>2. Addressed /\ Unaddressed /\ Noted /\ Addressing
      BY <3>1 DEF LinkInv
    <3>3. Addressed'
      BY <2>1, <2>3, <2>4, <3>2 DEF Addressed
    <3>4. Unaddressed'
      BY <2>1, <3>2 DEF Unaddressed
    <3>5. \A i \in DOMAIN rx : i > 1 => ~Barrier(rx[i])
      <4> SUFFICES ASSUME NEW i \in DOMAIN rx, i > 1, Barrier(rx[i]) PROVE FALSE
        OBVIOUS
      <4>1. rx[i].req # NULL /\ rx[i].req = call
        BY <3>1, OnlyCall
      <4>2. rx[1].req # NULL /\ rx[1].req = call
        BY <2>1, <2>2, <3>1, OnlyCall
      <4>3. i = 1
        BY <1>0, <2>2, <4>1, <4>2 DEF OutInv, Once
      <4>4. i \in Nat
        BY <2>1
      <4> QED
        BY <4>3, <4>4
    <3>8. Settled' => Settled
      BY <2>1, <2>3 DEF Settled
    <3>6. Noted'
      BY <2>1, <2>3, <2>4, <3>1, <3>2, <3>5, <3>8 DEF Noted, LinkInv, Falls, Fine
    <3>7. Addressing'
      BY <2>1, <2>3, <2>4, <3>2 DEF Addressing
    <3> QED
      BY <3>3, <3>4, <3>6, <3>7
  <2> QED
    BY <2>1, <2>6, <2>7, <2>8 DEF LinkInv
<1>4. CASE RecvIndication
  <2> DEFINE h == Head(rx)
  <2>1. /\ tpc = "read" /\ h.req = NULL
        /\ rx # <<>> /\ rx' = Tail(rx) /\ rx \in Seq(Message)
        /\ state' = [state EXCEPT ![h.cid] = h.val]
        /\ tpc' = IF h.cid = "Activation" /\ h.val = "down" THEN "flush" ELSE "poll"
        /\ overtaken' = (overtaken \/ mbim_pResponse # NULL)
        /\ UNCHANGED <<modem, opened, iface, mbim_pResponse, stage, call, held>>
    BY <1>0, <1>4 DEF RecvIndication, ReadUnchanged, Queue
  <2>2. pc' = pc \/ (pc \in {"wait", "wait1"} /\ pc' = "settle")
    BY <1>4 DEF RecvIndication, Notify
  <2>3. h = rx[1] /\ 1 \in DOMAIN rx /\ h.cid \in States /\ h.val \in Known[h.cid]
    BY <1>0, <2>1, QueueShrinks DEF MessageOK
  <2>4. /\ FallsTo(rx, Activation) => FallsTo(rx', Activation)
        /\ FallsTo(rx, Activation) /\ Info(h) /\ (\A i \in DOMAIN rx : i > 1 => ~Barrier(rx[i]))
             => Above(h.val, rx', Activation)
        /\ \A x : Above(x, rx, Activation) => Above(x, rx', Activation)
        /\ Dropping(rx) /\ ~Drop(h) => Dropping(rx')
        /\ IpAnswers(rx') => IpAnswers(rx)
        /\ Refusing(rx') => Refusing(rx)
        /\ IpInOrder(rx, Activation) => IpInOrder(rx', Activation)
        /\ IpInOrder(rx, Activation) /\ Drop(h) => ~IpAnswers(rx')
    BY <2>1, LinkTail
  <2>5. \A i \in DOMAIN rx' : \E j \in DOMAIN rx : rx'[i] = rx[j]
    <3>1. /\ DOMAIN rx = 1 .. Len(rx) /\ DOMAIN rx' = 1 .. Len(rx) - 1 /\ Len(rx) \in Nat
          /\ \A i \in 1 .. Len(rx) - 1 : rx'[i] = rx[i + 1]
      BY <2>1, TailFacts
    <3>2. ASSUME NEW i \in DOMAIN rx' PROVE i + 1 \in DOMAIN rx /\ rx'[i] = rx[i + 1]
      BY <3>1
    <3> QED
      BY <3>2
  <2> HIDE DEF h
  <2>6. /\ Drop(h) <=> h.cid = "Activation" /\ h.val = "down"
        /\ h.cid = "Activation" => Info(h) /\ h.val \in {"down", "going", "up"}
        /\ Activation' = Activation
    BY <2>1, <2>3 DEF Drop, Info, Known, Activation
  <2>7. state'.Activation = IF h.cid = "Activation" THEN h.val ELSE state.Activation
    <3>1. h.val \in Values[h.cid]
      BY <2>3, KnownFacts
    <3> QED
      BY <1>0, <2>1, <2>3, <3>1, StateSet
  <2>8. Falls' /\ NoRefusal'
    <3>1. Looping' => Looping
      BY <2>2 DEF Looping, Shutdown, Over
    <3>2. NoRefusal'
      BY <2>1, <2>5, <3>1 DEF LinkInv, NoRefusal
    <3> QED
      BY <2>1, <2>4, <2>6, <3>2 DEF LinkInv, Falls
  <2>9. ASSUME Fine' PROVE Addressed' /\ Unaddressed' /\ Noted' /\ Addressing'
    <3>1. Fine /\ Looping /\ mbim_pResponse = NULL
      BY <2>1, <2>2, <2>9 DEF Fine, Looping, Shutdown, Over
    <3>2. Addressed /\ Unaddressed /\ Noted /\ Addressing
      BY <3>1 DEF LinkInv
    <3>3. Addressed'
      BY <2>1, <2>4, <2>6, <3>2 DEF Addressed
    <3>4. Unaddressed'
      BY <2>1, <2>2, <2>6, <2>7, <3>2 DEF Unaddressed
    <3>5. ASSUME Settled' PROVE Above(state'.Activation, rx', Activation)
      <4>1. Settled /\ pc # "open"
        BY <2>1, <2>2, <2>4, <3>1, <3>5 DEF Fine, Settled
      <4>2. \A i \in DOMAIN rx : ~Barrier(rx[i])
        BY <3>1, <4>1, SettledFacts
      <4>3. CASE h.cid = "Activation"
        BY <2>4, <2>6, <2>7, <3>1, <4>2, <4>3 DEF LinkInv, Falls, Fine
      <4>4. CASE h.cid # "Activation"
        BY <2>4, <2>7, <3>2, <4>1, <4>4 DEF Noted
      <4> QED
        BY <4>3, <4>4
    <3>6. Noted'
      BY <2>1, <2>6, <3>1, <3>5 DEF Noted
    <3>7. pc' = "ip" => state'.Activation \in {"up", "down"}
      <4> SUFFICES ASSUME pc' = "ip" PROVE state'.Activation \in {"up", "down"}
        OBVIOUS
      <4>1. pc = "ip" /\ state.Activation \in {"up", "down"} /\ Above(state.Activation, rx, Activation)
        BY <2>2, <3>2 DEF Addressing, Noted, Settled
      <4>2. h.cid = "Activation" => Rank(h.val) <= Rank(state.Activation)
        BY <2>3, <2>6, <4>1 DEF Above
      <4> QED
        BY <2>6, <2>7, <4>1, <4>2, RankFacts
    <3>8. IpAnswers(rx') => state'.Activation # "down"
      BY <2>4, <2>6, <2>7, <3>2 DEF Addressing
    <3>9. Addressing'
      BY <2>1, <2>4, <2>6, <3>1, <3>2, <3>7, <3>8 DEF Addressing
    <3> QED
      BY <3>3, <3>4, <3>6, <3>9
  <2> QED
    BY <2>1, <2>2, <2>8, <2>9 DEF LinkInv
<1> QED
  BY <1>1, <1>2, <1>3, <1>4 DEF Reader, Hangup

(* While the main thread sleeps and nothing is on its way, the interface    *)
(* has an address only if the modem has a call, although both threads set   *)
(* it and note the state of the call without a lock, as long as no          *)
(* indication has passed an answer that was still to be used.               *)
THEOREM LinkFollowsCallCorrect == Spec => []LinkFollowsCall
<1>1. Init => LinkInv
  <2> SUFFICES ASSUME Init PROVE LinkInv
    OBVIOUS
  <2>1. opened = FALSE /\ pc = "top"
    BY DEF Init
  <2> QED
    BY <2>1 DEF LinkInv, Falls, NoRefusal, Fine
<1>2. IndInv /\ LinkInv /\ [Next]_vars => LinkInv'
  <2> SUFFICES ASSUME IndInv, LinkInv, [Next]_vars PROVE LinkInv'
    OBVIOUS
  <2>1. CASE UNCHANGED vars
    BY <2>1 DEF vars, callVars, slotVars, modemVars, LinkInv, Falls, NoRefusal, Fine, Looping,
                Activation, Addressed, Unaddressed, Noted, Settled, Addressing
  <2> QED
    BY <2>1, LinkModem, LinkCommand, LinkMain, LinkReader DEF Next, Main
<1>3. LinkInv => LinkFollowsCall
  <2> SUFFICES ASSUME LinkInv, pc = "wait", opened, rx = <<>>, tpc = "poll", ~overtaken, iface
               PROVE  modem.Activation = "up"
    BY DEF LinkFollowsCall
  <2>1. Fine /\ ~Dropping(rx)
    BY DEF Fine, Looping, Shutdown, Over, Dropping
  <2> QED
    BY <2>1 DEF LinkInv, Addressed, Activation
<1> QED
  BY <1>1, <1>2, <1>3, Inductive, PTL DEF Spec
=============================================================================
