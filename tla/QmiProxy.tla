------------------------------ MODULE QmiProxy ------------------------------
(***************************************************************************)
(* quectel-qmi-proxy.c: several connection managers share one modem.       *)
(* Control requests of all connections go through one queue; the head is   *)
(* at the modem, and the next control answer is taken for its answer,      *)
(* whatever transaction it carries.  Client ids the modem hands out are    *)
(* noted at the connection that got the answer; service messages are       *)
(* routed by them and keep no state of their own.                          *)
(*                                                                         *)
(* Each handler of qmi_proxy_loop is one step; it runs in one thread.  The *)
(* modem works on control requests in the order they were written.         *)
(***************************************************************************)
EXTENDS Integers, Sequences, SequencesExt

CONSTANTS
  Fds,       \* descriptors accept may return; they are used again after close
  NoFd,      \* -1, which it returns when it fails
  Ids,       \* client ids of the modem, each with its service type
  Proxy,     \* the sender of the proxy's own requests
  NoId,
  MaxTries,  \* repetitions of qmi_proxy_init: 5 in main
  MaxReq,    \* bound on requests of the clients
  MaxModem   \* bound on requests waiting at the modem

ASSUME ProxyAssumption ==
  /\ Proxy \notin Fds /\ NoFd \notin Fds \cup {Proxy} /\ NoId \notin Ids
  /\ MaxTries \in Nat /\ MaxReq \in Nat /\ MaxModem \in Nat \ {0}

Request == [fd : Fds \cup {Proxy}, n : 0 .. MaxReq, kind : {"get", "release", "other"},
            id : Ids \cup {NoId}]

(* A late answer to a request of qmi_proxy_init. *)
Late == [fd |-> Proxy, n |-> 0, kind |-> "other", id |-> NoId]

VARIABLES
  main,     \* "init": server not open yet, "serve", "closed": device closed
  tries,
  conns,    \* qmi_proxy_connection
  owned,    \* client_qnode of each connection
  sock,     \* requests a client has written and the proxy has not read
  queue,    \* qmi_proxy_ctl_msg
  modem,    \* control requests at the modem
  alloc,    \* client ids in use at the modem
  seq,      \* requests written by clients so far
  orderly   \* since the device was opened, no write was lost, no request left
            \* unanswered, no control message unasked for, no connection closed
            \* with a request at the modem or several in the queue, and no
            \* request written while an answer to qmi_proxy_init was due

clientVars == <<conns, owned, sock>>
vars == <<main, tries, clientVars, queue, modem, alloc, seq, orderly>>

Init ==
  /\ main = "init" /\ tries = 0
  /\ conns = {} /\ owned = [fd \in Fds |-> {}] /\ sock = [fd \in Fds |-> <<>>]
  /\ queue = <<>> /\ modem = <<>>
  /\ alloc = {} /\ seq = 0
  /\ orderly = TRUE

(* send_qmi_to_cdc_wdm: the write may fail, and nobody is told. *)
send_qmi_to_cdc_wdm(r) == modem' \in {Append(modem, r), modem}

Lost(r) == modem' # Append(modem, r)

-----------------------------------------------------------------------------
(* Start.                                                                   *)

(* A request of qmi_proxy_init: answered in time or never, or answered      *)
(* after the wait has ended.                                                *)
send_qmi_timeout ==
  \/ UNCHANGED modem
  \/ Len(modem) < MaxModem /\ modem' = Append(modem, Late)

(* QMICTL_SYNC_REQ, which is repeated up to ten times, makes the modem      *)
(* forget its client ids.                                                   *)
qmi_proxy_init(ok) ==
  /\ send_qmi_timeout
  /\ alloc' \in {{}} \cup (IF ok THEN {} ELSE {alloc})

(* main repeats qmi_proxy_init until it succeeds, and opens the server      *)
(* after MaxTries repetitions anyway.                                       *)
InitAttempt(ok) ==
  /\ main = "init"
  /\ qmi_proxy_init(ok)
  /\ IF ok \/ tries >= MaxTries THEN main' = "serve" /\ tries' = 0
     ELSE main' = "init" /\ tries' = tries + 1
  /\ UNCHANGED <<clientVars, queue, seq, orderly>>

(* recv_qmi before the server is open: an answer nobody waits for. *)
RecvInit ==
  /\ main = "init" /\ modem # <<>>
  /\ modem' = Tail(modem)
  /\ UNCHANGED <<main, tries, clientVars, queue, alloc, seq, orderly>>

-----------------------------------------------------------------------------
(* Connections.                                                             *)

(* An accept that fails adds a connection too.  poll passes over its        *)
(* descriptor: nothing is read from it and nothing removes it but the end   *)
(* of the loop.  (Several of them are one in the model.)                    *)
accept_qmi_connection(fd) ==
  /\ main = "serve" /\ fd \notin conns
  /\ conns' = conns \cup {fd}
  /\ UNCHANGED <<main, tries, owned, sock, queue, modem, alloc, seq, orderly>>

(* The indices of a connection's messages in the queue. *)
MessagesOf(fd) == {i \in DOMAIN queue : queue[i].fd = fd}

(* The first of them is removed from the queue. *)
RemoveMessage(fd) ==
  \/ MessagesOf(fd) = {} /\ UNCHANGED queue
  \/ \E i \in MessagesOf(fd) :
       (\A j \in MessagesOf(fd) : i <= j) /\ queue' = RemoveAt(queue, i)

(* Mutant: the requests of the connection stay in the queue. *)
cleanup_qmi_connectionKeepsMessages(fd) ==
  /\ main = "serve" /\ fd \in conns
  /\ conns' = conns \ {fd}
  /\ owned' = [owned EXCEPT ![fd] = {}]
  /\ sock' = [sock EXCEPT ![fd] = <<>>]
  /\ queue' = queue
  /\ orderly' = (orderly /\ \A i, j \in MessagesOf(fd) : i = j /\ i # 1)
  /\ UNCHANGED <<main, tries, modem, alloc, seq>>

(* Mutant: the client ids of the connection stay in their list. *)
cleanup_qmi_connectionKeepsIds(fd) ==
  /\ main = "serve" /\ fd \in conns
  /\ conns' = conns \ {fd}
  /\ owned' = owned
  /\ sock' = [sock EXCEPT ![fd] = <<>>]
  /\ RemoveMessage(fd)
  /\ orderly' = (orderly /\ \A i, j \in MessagesOf(fd) : i = j /\ i # 1)
  /\ UNCHANGED <<main, tries, modem, alloc, seq>>

(* The client hung up: the connection, its client ids (the modem keeps      *)
(* them) and the first of its messages are removed, at the modem or not.    *)
cleanup_qmi_connection(fd) ==
  /\ main = "serve" /\ fd \in conns
  /\ conns' = conns \ {fd}
  /\ owned' = [owned EXCEPT ![fd] = {}]
  /\ sock' = [sock EXCEPT ![fd] = <<>>]
  /\ RemoveMessage(fd)
  /\ orderly' = (orderly /\ \A i, j \in MessagesOf(fd) : i = j /\ i # 1)
  /\ UNCHANGED <<main, tries, modem, alloc, seq>>

-----------------------------------------------------------------------------
(* Requests.                                                                *)

Outstanding(id) ==
  \E r \in ToSet(queue) \cup ToSet(modem) \cup UNION {ToSet(sock[fd]) : fd \in Fds} :
    r.kind = "release" /\ r.id = id

(* A client writes a control request; it releases an id that it has, once.  *)
ClientWrite(fd, kind, id) ==
  /\ main = "serve" /\ fd \in conns /\ seq < MaxReq
  /\ IF kind = "release" THEN id \in owned[fd] /\ ~Outstanding(id) ELSE id = NoId
  /\ seq' = seq + 1
  /\ sock' = [sock EXCEPT ![fd] = Append(@, [fd |-> fd, n |-> seq', kind |-> kind, id |-> id])]
  /\ UNCHANGED <<main, tries, conns, owned, queue, modem, alloc, orderly>>

(* Only the head of the queue is at the modem. *)
send_qmi(r) ==
  /\ queue' = Append(queue, r)
  /\ IF queue = <<>>
     THEN /\ send_qmi_to_cdc_wdm(r)
          /\ orderly' = (orderly /\ modem = <<>> /\ ~Lost(r))
     ELSE UNCHANGED <<modem, orderly>>

(* The read takes all that is there; a single request is passed on, several *)
(* are not as long as the first one says and are dropped.                   *)
ReadClient(fd) ==
  /\ main = "serve" /\ fd \in conns /\ sock[fd] # <<>>
  /\ Len(modem) < MaxModem
  /\ sock' = [sock EXCEPT ![fd] = <<>>]
  /\ IF Len(sock[fd]) = 1 THEN send_qmi(Head(sock[fd])) ELSE UNCHANGED <<queue, modem, orderly>>
  /\ UNCHANGED <<main, tries, conns, owned, alloc, seq>>

-----------------------------------------------------------------------------
(* Messages of the modem.                                                   *)

(* What the modem does with a request: the ids in use and, for "get", the   *)
(* id in the answer (NoId: refused).                                        *)
Works(r, id) ==
  CASE r.kind = "get" -> /\ id \in (Ids \ alloc) \cup {NoId}
                         /\ alloc' = alloc \cup ({id} \ {NoId})
    [] r.kind = "release" -> id = r.id /\ alloc' = alloc \ {id}
    [] r.kind = "other" -> id = NoId /\ UNCHANGED alloc

(* Mutant: a released id stays at the connection. *)
NoteIdKeepsReleased(r, id, fd) ==
  owned' = IF r.kind = "get" THEN [owned EXCEPT ![fd] = @ \cup ({id} \ {NoId})] ELSE owned

(* get_client_id and release_client_id, at the connection that is sent the  *)
(* answer.                                                                  *)
NoteId(r, id, fd) ==
  owned' = CASE r.kind = "get" -> [owned EXCEPT ![fd] = @ \cup ({id} \ {NoId})]
             [] r.kind = "release" -> [owned EXCEPT ![fd] = @ \ {id}]
             [] r.kind = "other" -> owned

(* Mutant: the next request is only written when another one is read. *)
SendNextNever(q, m) ==
  modem' = m /\ UNCHANGED orderly

(* The second half of recv_qmi: the head of the queue is written, if its    *)
(* connection is still there.                                               *)
SendNext(q, m) ==
  IF q # <<>> /\ Head(q).fd \in conns
  THEN /\ Len(m) < MaxModem
       /\ modem' \in {Append(m, Head(q)), m}
       /\ orderly' = (orderly /\ modem' # m)
  ELSE modem' = m /\ UNCHANGED orderly

(* A control answer goes to the connection at the head of the queue, which  *)
(* is removed; then the next one is written.                                *)
RecvResponse(id) ==
  /\ main = "serve" /\ modem # <<>>
  /\ LET r == Head(modem)
     IN  /\ Works(r, id)
         /\ IF queue # <<>> /\ Head(queue).fd \in conns THEN NoteId(r, id, Head(queue).fd)
            ELSE UNCHANGED owned
         /\ queue' = IF queue # <<>> THEN Tail(queue) ELSE queue
         /\ SendNext(queue', Tail(modem))
  /\ UNCHANGED <<main, tries, conns, sock, seq>>

(* Any other control message makes recv_qmi write the head once more. *)
RecvIndication ==
  /\ main = "serve" /\ queue # <<>> /\ Head(queue).fd \in conns
  /\ Len(modem) < MaxModem
  /\ send_qmi_to_cdc_wdm(Head(queue))
  /\ orderly' = FALSE
  /\ UNCHANGED <<main, tries, clientVars, queue, alloc, seq>>

(* The modem does not answer a request. *)
ModemDrops ==
  /\ modem # <<>>
  /\ modem' = Tail(modem)
  /\ orderly' = FALSE
  /\ UNCHANGED <<main, tries, clientVars, queue, alloc, seq>>

(* The device hangs up: qmi_proxy_loop cleans up every connection and ends, *)
(* the server and the device are closed.                                    *)
LoopExit ==
  /\ main \in {"init", "serve"}
  /\ main' = "closed"
  /\ conns' = {} /\ owned' = [fd \in Fds |-> {}] /\ sock' = [fd \in Fds |-> <<>>]
  /\ queue' = <<>> /\ modem' = <<>>
  /\ UNCHANGED <<tries, alloc, seq, orderly>>

(* The device is there again and main opens it. *)
Reopen ==
  /\ main = "closed"
  /\ main' = "init" /\ tries' = 0
  /\ orderly' = TRUE
  /\ UNCHANGED <<clientVars, queue, modem, alloc, seq>>

-----------------------------------------------------------------------------
Accepts == \E fd \in Fds \cup {NoFd} : accept_qmi_connection(fd)

Clients ==
  \E fd \in Fds :
    \/ cleanup_qmi_connection(fd)
    \/ \E kind \in {"get", "release", "other"}, id \in Ids \cup {NoId} : ClientWrite(fd, kind, id)

Responses == \E id \in Ids \cup {NoId} : RecvResponse(id)

Next ==
  \/ \E ok \in BOOLEAN : InitAttempt(ok)
  \/ RecvInit \/ Accepts \/ Clients \/ Responses \/ RecvIndication \/ ModemDrops \/ LoopExit \/ Reopen
  \/ \E fd \in Fds : ReadClient(fd)

Spec == Init /\ [][Next]_vars

(* The loop reads what is there, the modem answers, and main goes on.       *)
FairSpec ==
  /\ Spec
  /\ WF_vars(Responses) /\ WF_vars(RecvInit) /\ WF_vars(Reopen)
  /\ WF_vars(\E ok \in BOOLEAN : InitAttempt(ok))
  /\ \A fd \in Fds : WF_vars(ReadClient(fd))

TypeOK ==
  /\ main \in {"init", "serve", "closed"} /\ tries \in 0 .. MaxTries
  /\ conns \in SUBSET (Fds \cup {NoFd})
  /\ owned \in [Fds -> SUBSET Ids] /\ sock \in [Fds -> Seq(Request)]
  /\ queue \in Seq(Request) /\ modem \in Seq(Request)
  /\ alloc \in SUBSET Ids /\ seq \in 0 .. MaxReq /\ orderly \in BOOLEAN
  /\ \A fd \in Fds : owned[fd] # {} \/ sock[fd] # <<>> => fd \in conns

(* The answer recv_qmi takes for that of the head of the queue is its       *)
(* answer: while the proxy is orderly exactly the head is at the modem, and *)
(* its connection is open, although connections come and go, descriptors    *)
(* are used again and requests are dropped on their way in.                 *)
AnswerIsForHead ==
  orderly /\ queue # <<>> => modem = <<Head(queue)>> /\ Head(queue).fd \in conns

(* While the proxy is orderly, service messages of a client id go to one    *)
(* connection only, and the id is in use at the modem.                      *)
IdHasOneOwner ==
  orderly => /\ \A fd \in Fds : owned[fd] \subseteq alloc
             /\ \A a, b \in Fds : owned[a] \cap owned[b] # {} => a = b

(* A control request that was queued leaves the queue: it is answered, its  *)
(* connection is closed, or the proxy has got out of step.                  *)
QueueMoves ==
  \A n \in 1 .. MaxReq :
    (orderly /\ \E i \in DOMAIN queue : queue[i].n = n)
      ~> (~orderly \/ \A i \in DOMAIN queue : queue[i].n # n)
=============================================================================
