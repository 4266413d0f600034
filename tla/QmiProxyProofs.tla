--------------------------- MODULE QmiProxyProofs ---------------------------
(* Proofs about QmiProxy, for every set of descriptors and client ids.      *)
EXTENDS QmiProxy, SequenceTheorems, TLAPS

(* Every queued request belongs to an open connection: closing one removes  *)
(* its only request.  Without it nothing is known of the request that       *)
(* becomes the head when an answer arrives.                                 *)
QueueOpen == orderly => \A i \in DOMAIN queue : queue[i].fd \in conns

(* The head of the queue, and nothing else, is at the modem.                *)
HeadAtModem == orderly /\ queue # <<>> => modem = <<Head(queue)>>

(* Only a server has a queue.                                               *)
QueueServed == main # "serve" => queue = <<>>

(* A connection's requests name it, and so does the queue they get into.    *)
SockOwn == \A fd \in Fds : \A i \in DOMAIN sock[fd] : sock[fd][i].fd = fd

IndInv == TypeOK /\ QueueServed /\ QueueOpen /\ HeadAtModem /\ SockOwn

(* No request comes from a connection whose accept failed. *)
LEMMA SenderIsReal ==
  ASSUME NEW r \in Request, r.fd \in Fds \cup {NoFd}
  PROVE  r.fd \in Fds
  BY ProxyAssumption DEF Request

(* What qlist_remove leaves of a list: its other elements, the head         *)
(* included unless it was removed.                                          *)
LEMMA RemoveAtFacts ==
  ASSUME NEW S, NEW s \in Seq(S), NEW i \in 1 .. Len(s)
  PROVE  /\ RemoveAt(s, i) \in Seq(S)
         /\ \A k \in DOMAIN RemoveAt(s, i) : \E j \in DOMAIN s : j # i /\ RemoveAt(s, i)[k] = s[j]
         /\ i # 1 => RemoveAt(s, i) # <<>> /\ Head(RemoveAt(s, i)) = Head(s)
         /\ \A k \in DOMAIN RemoveAt(s, i) :
              /\ k \in 1 .. Len(s) - 1
              /\ RemoveAt(s, i)[k] = IF k < i THEN s[k] ELSE s[k + 1]
<1> DEFINE a == SubSeq(s, 1, i - 1)
<1> DEFINE b == SubSeq(s, i + 1, Len(s))
<1>1. /\ a \in Seq(S) /\ Len(a) = i - 1
      /\ \A k \in 1 .. i - 1 : a[k] = s[k]
  OBVIOUS
<1>2. /\ b \in Seq(S) /\ Len(b) = Len(s) - i
      /\ \A k \in 1 .. Len(s) - i : b[k] = s[k + i]
  OBVIOUS
<1>3. RemoveAt(s, i) = a \o b
  BY DEF RemoveAt
<1> HIDE DEF a, b
<1>4. a \o b \in Seq(S)
  BY <1>1, <1>2
<1>5. Len(a \o b) = Len(s) - 1
  BY <1>1, <1>2
<1>6. ASSUME NEW k \in 1 .. Len(s) - 1
      PROVE  (a \o b)[k] = IF k < i THEN s[k] ELSE s[k + 1]
  <2>1. CASE k < i
    BY <2>1, <1>1, <1>2
  <2>2. CASE ~(k < i)
    <3>1. (a \o b)[k] = b[k - Len(a)]
      BY <2>2, <1>1, <1>2
    <3>2. k - Len(a) \in 1 .. Len(s) - i /\ k - Len(a) + i = k + 1
      BY <2>2, <1>1
    <3> QED
      BY <3>1, <3>2, <2>2, <1>2
  <2> QED
    BY <2>1, <2>2
<1>7. ASSUME NEW k \in DOMAIN (a \o b)
      PROVE  \E j \in DOMAIN s : j # i /\ (a \o b)[k] = s[j]
  <2>1. k \in 1 .. Len(s) - 1
    BY <1>4, <1>5
  <2>2. CASE k < i
    <3>1. k \in DOMAIN s /\ k # i /\ (a \o b)[k] = s[k]
      BY <2>1, <2>2, <1>6
    <3> QED
      BY <3>1
  <2>3. CASE ~(k < i)
    <3>1. k + 1 \in DOMAIN s /\ k + 1 # i /\ (a \o b)[k] = s[k + 1]
      BY <2>1, <2>3, <1>6
    <3> QED
      BY <3>1
  <2> QED
    BY <2>2, <2>3
<1>8. ASSUME i # 1
      PROVE  a \o b # <<>> /\ Head(a \o b) = Head(s)
  <2>1. 1 \in 1 .. Len(s) - 1 /\ 1 < i
    BY <1>8
  <2>2. (a \o b)[1] = s[1]
    BY <2>1, <1>6
  <2> QED
    BY <2>1, <2>2, <1>4, <1>5
<1>9. DOMAIN (a \o b) = 1 .. Len(s) - 1
  BY <1>4, <1>5
<1> QED
  BY <1>3, <1>4, <1>6, <1>7, <1>8, <1>9

(* The inductive invariant holds at the start.                              *)
THEOREM InitIndInv == Init => IndInv
  BY ProxyAssumption DEF Init, IndInv, TypeOK, QueueServed, QueueOpen, HeadAtModem, SockOwn

(* Every step keeps the inductive invariant.                                *)
THEOREM NextIndInv == IndInv /\ [Next]_vars => IndInv'
<1> SUFFICES ASSUME IndInv, [Next]_vars
             PROVE  IndInv'
  OBVIOUS
<1> USE ProxyAssumption
<1>1. ASSUME NEW ok \in BOOLEAN, InitAttempt(ok)
      PROVE  IndInv'
  <2>1. Late \in Request
    BY DEF Late, Request
  <2>2. Append(modem, Late) \in Seq(Request)
    BY <2>1 DEF IndInv, TypeOK
  <2>3. modem' \in Seq(Request)
    BY <1>1, <2>2 DEF InitAttempt, qmi_proxy_init, send_qmi_timeout, IndInv, TypeOK
  <2>4. alloc' \in SUBSET Ids
    <3>1. alloc' = {} \/ alloc' = alloc
      BY <1>1 DEF InitAttempt, qmi_proxy_init
    <3> QED
      BY <3>1 DEF IndInv, TypeOK
  <2> QED
    BY <1>1, <2>3, <2>4
    DEF InitAttempt, IndInv, TypeOK, QueueServed, QueueOpen, HeadAtModem, SockOwn, clientVars
<1>2. CASE RecvInit
  BY <1>2
  DEF RecvInit, IndInv, TypeOK, QueueServed, QueueOpen, HeadAtModem, SockOwn, clientVars
<1>3. ASSUME NEW fd \in Fds \cup {NoFd}, accept_qmi_connection(fd)
      PROVE  IndInv'
  BY <1>3
  DEF accept_qmi_connection, IndInv, TypeOK, QueueServed, QueueOpen, HeadAtModem, SockOwn
<1>4. ASSUME NEW fd \in Fds, cleanup_qmi_connection(fd)
      PROVE  IndInv'
  <2>1. queue' \in Seq(Request)
    <3>1. CASE MessagesOf(fd) = {} /\ UNCHANGED queue
      BY <3>1 DEF IndInv, TypeOK
    <3>2. ASSUME NEW i \in MessagesOf(fd), queue' = RemoveAt(queue, i)
          PROVE  queue' \in Seq(Request)
      <4>1. queue \in Seq(Request) /\ i \in 1 .. Len(queue)
        BY <3>2 DEF MessagesOf, IndInv, TypeOK
      <4> QED
        BY <4>1, <3>2, RemoveAtFacts
    <3> QED
      BY <1>4, <3>1, <3>2 DEF cleanup_qmi_connection, RemoveMessage
  <2>2. TypeOK' /\ SockOwn'
    BY <1>4, <2>1 DEF cleanup_qmi_connection, IndInv, TypeOK, SockOwn
  <2>3. ASSUME orderly'
        PROVE  /\ \A k \in DOMAIN queue' : queue'[k].fd \in conns'
               /\ queue' # <<>> => modem' = <<Head(queue')>>
    <3>1. orderly /\ \A i, j \in MessagesOf(fd) : i = j /\ i # 1
      BY <1>4, <2>3 DEF cleanup_qmi_connection
    <3>2. CASE MessagesOf(fd) = {} /\ UNCHANGED queue
      BY <1>4, <3>1, <3>2 DEF cleanup_qmi_connection, MessagesOf, IndInv, QueueOpen, HeadAtModem
    <3>3. ASSUME NEW i \in MessagesOf(fd), queue' = RemoveAt(queue, i)
          PROVE  /\ \A k \in DOMAIN queue' : queue'[k].fd \in conns'
                 /\ queue' # <<>> => modem' = <<Head(queue')>>
      <4>1. queue \in Seq(Request) /\ i \in 1 .. Len(queue) /\ i # 1
        BY <3>1, <3>3 DEF MessagesOf, IndInv, TypeOK
      <4>2. Head(queue') = Head(queue) /\ queue # <<>>
        BY <4>1, <3>3, RemoveAtFacts
      <4>3. ASSUME NEW k \in DOMAIN queue'
            PROVE  queue'[k].fd \in conns'
        <5>1. PICK j \in DOMAIN queue : j # i /\ queue'[k] = queue[j]
          BY <4>1, <4>3, <3>3, RemoveAtFacts
        <5>2. j \notin MessagesOf(fd)
          BY <5>1, <3>1, <3>3
        <5> QED
          BY <5>1, <5>2, <3>1, <1>4 DEF MessagesOf, cleanup_qmi_connection, IndInv, QueueOpen
      <4> QED
        BY <4>2, <4>3, <3>1, <1>4 DEF cleanup_qmi_connection, IndInv, HeadAtModem
    <3> QED
      BY <1>4, <3>2, <3>3 DEF cleanup_qmi_connection, RemoveMessage
  <2> QED
    BY <1>4, <2>2, <2>3 DEF cleanup_qmi_connection, IndInv, QueueServed, QueueOpen, HeadAtModem
<1>5. ASSUME NEW fd \in Fds, NEW kind \in {"get", "release", "other"}, NEW id \in Ids \cup {NoId},
             ClientWrite(fd, kind, id)
      PROVE  IndInv'
  <2>1. [fd |-> fd, n |-> seq', kind |-> kind, id |-> id] \in Request /\ seq' \in 0 .. MaxReq
    BY <1>5 DEF ClientWrite, Request, IndInv, TypeOK
  <2>2. sock' \in [Fds -> Seq(Request)]
    BY <1>5, <2>1 DEF ClientWrite, IndInv, TypeOK
  <2>3. SockOwn'
    <3> DEFINE r == [fd |-> fd, n |-> seq', kind |-> kind, id |-> id]
    <3>1. sock' = [sock EXCEPT ![fd] = Append(sock[fd], r)] /\ r.fd = fd /\ r \in Request
      BY <1>5, <2>1 DEF ClientWrite
    <3> HIDE DEF r
    <3>2. \A i \in DOMAIN Append(sock[fd], r) : Append(sock[fd], r)[i].fd = fd
      BY <3>1 DEF IndInv, TypeOK, SockOwn
    <3> QED
      BY <3>1, <3>2 DEF IndInv, TypeOK, SockOwn
  <2> QED
    BY <1>5, <2>1, <2>2, <2>3 DEF ClientWrite, IndInv, TypeOK, QueueServed, QueueOpen, HeadAtModem
<1>6. ASSUME NEW fd \in Fds, ReadClient(fd)
      PROVE  IndInv'
  <2>1. sock' \in [Fds -> Seq(Request)]
    BY <1>6 DEF ReadClient, IndInv, TypeOK
  <2>2. CASE Len(sock[fd]) # 1
    BY <1>6, <2>1, <2>2
    DEF ReadClient, IndInv, TypeOK, QueueServed, QueueOpen, HeadAtModem, SockOwn
  <2>3. CASE Len(sock[fd]) = 1
    <3> DEFINE r == Head(sock[fd])
    <3>1. sock[fd] \in Seq(Request) /\ queue \in Seq(Request) /\ modem \in Seq(Request)
      BY DEF IndInv, TypeOK
    <3>2. r \in Request /\ r.fd \in conns
      <4>1. r = sock[fd][1] /\ 1 \in DOMAIN sock[fd] /\ r \in Request
        BY <3>1, <2>3
      <4> QED
        BY <4>1, <1>6 DEF ReadClient, IndInv, SockOwn
    <3>3. send_qmi(r) /\ main = "serve"
      BY <1>6, <2>3 DEF ReadClient
    <3> HIDE DEF r
    <3>4. /\ Append(queue, r) \in Seq(Request) /\ Append(modem, r) \in Seq(Request)
          /\ DOMAIN Append(queue, r) = 1 .. Len(queue) + 1
          /\ Append(queue, r)[Len(queue) + 1] = r
          /\ \A i \in 1 .. Len(queue) : Append(queue, r)[i] = queue[i]
          /\ Append(queue, r) # <<>>
      BY <3>1, <3>2
    <3>5. queue' = Append(queue, r) /\ queue' \in Seq(Request) /\ modem' \in Seq(Request)
      BY <3>1, <3>3, <3>4 DEF send_qmi, send_qmi_to_cdc_wdm
    <3>6. orderly' \in BOOLEAN /\ (orderly' => orderly)
      BY <3>3, Zenon DEF send_qmi, IndInv, TypeOK
    <3>7. TypeOK' /\ QueueServed' /\ SockOwn'
      BY <1>6, <2>1, <3>3, <3>5, <3>6 DEF ReadClient, IndInv, TypeOK, QueueServed, SockOwn
    <3>8. QueueOpen'
      <4>1. SUFFICES ASSUME orderly', NEW i \in DOMAIN queue'
                     PROVE  queue'[i].fd \in conns
        BY <1>6 DEF ReadClient, QueueOpen
      <4>2. CASE i = Len(queue) + 1
        BY <4>2, <3>2, <3>4, <3>5
      <4>3. CASE i \in 1 .. Len(queue)
        BY <4>1, <4>3, <3>1, <3>4, <3>5, <3>6 DEF IndInv, QueueOpen
      <4> QED
        BY <4>2, <4>3, <3>1, <3>4, <3>5
    <3>9. HeadAtModem'
      <4>1. SUFFICES ASSUME orderly'
                     PROVE  modem' = <<Head(queue')>>
        BY DEF HeadAtModem
      <4>2. CASE queue = <<>>
        <5>1. modem = <<>> /\ modem' = Append(modem, r)
          BY <3>3, <4>1, <4>2 DEF send_qmi, Lost
        <5>2. Head(queue') = r
          BY <4>2, <3>1, <3>2, <3>5
        <5> QED
          BY <5>1, <5>2, <3>2
      <4>3. CASE queue # <<>>
        <5>1. UNCHANGED modem
          BY <3>3, <4>3 DEF send_qmi
        <5>2. Head(queue') = Head(queue)
          BY <4>3, <3>1, <3>2, <3>5
        <5> QED
          BY <5>1, <5>2, <4>1, <4>3, <3>6 DEF IndInv, HeadAtModem
      <4> QED
        BY <4>2, <4>3
    <3> QED
      BY <3>7, <3>8, <3>9 DEF IndInv
  <2> QED
    BY <2>2, <2>3
<1>7. ASSUME NEW id \in Ids \cup {NoId}, RecvResponse(id)
      PROVE  IndInv'
  <2> DEFINE r == Head(modem)
  <2> DEFINE q == IF queue # <<>> THEN Tail(queue) ELSE queue
  <2>1. /\ queue \in Seq(Request) /\ modem \in Seq(Request) /\ modem # <<>>
        /\ main = "serve"
    BY <1>7 DEF RecvResponse, IndInv, TypeOK
  <2>2. r \in Request /\ Tail(modem) \in Seq(Request)
    BY <2>1
  <2>3. q \in Seq(Request)
    BY <2>1
  <2>4. /\ Works(r, id) /\ queue' = q /\ SendNext(q, Tail(modem))
        /\ IF queue # <<>> /\ Head(queue).fd \in conns THEN NoteId(r, id, Head(queue).fd)
           ELSE UNCHANGED owned
    BY <1>7 DEF RecvResponse
  <2>5. UNCHANGED <<main, tries, conns, sock, seq>>
    BY <1>7 DEF RecvResponse
  <2>6. r.kind \in {"get", "release", "other"}
    BY <2>2 DEF Request
  <2> HIDE DEF r
  <2>7. alloc' \in SUBSET Ids
    BY <2>4, <2>6 DEF Works, IndInv, TypeOK
  <2>8. /\ owned' \in [Fds -> SUBSET Ids]
        /\ \A fd \in Fds : owned'[fd] # {} => fd \in conns
    <3>1. CASE UNCHANGED owned
      BY <3>1 DEF IndInv, TypeOK
    <3>2. CASE queue # <<>> /\ Head(queue).fd \in conns /\ NoteId(r, id, Head(queue).fd)
      <4> DEFINE c == Head(queue).fd
      <4>0. Head(queue) \in Request
        BY <2>1, <3>2
      <4>1. c \in Fds /\ c \in conns
        BY <3>2, <4>0, SenderIsReal DEF IndInv, TypeOK
      <4> HIDE DEF c
      <4>2. \/ owned' = [owned EXCEPT ![c] = owned[c] \cup ({id} \ {NoId})]
            \/ owned' = [owned EXCEPT ![c] = owned[c] \ {id}]
            \/ owned' = owned
        BY <3>2, <2>6 DEF NoteId, c
      <4>3. owned \in [Fds -> SUBSET Ids] /\ \A fd \in Fds : owned[fd] # {} => fd \in conns
        BY DEF IndInv, TypeOK
      <4>4. {id} \ {NoId} \subseteq Ids
        OBVIOUS
      <4>5. ASSUME NEW new \in SUBSET Ids, owned' = [owned EXCEPT ![c] = new]
            PROVE  /\ owned' \in [Fds -> SUBSET Ids]
                   /\ \A fd \in Fds : owned'[fd] # {} => fd \in conns
        BY <4>1, <4>3, <4>5
      <4>6. owned[c] \cup ({id} \ {NoId}) \in SUBSET Ids /\ owned[c] \ {id} \in SUBSET Ids
        BY <4>1, <4>3, <4>4
      <4> QED
        BY <4>2, <4>3, <4>5, <4>6
    <3> QED
      BY <3>1, <3>2, <2>4
  <2>9. modem' \in Seq(Request)
    <3>1. CASE q # <<>> /\ Head(q).fd \in conns
      <4>1. Head(q) \in Request
        BY <2>3, <3>1
      <4> HIDE DEF q
      <4>2. Append(Tail(modem), Head(q)) \in Seq(Request)
        BY <4>1, <2>2
      <4> QED
        BY <3>1, <4>2, <2>2, <2>4 DEF SendNext
    <3>2. CASE ~(q # <<>> /\ Head(q).fd \in conns)
      BY <3>2, <2>2, <2>4 DEF SendNext
    <3> QED
      BY <3>1, <3>2
  <2>10. orderly' \in BOOLEAN /\ (orderly' => orderly)
    BY <2>4, Zenon DEF SendNext, IndInv, TypeOK
  <2>11. TypeOK' /\ QueueServed' /\ SockOwn'
    BY <2>1, <2>3, <2>4, <2>5, <2>7, <2>8, <2>9, <2>10
    DEF IndInv, TypeOK, QueueServed, SockOwn
  <2>12. QueueOpen'
    <3>1. SUFFICES ASSUME orderly', NEW i \in DOMAIN queue'
                   PROVE  queue'[i].fd \in conns
      BY <2>5 DEF QueueOpen
    <3>2. CASE queue = <<>>
      BY <2>4, <3>1, <3>2
    <3>3. CASE queue # <<>>
      <4>1. i + 1 \in DOMAIN queue /\ queue'[i] = queue[i + 1]
        BY <2>1, <2>4, <3>1, <3>3
      <4> QED
        BY <4>1, <3>1, <2>10 DEF IndInv, QueueOpen
    <3> QED
      BY <3>2, <3>3
  <2>13. HeadAtModem'
    <3>1. SUFFICES ASSUME orderly', queue' # <<>>
                   PROVE  modem' = <<Head(queue')>>
      BY DEF HeadAtModem
    <3>2. queue # <<>> /\ modem = <<Head(queue)>>
      BY <2>4, <2>10, <3>1 DEF IndInv, HeadAtModem
    <3>3. Tail(modem) = <<>>
      <4>1. Len(Tail(modem)) = 0
        BY <3>2, <2>1
      <4> QED
        BY <4>1, <2>2, EmptySeq
    <3>4. Head(queue') \in Request /\ Head(queue').fd \in conns
      <4>1. queue' \in Seq(Request)
        BY <2>3, <2>4
      <4>2. 1 \in DOMAIN queue' /\ Head(queue') = queue'[1] /\ Head(queue') \in Request
        BY <4>1, <3>1
      <4> QED
        BY <4>2, <3>1, <2>5, <2>12 DEF QueueOpen
    <3>5. modem' = Append(Tail(modem), Head(queue'))
      <4> HIDE DEF q
      <4> QED
        BY <2>4, <3>1, <3>4 DEF SendNext
    <3>6. ASSUME NEW x \in Request
          PROVE  Append(<<>>, x) = <<x>>
      OBVIOUS
    <3> QED
      BY <3>3, <3>4, <3>5, <3>6
  <2> QED
    BY <2>11, <2>12, <2>13 DEF IndInv
<1>8. CASE RecvIndication
  <2>1. Head(queue) \in Request
    BY <1>8 DEF RecvIndication, IndInv, TypeOK
  <2>2. Append(modem, Head(queue)) \in Seq(Request)
    BY <2>1 DEF IndInv, TypeOK
  <2>3. modem' \in Seq(Request) /\ orderly' = FALSE
    BY <1>8, <2>2 DEF RecvIndication, send_qmi_to_cdc_wdm, IndInv, TypeOK
  <2> QED
    BY <1>8, <2>3
    DEF RecvIndication, IndInv, TypeOK, QueueServed, QueueOpen, HeadAtModem, SockOwn, clientVars
<1>9. CASE ModemDrops
  <2>1. modem' \in Seq(Request) /\ orderly' = FALSE
    BY <1>9 DEF ModemDrops, IndInv, TypeOK
  <2> QED
    BY <1>9, <2>1
    DEF ModemDrops, IndInv, TypeOK, QueueServed, QueueOpen, HeadAtModem, SockOwn, clientVars
<1>10. CASE LoopExit
  BY <1>10 DEF LoopExit, IndInv, TypeOK, QueueServed, QueueOpen, HeadAtModem, SockOwn
<1>11. CASE Reopen
  BY <1>11 DEF Reopen, IndInv, TypeOK, QueueServed, QueueOpen, HeadAtModem, SockOwn, clientVars
<1>12. CASE UNCHANGED vars
  BY <1>12 DEF vars, clientVars, IndInv, TypeOK, QueueServed, QueueOpen, HeadAtModem, SockOwn
<1> QED
  BY <1>1, <1>2, <1>3, <1>4, <1>5, <1>6, <1>7, <1>8, <1>9, <1>10, <1>11, <1>12
  DEF Next, Accepts, Clients, Responses

(* The inductive invariant holds in every reachable state.                  *)
THEOREM IndInvCorrect == Spec => []IndInv
  BY InitIndInv, NextIndInv, PTL DEF Spec

(* qmi_proxy_ctl_msg, the connections and their client ids keep their       *)
(* types; a closed connection has neither client ids nor unread requests.   *)
THEOREM TypeCorrect == Spec => []TypeOK
<1>1. IndInv => TypeOK
  BY DEF IndInv
<1> QED
  BY <1>1, IndInvCorrect, PTL

(* recv_qmi takes an answer for that of the head of qmi_proxy_ctl_msg: it   *)
(* is, for any number of connections, requests and client ids, as long as   *)
(* the proxy is orderly.                                                    *)
THEOREM AnswerIsForHeadCorrect == Spec => []AnswerIsForHead
<1>1. IndInv => AnswerIsForHead
  <2>1. SUFFICES ASSUME IndInv, orderly, queue # <<>>
                 PROVE  modem = <<Head(queue)>> /\ Head(queue).fd \in conns
    BY DEF AnswerIsForHead
  <2>2. queue \in Seq(Request)
    BY <2>1 DEF IndInv, TypeOK
  <2>3. 1 \in DOMAIN queue /\ Head(queue) = queue[1]
    BY <2>1, <2>2
  <2> QED
    BY <2>1, <2>3 DEF IndInv, QueueOpen, HeadAtModem
<1> QED
  BY <1>1, IndInvCorrect, PTL

-----------------------------------------------------------------------------
(* Client ids.  IdHasOneOwner alone is not inductive: the modem forgets an  *)
(* id when it works on a release, whoever holds the id by then.             *)

(* Without a server there is no connection, without a device no answer.     *)
Idle == (main # "serve" => conns = {}) /\ (main = "closed" => modem = <<>>)

(* Answers to requests the queue does not hold are those of qmi_proxy_init. *)
OnlyLate == orderly /\ queue = <<>> => \A i \in DOMAIN modem : modem[i].kind = "other"

Releases(r, id) == r.kind = "release" /\ r.id = id

(* The connection that wants to release an id still has it, ...             *)
ReleasesOwned ==
  orderly =>
    /\ \A i \in DOMAIN queue : \A id \in Ids :
         Releases(queue[i], id) => id \in owned[queue[i].fd]
    /\ \A fd \in Fds : \A i \in DOMAIN sock[fd] : \A id \in Ids :
         Releases(sock[fd][i], id) => id \in owned[fd]

(* ... because no other request on its way releases it too.                 *)
OnceInQueue ==
  \A i, j \in DOMAIN queue : \A id \in Ids :
    Releases(queue[i], id) /\ Releases(queue[j], id) => i = j
OnceInSock ==
  \A fd \in Fds : \A i, j \in DOMAIN sock[fd] : \A id \in Ids :
    Releases(sock[fd][i], id) /\ Releases(sock[fd][j], id) => i = j
OnceInBoth ==
  \A fd \in Fds : \A i \in DOMAIN sock[fd], j \in DOMAIN queue : \A id \in Ids :
    ~(Releases(sock[fd][i], id) /\ Releases(queue[j], id))
ReleasedOnce == orderly => OnceInQueue /\ OnceInSock /\ OnceInBoth

IdInv == Idle /\ OnlyLate /\ IdHasOneOwner /\ ReleasesOwned /\ ReleasedOnce

(* The places of a queue that is longer by one.                             *)
LEMMA OneMore ==
  ASSUME NEW n \in Nat
  PROVE  \A j \in 1 .. n + 1 : j \in 1 .. n \/ j = n + 1
OBVIOUS

(* Steps after which the proxy is not orderly.                              *)
LEMMA DisorderKeepsIds ==
  ASSUME IdInv, Idle', orderly' = FALSE
  PROVE  IdInv'
BY DEF IdInv, OnlyLate, IdHasOneOwner, ReleasesOwned, ReleasedOnce

(* Closing a connection.                                                    *)
LEMMA CleanupKeepsIds ==
  ASSUME IndInv, IdInv, NEW fd \in Fds, cleanup_qmi_connection(fd)
  PROVE  IdInv'
<1>1. Idle'
  BY DEF IdInv, Idle, cleanup_qmi_connection
<1>2. CASE ~orderly'
  <2>1. orderly' = FALSE
    BY <1>2, Zenon DEF cleanup_qmi_connection
  <2> QED
    BY <1>1, <2>1, DisorderKeepsIds
<1>3. CASE orderly'
  <2>1. orderly /\ \A i, j \in MessagesOf(fd) : i = j /\ i # 1
    BY <1>3 DEF cleanup_qmi_connection
  <2>2. /\ owned' = [owned EXCEPT ![fd] = {}] /\ sock' = [sock EXCEPT ![fd] = <<>>]
        /\ modem' = modem /\ alloc' = alloc
    BY DEF cleanup_qmi_connection
  <2>3. /\ owned \in [Fds -> SUBSET Ids] /\ sock \in [Fds -> Seq(Request)]
        /\ queue \in Seq(Request)
    BY DEF IndInv, TypeOK
  <2>4. /\ \A k \in DOMAIN queue' : \E j \in DOMAIN queue :
               queue'[k] = queue[j] /\ queue[j].fd # fd
        /\ queue' = <<>> => queue = <<>>
        /\ OnceInQueue => OnceInQueue'
    <3>1. CASE MessagesOf(fd) = {} /\ UNCHANGED queue
      BY <3>1 DEF MessagesOf, OnceInQueue
    <3>2. ASSUME NEW i \in MessagesOf(fd), queue' = RemoveAt(queue, i)
          PROVE  /\ \A k \in DOMAIN queue' : \E j \in DOMAIN queue :
                      queue'[k] = queue[j] /\ queue[j].fd # fd
                 /\ queue' # <<>>
                 /\ OnceInQueue => OnceInQueue'
      <4>1. i \in 1 .. Len(queue) /\ i # 1 /\ Len(queue) \in Nat
        BY <2>1, <2>3, <3>2 DEF MessagesOf
      <4>2. /\ queue' # <<>>
            /\ \A k \in DOMAIN queue' : \E j \in DOMAIN queue : j # i /\ queue'[k] = queue[j]
            /\ \A k \in DOMAIN queue' :
                 /\ k \in 1 .. Len(queue) - 1
                 /\ queue'[k] = IF k < i THEN queue[k] ELSE queue[k + 1]
        BY <2>3, <3>2, <4>1, RemoveAtFacts
      <4>3. \A k \in DOMAIN queue' : \E j \in DOMAIN queue :
              queue'[k] = queue[j] /\ queue[j].fd # fd
        BY <2>1, <3>2, <4>2 DEF MessagesOf
      <4>4. ASSUME OnceInQueue, NEW x \in DOMAIN queue', NEW y \in DOMAIN queue',
                   NEW id \in Ids, Releases(queue'[x], id), Releases(queue'[y], id)
            PROVE  x = y
        <5> DEFINE u == IF x < i THEN x ELSE x + 1
        <5> DEFINE v == IF y < i THEN y ELSE y + 1
        <5>1. /\ x \in Nat /\ y \in Nat /\ u \in DOMAIN queue /\ v \in DOMAIN queue
              /\ queue'[x] = queue[u] /\ queue'[y] = queue[v]
          BY <2>3, <4>1, <4>2
        <5>2. u = v
          <6> HIDE DEF u, v
          <6> QED
            BY <4>4, <5>1 DEF OnceInQueue
        <5> QED
          BY <4>1, <5>1, <5>2
      <4> QED
        BY <4>2, <4>3, <4>4 DEF OnceInQueue
    <3> QED
      BY <3>1, <3>2 DEF cleanup_qmi_connection, RemoveMessage
  <2>5. \A c \in Fds : /\ owned'[c] = IF c = fd THEN {} ELSE owned[c]
                       /\ sock'[c] = IF c = fd THEN <<>> ELSE sock[c]
    BY <2>2, <2>3
  <2>6. OnlyLate' /\ IdHasOneOwner'
    BY <2>1, <2>2, <2>4, <2>5 DEF IdInv, OnlyLate, IdHasOneOwner
  <2>7. ReleasesOwned'
    <3>1. ASSUME NEW x \in DOMAIN queue', NEW id \in Ids, Releases(queue'[x], id)
          PROVE  id \in owned'[queue'[x].fd]
      <4>1. PICK j \in DOMAIN queue : queue'[x] = queue[j] /\ queue[j].fd # fd
        BY <2>4
      <4>2. id \in owned[queue[j].fd]
        BY <2>1, <3>1, <4>1 DEF IdInv, ReleasesOwned
      <4> QED
        BY <2>2, <2>3, <4>1, <4>2
    <3>2. ASSUME NEW c \in Fds, NEW x \in DOMAIN sock'[c], NEW id \in Ids,
                 Releases(sock'[c][x], id)
          PROVE  id \in owned'[c]
      BY <2>1, <2>5, <3>2 DEF IdInv, ReleasesOwned
    <3> QED
      BY <3>1, <3>2 DEF ReleasesOwned
  <2>8. OnceInSock'
    BY <2>1, <2>5 DEF IdInv, ReleasedOnce, OnceInSock
  <2>9. OnceInBoth'
    <3>1. ASSUME NEW c \in Fds, NEW x \in DOMAIN sock'[c], NEW y \in DOMAIN queue',
                 NEW id \in Ids, Releases(sock'[c][x], id), Releases(queue'[y], id)
          PROVE  FALSE
      <4>1. PICK j \in DOMAIN queue : queue'[y] = queue[j]
        BY <2>4
      <4>2. c # fd /\ sock'[c] = sock[c]
        BY <2>5
      <4> QED
        BY <2>1, <3>1, <4>1, <4>2 DEF IdInv, ReleasedOnce, OnceInBoth
    <3> QED
      BY <3>1 DEF OnceInBoth
  <2> QED
    BY <1>1, <2>1, <2>4, <2>6, <2>7, <2>8, <2>9 DEF IdInv, ReleasedOnce
<1> QED
  BY <1>2, <1>3

(* A client writes a request.                                               *)
LEMMA WriteKeepsIds ==
  ASSUME IndInv, IdInv, NEW fd \in Fds, NEW kind \in {"get", "release", "other"},
         NEW i0 \in Ids \cup {NoId}, ClientWrite(fd, kind, i0)
  PROVE  IdInv'
<1> DEFINE r == [fd |-> fd, n |-> seq', kind |-> kind, id |-> i0]
<1> DEFINE s == sock[fd]
<1>1. /\ UNCHANGED <<main, conns, owned, queue, modem, alloc, orderly>>
      /\ sock' = [sock EXCEPT ![fd] = Append(s, r)]
      /\ kind = "release" => i0 \in owned[fd] /\ ~Outstanding(i0)
  BY DEF ClientWrite
<1>2. Idle' /\ OnlyLate' /\ IdHasOneOwner'
  BY <1>1 DEF IdInv, Idle, OnlyLate, IdHasOneOwner
<1>3. s \in Seq(Request) /\ sock \in [Fds -> Seq(Request)] /\ queue \in Seq(Request)
  BY DEF IndInv, TypeOK
<1>4. \A id \in Ids : Releases(r, id) => kind = "release" /\ id = i0
  BY DEF Releases
<1>5. ASSUME NEW id \in Ids, Releases(r, id)
      PROVE  /\ id \in owned[fd]
             /\ \A j \in DOMAIN s : ~Releases(s[j], id)
             /\ \A j \in DOMAIN queue : ~Releases(queue[j], id)
  <2>1. id \in owned[fd] /\ ~Outstanding(id)
    BY <1>1, <1>4, <1>5
  <2>2. ASSUME NEW j \in DOMAIN s
        PROVE  ~Releases(s[j], id)
    <3>1. s[j] \in ToSet(s)
      BY Zenon DEF ToSet
    <3>2. s[j] \in UNION {ToSet(sock[c]) : c \in Fds}
      BY <3>1
    <3> QED
      BY <2>1, <3>2 DEF Outstanding, Releases
  <2>3. ASSUME NEW j \in DOMAIN queue
        PROVE  ~Releases(queue[j], id)
    <3>1. queue[j] \in ToSet(queue)
      BY Zenon DEF ToSet
    <3> QED
      BY <2>1, <3>1 DEF Outstanding, Releases
  <2> QED
    BY <2>1, <2>2, <2>3
<1>6. r \in Request
  BY ProxyAssumption DEF ClientWrite, Request, IndInv, TypeOK
<1> HIDE DEF r
<1> DEFINE s2 == Append(s, r)
<1>7. \A c \in Fds : sock'[c] = IF c = fd THEN s2 ELSE sock[c]
  BY <1>1, <1>3
<1>8. /\ DOMAIN s2 = 1 .. Len(s) + 1 /\ DOMAIN s = 1 .. Len(s) /\ Len(s) \in Nat
      /\ s2[Len(s) + 1] = r
      /\ \A j \in DOMAIN s : s2[j] = s[j]
  BY <1>3, <1>6
<1> HIDE DEF s, s2
<1>9. ASSUME NEW j \in DOMAIN s2
      PROVE  (j \in DOMAIN s /\ s2[j] = s[j]) \/ (j = Len(s) + 1 /\ s2[j] = r)
  <2>1. j \in 1 .. Len(s) \/ j = Len(s) + 1
    BY <1>8, OneMore
  <2> QED
    BY <1>8, <2>1
<1>10. ASSUME orderly
       PROVE  ReleasesOwned' /\ OnceInQueue' /\ OnceInSock' /\ OnceInBoth'
  <2>1. ReleasesOwned /\ OnceInQueue /\ OnceInSock /\ OnceInBoth
    BY <1>10 DEF IdInv, ReleasedOnce
  <2>2. ReleasesOwned'
    <3>1. ASSUME NEW c \in Fds, NEW x \in DOMAIN sock'[c], NEW id \in Ids,
                 Releases(sock'[c][x], id)
          PROVE  id \in owned[c]
      <4>1. CASE c = fd
        BY <1>5, <1>7, <1>9, <1>10, <2>1, <3>1, <4>1 DEF ReleasesOwned, s
      <4>2. CASE c # fd
        BY <1>7, <1>10, <2>1, <3>1, <4>2 DEF ReleasesOwned
      <4> QED
        BY <4>1, <4>2
    <3> QED
      BY <1>1, <1>10, <2>1, <3>1 DEF ReleasesOwned
  <2>3. OnceInQueue'
    BY <1>1, <2>1 DEF OnceInQueue
  <2>4. OnceInSock'
    <3>1. ASSUME NEW c \in Fds, NEW x \in DOMAIN sock'[c], NEW y \in DOMAIN sock'[c],
                 NEW id \in Ids, Releases(sock'[c][x], id), Releases(sock'[c][y], id)
          PROVE  x = y
      <4>1. CASE c = fd
        BY <1>5, <1>7, <1>9, <2>1, <3>1, <4>1 DEF OnceInSock, s
      <4>2. CASE c # fd
        BY <1>7, <2>1, <3>1, <4>2 DEF OnceInSock
      <4> QED
        BY <4>1, <4>2
    <3> QED
      BY <3>1 DEF OnceInSock
  <2>5. OnceInBoth'
    <3>1. ASSUME NEW c \in Fds, NEW x \in DOMAIN sock'[c], NEW y \in DOMAIN queue,
                 NEW id \in Ids, Releases(sock'[c][x], id), Releases(queue[y], id)
          PROVE  FALSE
      <4>1. CASE c = fd
        BY <1>5, <1>7, <1>9, <2>1, <3>1, <4>1 DEF OnceInBoth, s
      <4>2. CASE c # fd
        BY <1>7, <2>1, <3>1, <4>2 DEF OnceInBoth
      <4> QED
        BY <4>1, <4>2
    <3> QED
      BY <1>1, <3>1 DEF OnceInBoth
  <2> QED
    BY <2>2, <2>3, <2>4, <2>5
<1> QED
  BY <1>1, <1>2, <1>10 DEF IdInv, ReleasedOnce, ReleasesOwned

(* The proxy reads a request and puts it into the queue.                    *)
LEMMA ReadKeepsIds ==
  ASSUME IndInv, IdInv, NEW fd \in Fds, ReadClient(fd)
  PROVE  IdInv'
<1>1. Idle'
  BY DEF IdInv, Idle, ReadClient
<1>2. /\ sock' = [sock EXCEPT ![fd] = <<>>] /\ sock \in [Fds -> Seq(Request)]
      /\ queue \in Seq(Request) /\ UNCHANGED <<owned, alloc>>
  BY DEF ReadClient, IndInv, TypeOK
<1>3. \A c \in Fds : sock'[c] = IF c = fd THEN <<>> ELSE sock[c]
  BY <1>2
<1>4. CASE Len(sock[fd]) # 1
  <2>1. UNCHANGED <<queue, modem, orderly>>
    BY <1>4 DEF ReadClient
  <2>2. OnlyLate' /\ IdHasOneOwner'
    BY <1>2, <2>1 DEF IdInv, OnlyLate, IdHasOneOwner
  <2>3. ReleasesOwned'
    BY <1>2, <1>3, <2>1 DEF IdInv, ReleasesOwned
  <2>4. ReleasedOnce'
    BY <1>2, <1>3, <2>1 DEF IdInv, ReleasedOnce, OnceInQueue, OnceInSock, OnceInBoth
  <2> QED
    BY <1>1, <2>2, <2>3, <2>4 DEF IdInv
<1>5. CASE Len(sock[fd]) = 1
  <2> DEFINE r == sock[fd][1]
  <2>1. r = Head(sock[fd]) /\ 1 \in DOMAIN sock[fd] /\ r \in Request /\ r.fd = fd
    BY <1>2, <1>5 DEF IndInv, SockOwn
  <2>2. send_qmi(r)
    BY <1>5, <2>1 DEF ReadClient
  <2>3. CASE ~orderly'
    <3>1. orderly' = FALSE
      <4>1. orderly' \in BOOLEAN
        BY <2>2, Zenon DEF send_qmi, IndInv, TypeOK
      <4> QED
        BY <2>3, <4>1
    <3> QED
      BY <1>1, <3>1, DisorderKeepsIds
  <2>4. CASE orderly'
    <3> DEFINE q == Append(queue, r)
    <3>1. queue' = q /\ orderly
      BY <2>2, <2>4, Zenon DEF send_qmi
    <3>2. /\ DOMAIN q = 1 .. Len(queue) + 1 /\ DOMAIN queue = 1 .. Len(queue)
          /\ Len(queue) \in Nat /\ q[Len(queue) + 1] = r /\ q # <<>>
          /\ \A j \in DOMAIN queue : q[j] = queue[j]
      <4>1. queue \in Seq(Request) /\ r \in Request
        BY <1>2, <2>1
      <4> HIDE DEF r
      <4> QED
        BY <4>1
    <3> HIDE DEF q
    <3>3. \A j \in DOMAIN q : \/ j \in DOMAIN queue /\ q[j] = queue[j]
                              \/ j = Len(queue) + 1 /\ q[j] = r
      <4>1. \A j \in 1 .. Len(queue) + 1 : j \in 1 .. Len(queue) \/ j = Len(queue) + 1
        BY <3>2, OneMore
      <4> QED
        BY <3>2, <4>1, Zenon
    <3>4. /\ ReleasesOwned /\ OnceInQueue /\ OnceInSock /\ OnceInBoth
      BY <3>1 DEF IdInv, ReleasedOnce
    <3>5. \A id \in Ids : Releases(r, id) =>
            /\ id \in owned[fd]
            /\ \A j \in DOMAIN queue : ~Releases(queue[j], id)
      BY <2>1, <3>1, <3>4 DEF ReleasesOwned, OnceInBoth
    <3>6. \A c \in Fds : \A x \in DOMAIN sock'[c] :
            c # fd /\ x \in DOMAIN sock[c] /\ sock'[c][x] = sock[c][x]
      BY <1>3
    <3>7. ASSUME NEW c \in Fds, c # fd, NEW x \in DOMAIN sock[c], NEW id \in Ids,
                 Releases(sock[c][x], id)
          PROVE  ~Releases(r, id)
      <4>1. id \in owned[c]
        BY <3>1, <3>4, <3>7 DEF ReleasesOwned
      <4>2. id \notin owned[fd]
        BY <3>1, <3>7, <4>1 DEF IdInv, IdHasOneOwner
      <4> QED
        BY <3>5, <4>2
    <3> HIDE DEF r
    <3>8. OnlyLate' /\ IdHasOneOwner'
      BY <1>2, <3>1, <3>2 DEF IdInv, OnlyLate, IdHasOneOwner
    <3>9. ReleasesOwned'
      <4>1. \A x \in DOMAIN q : \A id \in Ids : Releases(q[x], id) => id \in owned[q[x].fd]
        BY <2>1, <3>1, <3>3, <3>4, <3>5 DEF ReleasesOwned
      <4>2. \A c \in Fds : \A x \in DOMAIN sock'[c] : \A id \in Ids :
              Releases(sock'[c][x], id) => id \in owned[c]
        BY <3>1, <3>4, <3>6 DEF ReleasesOwned
      <4> QED
        BY <1>2, <3>1, <4>1, <4>2 DEF ReleasesOwned
    <3>10. OnceInQueue'
      <4>1. \A x, y \in DOMAIN q : \A id \in Ids :
              Releases(q[x], id) /\ Releases(q[y], id) => x = y
        BY <3>3, <3>4, <3>5 DEF OnceInQueue
      <4> QED
        BY <3>1, <4>1 DEF OnceInQueue
    <3>11. OnceInSock'
      <4>1. \A c \in Fds : \A x, y \in DOMAIN sock'[c] : \A id \in Ids :
              Releases(sock'[c][x], id) /\ Releases(sock'[c][y], id) => x = y
        BY <3>4, <3>6 DEF OnceInSock
      <4> QED
        BY <4>1 DEF OnceInSock
    <3>12. OnceInBoth'
      <4>1. ASSUME NEW c \in Fds, NEW x \in DOMAIN sock'[c], NEW y \in DOMAIN q,
                   NEW id \in Ids, Releases(sock'[c][x], id), Releases(q[y], id)
            PROVE  FALSE
        <5>1. c # fd /\ x \in DOMAIN sock[c] /\ Releases(sock[c][x], id)
          BY <3>6, <4>1
        <5>2. ~Releases(r, id)
          BY <3>7, <5>1
        <5> QED
          BY <3>3, <3>4, <4>1, <5>1, <5>2 DEF OnceInBoth
      <4> QED
        BY <3>1, <4>1 DEF OnceInBoth
    <3> QED
      BY <1>1, <3>8, <3>9, <3>10, <3>11, <3>12 DEF IdInv, ReleasedOnce
  <2> QED
    BY <2>3, <2>4
<1> QED
  BY <1>4, <1>5

(* An answer: the modem hands out an id that nobody has, or forgets the one *)
(* that the connection at the head of the queue, its only owner, gives up.  *)
LEMMA ResponseKeepsIds ==
  ASSUME IndInv, IdInv, NEW i0 \in Ids \cup {NoId}, RecvResponse(i0)
  PROVE  IdInv'
<1> DEFINE r == Head(modem)
<1>1. Idle'
  BY DEF IdInv, Idle, RecvResponse
<1>2. CASE ~orderly'
  <2>1. orderly' \in BOOLEAN
    BY Zenon DEF RecvResponse, SendNext, IndInv, TypeOK
  <2>2. orderly' = FALSE
    BY <1>2, <2>1
  <2> QED
    BY <1>1, <2>2, DisorderKeepsIds
<1>3. CASE orderly'
  <2>1. orderly
    BY <1>3, Zenon DEF RecvResponse, SendNext
  <2>2. /\ queue \in Seq(Request) /\ modem \in Seq(Request) /\ modem # <<>>
        /\ owned \in [Fds -> SUBSET Ids] /\ UNCHANGED <<main, conns, sock>>
    BY DEF RecvResponse, IndInv, TypeOK
  <2>3. /\ Works(r, i0) /\ SendNext(queue', Tail(modem))
        /\ IF queue # <<>> /\ Head(queue).fd \in conns THEN NoteId(r, i0, Head(queue).fd)
           ELSE UNCHANGED owned
        /\ queue' = IF queue # <<>> THEN Tail(queue) ELSE queue
    BY DEF RecvResponse
  <2>4. /\ IdHasOneOwner /\ ReleasesOwned /\ OnceInQueue /\ OnceInSock /\ OnceInBoth
    BY <2>1 DEF IdInv, ReleasedOnce
  <2>5. CASE queue = <<>>
    <3>1. r.kind = "other"
      <4>1. 1 \in DOMAIN modem /\ r = modem[1]
        BY <2>2
      <4> QED
        BY <2>1, <2>5, <4>1 DEF IdInv, OnlyLate
    <3>2. UNCHANGED <<alloc, owned, queue>> /\ modem' = Tail(modem)
      BY <2>3, <2>5, <3>1 DEF Works, SendNext
    <3>3. \A i \in DOMAIN modem' : modem'[i].kind = "other"
      <4>1. \A i \in DOMAIN modem' : i + 1 \in DOMAIN modem /\ modem'[i] = modem[i + 1]
        BY <2>2, <3>2
      <4> QED
        BY <2>1, <2>5, <4>1 DEF IdInv, OnlyLate
    <3> QED
      BY <1>1, <2>1, <2>2, <2>4, <3>2, <3>3
      DEF IdInv, OnlyLate, IdHasOneOwner, ReleasesOwned, ReleasedOnce, OnceInQueue,
          OnceInSock, OnceInBoth
  <2>6. CASE queue # <<>>
    <3> DEFINE h == Head(queue)
    <3> DEFINE c == h.fd
    <3>1. /\ h = queue[1] /\ 1 \in DOMAIN queue /\ h \in Request /\ modem = <<h>> /\ r = h
      BY <2>1, <2>2, <2>6 DEF IndInv, HeadAtModem
    <3>2. c \in conns /\ c \in Fds
      BY <2>1, <3>1, SenderIsReal DEF IndInv, QueueOpen, TypeOK
    <3>3. /\ queue' = Tail(queue) /\ NoteId(h, i0, c) /\ Works(h, i0)
      BY <2>3, <2>6, <3>1, <3>2
    <3>4. \A x \in DOMAIN queue' : /\ x + 1 \in DOMAIN queue /\ x + 1 # 1 /\ x \in Nat
                                   /\ queue'[x] = queue[x + 1]
      BY <2>2, <2>6, <3>3
    <3>5. queue' = <<>> => modem' = <<>>
      <4>1. Tail(modem) = <<>>
        <5>1. Len(Tail(modem)) = 0 /\ Tail(modem) \in Seq(Request)
          BY <2>2, <3>1
        <5> QED
          BY <5>1, EmptySeq
      <4> QED
        BY <2>3, <4>1 DEF SendNext
    <3>6. h.kind \in {"get", "release", "other"} /\ h.id \in Ids \cup {NoId}
      BY <3>1 DEF Request
    <3>7. /\ \A x \in DOMAIN queue' : \A id \in Ids :
               Releases(queue'[x], id) => id \in owned[queue'[x].fd] /\ ~Releases(h, id)
          /\ \A f \in Fds : \A x \in DOMAIN sock[f] : \A id \in Ids :
               Releases(sock[f][x], id) => id \in owned[f] /\ ~Releases(h, id)
      BY <2>1, <2>4, <3>1, <3>4 DEF ReleasesOwned, OnceInQueue, OnceInBoth
    <3>8. OnceInQueue'
      <4>1. ASSUME NEW x \in DOMAIN queue', NEW y \in DOMAIN queue', NEW id \in Ids,
                   Releases(queue'[x], id), Releases(queue'[y], id)
            PROVE  x = y
        <5>1. x + 1 = y + 1
          BY <2>4, <3>4, <4>1 DEF OnceInQueue
        <5> QED
          BY <3>4, <5>1
      <4> QED
        BY <4>1 DEF OnceInQueue
    <3>9. OnceInSock' /\ OnceInBoth'
      <4>1. OnceInSock'
        BY <2>2, <2>4 DEF OnceInSock
      <4>2. OnceInBoth'
        BY <2>2, <2>4, <3>4 DEF OnceInBoth
      <4> QED
        BY <4>1, <4>2
    <3> HIDE DEF h, c
    <3>10. ASSUME /\ \A f \in Fds : owned'[f] \subseteq alloc'
                  /\ \A a, b \in Fds : owned'[a] \cap owned'[b] # {} => a = b,
                  \A f \in Fds : \A id \in Ids :
                     id \in owned[f] /\ ~Releases(h, id) => id \in owned'[f]
           PROVE  IdInv'
      <4>1. ReleasesOwned'
        <5>1. \A x \in DOMAIN queue' : queue'[x].fd \in Fds
          <6>1. \A x \in DOMAIN queue' : queue'[x].fd \in conns /\ queue'[x] \in Request
            BY <2>1, <3>4 DEF IndInv, QueueOpen, TypeOK
          <6> QED
            BY <6>1, SenderIsReal DEF IndInv, TypeOK
        <5>2. \A x \in DOMAIN queue' : \A id \in Ids :
                Releases(queue'[x], id) => id \in owned'[queue'[x].fd]
          BY <3>7, <3>10, <5>1
        <5>3. \A f \in Fds : \A x \in DOMAIN sock[f] : \A id \in Ids :
                Releases(sock[f][x], id) => id \in owned'[f]
          BY <3>7, <3>10
        <5> QED
          BY <2>2, <5>2, <5>3 DEF ReleasesOwned
      <4>2. OnlyLate'
        BY <3>5 DEF OnlyLate
      <4>3. IdHasOneOwner'
        BY <3>10 DEF IdHasOneOwner
      <4> QED
        BY <1>1, <3>8, <3>9, <4>1, <4>2, <4>3 DEF IdInv, ReleasedOnce
    <3>11. CASE h.kind = "other"
      <4>1. UNCHANGED <<alloc, owned>>
        BY <3>3, <3>11 DEF Works, NoteId
      <4> QED
        BY <2>1, <2>4, <3>10, <4>1 DEF IdHasOneOwner
    <3>12. CASE h.kind = "get"
      <4>1. /\ i0 \in (Ids \ alloc) \cup {NoId} /\ alloc' = alloc \cup ({i0} \ {NoId})
            /\ owned' = [owned EXCEPT ![c] = owned[c] \cup ({i0} \ {NoId})]
        BY <3>3, <3>12 DEF Works, NoteId
      <4>2. \A f \in Fds : owned'[f] = IF f = c THEN owned[f] \cup ({i0} \ {NoId})
                                                ELSE owned[f]
        BY <2>2, <4>1
      <4>3. \A f \in Fds : owned[f] \subseteq alloc
        BY <2>1, <2>4 DEF IdHasOneOwner
      <4>4. \A a, b \in Fds : owned[a] \cap owned[b] # {} => a = b
        BY <2>1, <2>4 DEF IdHasOneOwner
      <4>5. \A f \in Fds : owned'[f] \subseteq alloc'
        BY <4>1, <4>2, <4>3
      <4>6. ASSUME NEW a \in Fds, NEW b \in Fds, NEW id \in owned'[a] \cap owned'[b], a # b
            PROVE  FALSE
        <5>1. CASE id \in {i0} \ {NoId}
          BY <4>1, <4>2, <4>3, <4>6, <5>1
        <5>2. CASE id \notin {i0} \ {NoId}
          BY <4>2, <4>4, <4>6, <5>2
        <5> QED
          BY <5>1, <5>2
      <4> QED
        BY <3>10, <4>2, <4>5, <4>6
    <3>13. CASE h.kind = "release"
      <4>1. /\ i0 = h.id /\ alloc' = alloc \ {i0}
            /\ owned' = [owned EXCEPT ![c] = owned[c] \ {i0}]
        BY <3>3, <3>13 DEF Works, NoteId
      <4>2. \A f \in Fds : owned'[f] = IF f = c THEN owned[f] \ {i0} ELSE owned[f]
        BY <2>2, <4>1
      <4>3. /\ \A f \in Fds : owned[f] \subseteq alloc
            /\ \A a, b \in Fds : owned[a] \cap owned[b] # {} => a = b
        BY <2>1, <2>4 DEF IdHasOneOwner
      <4>4. i0 \in Ids => i0 \in owned[c]
        <5>1. i0 \in Ids => i0 \in owned[queue[1].fd]
          BY <2>1, <2>4, <3>1, <3>13, <4>1 DEF ReleasesOwned, Releases
        <5> QED
          BY <3>1, <5>1 DEF c
      <4>5. \A f \in Fds : f # c => i0 \notin owned[f]
        BY <2>2, <3>2, <4>3, <4>4
      <4>6. \A f \in Fds : owned'[f] \subseteq alloc'
        BY <4>1, <4>2, <4>3, <4>5
      <4>7. \A a, b \in Fds : owned'[a] \cap owned'[b] # {} => a = b
        BY <4>2, <4>3
      <4>8. \A f \in Fds : \A id \in Ids :
              id \in owned[f] /\ ~Releases(h, id) => id \in owned'[f]
        BY <3>13, <4>1, <4>2 DEF Releases
      <4> QED
        BY <3>10, <4>6, <4>7, <4>8
    <3> QED
      BY <3>6, <3>11, <3>12, <3>13
  <2> QED
    BY <2>5, <2>6
<1> QED
  BY <1>2, <1>3

(* Every step keeps the invariant of the client ids.                        *)
THEOREM NextIdInv == IndInv /\ IdInv /\ [Next]_vars => IdInv'
<1> SUFFICES ASSUME IndInv, IdInv, [Next]_vars
             PROVE  IdInv'
  OBVIOUS
<1>1. ASSUME NEW ok \in BOOLEAN, InitAttempt(ok)
      PROVE  IdInv'
  <2>1. /\ main = "init" /\ UNCHANGED <<clientVars, queue, orderly>> /\ conns = {}
        /\ \A fd \in Fds : owned[fd] = {}
    BY <1>1 DEF InitAttempt, IdInv, Idle, IndInv, TypeOK
  <2>2. OnlyLate'
    <3>1. CASE UNCHANGED modem
      BY <2>1, <3>1 DEF IdInv, OnlyLate
    <3>2. CASE modem' = Append(modem, Late)
      <4>1. Late \in Request /\ Late.kind = "other" /\ modem \in Seq(Request)
        BY ProxyAssumption DEF Late, Request, IndInv, TypeOK
      <4>2. \A i \in DOMAIN modem' : (i \in DOMAIN modem /\ modem'[i] = modem[i]) \/ modem'[i] = Late
        <5> HIDE DEF Late
        <5> QED
          BY <3>2, <4>1
      <4> QED
        BY <2>1, <4>1, <4>2 DEF IdInv, OnlyLate
    <3> QED
      BY <1>1, <3>1, <3>2 DEF InitAttempt, qmi_proxy_init, send_qmi_timeout
  <2>3. main' # "closed"
    BY <1>1 DEF InitAttempt
  <2> QED
    BY <2>1, <2>2, <2>3 DEF clientVars, IdInv, Idle, IdHasOneOwner, ReleasesOwned, ReleasedOnce,
                            OnceInQueue, OnceInSock, OnceInBoth
<1>2. CASE RecvInit
  <2>1. \A i \in DOMAIN Tail(modem) : i + 1 \in DOMAIN modem /\ Tail(modem)[i] = modem[i + 1]
    BY <1>2 DEF RecvInit, IndInv, TypeOK
  <2> QED
    BY <1>2, <2>1 DEF RecvInit, clientVars, IdInv, Idle, OnlyLate, IdHasOneOwner,
                      ReleasesOwned, ReleasedOnce, OnceInQueue, OnceInSock, OnceInBoth
<1>3. ASSUME NEW fd \in Fds \cup {NoFd}, accept_qmi_connection(fd)
      PROVE  IdInv'
  BY <1>3 DEF accept_qmi_connection, IdInv, Idle, OnlyLate, IdHasOneOwner,
              ReleasesOwned, ReleasedOnce, OnceInQueue, OnceInSock, OnceInBoth
<1>4. CASE RecvIndication \/ ModemDrops
  <2>1. orderly' = FALSE
    BY <1>4 DEF RecvIndication, ModemDrops
  <2>2. Idle'
    BY <1>4 DEF RecvIndication, ModemDrops, IdInv, Idle, clientVars
  <2> QED
    BY <2>1, <2>2, DisorderKeepsIds
<1>5. CASE LoopExit
  BY <1>5 DEF LoopExit, IdInv, Idle, OnlyLate, IdHasOneOwner, ReleasesOwned, ReleasedOnce,
              OnceInQueue, OnceInSock, OnceInBoth
<1>6. CASE Reopen
  <2>1. /\ main = "closed" /\ queue = <<>> /\ modem = <<>> /\ conns = {}
        /\ \A fd \in Fds : owned[fd] = {} /\ sock[fd] = <<>>
    BY <1>6 DEF Reopen, IdInv, Idle, IndInv, TypeOK, QueueServed
  <2> QED
    BY <1>6, <2>1 DEF Reopen, clientVars, IdInv, Idle, OnlyLate, IdHasOneOwner,
                      ReleasesOwned, ReleasedOnce, OnceInQueue, OnceInSock, OnceInBoth
<1>7. CASE UNCHANGED vars
  BY <1>7 DEF vars, clientVars, IdInv, Idle, OnlyLate, IdHasOneOwner,
              ReleasesOwned, ReleasedOnce, OnceInQueue, OnceInSock, OnceInBoth
<1> QED
  BY <1>1, <1>2, <1>3, <1>4, <1>5, <1>6, <1>7, CleanupKeepsIds, WriteKeepsIds,
     ReadKeepsIds, ResponseKeepsIds DEF Next, Accepts, Clients, Responses

(* A client id belongs to one connection and is in use at the modem, for    *)
(* any number of connections and ids, as long as the proxy is orderly.      *)
THEOREM IdHasOneOwnerCorrect == Spec => []IdHasOneOwner
<1>1. Init => IdInv
  BY DEF Init, IdInv, Idle, OnlyLate, IdHasOneOwner, ReleasesOwned, ReleasedOnce,
         OnceInQueue, OnceInSock, OnceInBoth
<1>2. IdInv => IdHasOneOwner
  BY DEF IdInv
<1> QED
  BY <1>1, <1>2, NextIdInv, IndInvCorrect, PTL DEF Spec
=============================================================================
