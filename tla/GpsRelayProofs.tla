--------------------------- MODULE GpsRelayProofs ---------------------------
(* Proofs about GpsRelay, for any number of clients, slots and hosts, any   *)
(* bursts and any clock.                                                    *)
EXTENDS GpsRelay, SequenceTheorems, FiniteSetTheorems, WellFoundedInduction, TLAPS

-----------------------------------------------------------------------------
(* Smallest elements.                                                       *)

(* Every set of natural numbers that is not empty has a least element, and  *)
(* Min is it.                                                               *)
LEMMA MinFacts ==
  ASSUME NEW T \in SUBSET Nat, T # {}
  PROVE  Min(T) \in T /\ \A y \in T : Min(T) <= y
<1> DEFINE R == OpToRel(<, Nat)
<1>1. IsWellFoundedOn(R, Nat)
  BY NatLessThanWellFounded
<1>2. \A a, b \in Nat : a < b => <<a, b>> \in R
  BY DEF OpToRel
<1> HIDE DEF R
<1>3. PICK x \in T : \A y \in T : ~(<<y, x>> \in R)
  BY <1>1, WFMin
<1>4. ASSUME NEW y \in T
      PROVE  x <= y
  <2>1. x \in Nat /\ y \in Nat /\ ~(<<y, x>> \in R)
    BY <1>3
  <2>2. ~(y < x)
    BY <2>1, <1>2
  <2> QED
    BY <2>1, <2>2
<1> QED
  BY <1>4 DEF Min

-----------------------------------------------------------------------------
(* The tables of clients and hosts.                                         *)

SockType ==
  /\ clients \in [Slots -> Fds \cup {NoFd}]
  /\ hosts \in [Hosts -> Fds \cup {NoFd}]
  /\ fd \in [Fds -> Link \cup {NoLink}]
  /\ backlog \in Seq(Link)

(* Only clients wait for accept. *)
BacklogClients == \A i \in DOMAIN backlog : backlog[i].who \in Clients

SockInv == SockType /\ BacklogClients /\ DescriptorHasOneOwner /\ NoDescriptorLeak

(* There is always a descriptor for socket() and accept(): the tables hold  *)
(* at most one for each slot and host, and nothing else is open.            *)
LEMMA FreeDescriptor ==
  ASSUME SockInv
  PROVE  NewFd \in Fds /\ fd[NewFd] = NoLink
<1> USE SizeAssumption
<1> DEFINE Free == {f \in Fds : fd[f] = NoLink}
<1> DEFINE N == NumHosts + NumSlots
<1>1. Free # {}
  <2>1. SUFFICES ASSUME \A f \in Fds : fd[f] # NoLink
                 PROVE  FALSE
    OBVIOUS
  <2> DEFINE Owner(f) == IF \E s \in Slots : clients[s] = f
                         THEN CHOOSE s \in Slots : clients[s] = f
                         ELSE NumSlots + CHOOSE h \in Hosts : hosts[h] = f
  <2> DEFINE g == [f \in Fds |-> Owner(f)]
  <2>2. ASSUME NEW f \in Fds
        PROVE  /\ Owner(f) \in 1 .. N
               /\ \/ Owner(f) \in Slots /\ clients[Owner(f)] = f
                  \/ /\ Owner(f) \notin Slots
                     /\ Owner(f) - NumSlots \in Hosts /\ hosts[Owner(f) - NumSlots] = f
    <3>1. CASE \E s \in Slots : clients[s] = f
      <4>1. Owner(f) \in Slots /\ clients[Owner(f)] = f
        BY <3>1
      <4> HIDE DEF Owner
      <4> QED
        BY <4>1 DEF Slots
    <3>2. CASE ~\E s \in Slots : clients[s] = f
      <4>1. \E h \in Hosts : hosts[h] = f
        BY <2>1, <3>2 DEF SockInv, NoDescriptorLeak
      <4> DEFINE h0 == CHOOSE h \in Hosts : hosts[h] = f
      <4>2. h0 \in Hosts /\ hosts[h0] = f
        BY <4>1
      <4>3. Owner(f) = NumSlots + h0
        BY <3>2
      <4> HIDE DEF h0, Owner
      <4> QED
        BY <4>2, <4>3 DEF Hosts, Slots
    <3> QED
      BY <3>1, <3>2
  <2>3. g \in [Fds -> 1 .. N]
    <3> HIDE DEF Owner, N
    <3> QED
      BY <2>2
  <2>4. /\ IsFiniteSet(Fds) /\ Cardinality(Fds) = N + 1
        /\ IsFiniteSet(1 .. N) /\ Cardinality(1 .. N) = N
    BY FS_Interval DEF Fds
  <2>5. PICK x, y \in Fds : x # y /\ g[x] = g[y]
    <3> HIDE DEF g
    <3>1. Cardinality(1 .. N) < Cardinality(Fds)
      BY <2>4
    <3> QED
      BY <2>3, <2>4, <3>1, FS_PigeonHole
  <2>6. Owner(x) = Owner(y)
    BY <2>5
  <2> HIDE DEF Owner, g
  <2> QED
    BY <2>2, <2>5, <2>6
<1>2. Free \in SUBSET Nat
  BY DEF Fds
<1>3. NewFd = Min(Free)
  BY DEF NewFd
<1>4. Min(Free) \in Free
  BY <1>1, <1>2, MinFacts
<1> QED
  BY <1>3, <1>4

(* A free slot, if there is one. *)
LEMMA FreeSlot ==
  ASSUME FreeSlots # {}
  PROVE  Min(FreeSlots) \in Slots /\ clients[Min(FreeSlots)] = NoFd
<1>1. FreeSlots \in SUBSET Nat
  BY DEF FreeSlots, Slots
<1>2. Min(FreeSlots) \in FreeSlots
  BY <1>1, MinFacts
<1> QED
  BY <1>2 DEF FreeSlots

(* A new connection gets into a table.                                      *)
LEMMA ClientStored ==
  ASSUME SockInv, NEW s \in Slots, clients[s] = NoFd,
         NEW f \in Fds, fd[f] = NoLink, NEW l \in Link, l.who \in Clients,
         clients' = [clients EXCEPT ![s] = f], fd' = [fd EXCEPT ![f] = l], hosts' = hosts
  PROVE  /\ clients' \in [Slots -> Fds \cup {NoFd}] /\ fd' \in [Fds -> Link \cup {NoLink}]
         /\ DescriptorHasOneOwner' /\ NoDescriptorLeak'
<1> USE NoneAssumption DEF SockInv, SockType
<1>1. clients' \in [Slots -> Fds \cup {NoFd}] /\ fd' \in [Fds -> Link \cup {NoLink}]
  OBVIOUS
<1>2. \A t \in Slots : clients[t] # f
  BY DEF DescriptorHasOneOwner, Fds
<1>3. \A h \in Hosts : hosts[h] # f
  BY DEF DescriptorHasOneOwner, Fds
<1>4. DescriptorHasOneOwner'
  BY <1>2, <1>3 DEF DescriptorHasOneOwner
<1>5. NoDescriptorLeak'
  BY DEF NoDescriptorLeak, Fds
<1> QED
  BY <1>1, <1>4, <1>5

(* A new connection to a host is stored in its place.                       *)
LEMMA HostStored ==
  ASSUME SockInv, NEW h \in Hosts, hosts[h] = NoFd,
         NEW f \in Fds, fd[f] = NoLink, NEW l \in Link, l.who = h,
         hosts' = [hosts EXCEPT ![h] = f], fd' = [fd EXCEPT ![f] = l], clients' = clients
  PROVE  /\ hosts' \in [Hosts -> Fds \cup {NoFd}] /\ fd' \in [Fds -> Link \cup {NoLink}]
         /\ DescriptorHasOneOwner' /\ NoDescriptorLeak'
<1> USE NoneAssumption DEF SockInv, SockType
<1>1. hosts' \in [Hosts -> Fds \cup {NoFd}] /\ fd' \in [Fds -> Link \cup {NoLink}]
  OBVIOUS
<1>2. \A t \in Slots : clients[t] # f
  BY DEF DescriptorHasOneOwner, Fds
<1>3. \A g \in Hosts : hosts[g] # f
  BY DEF DescriptorHasOneOwner, Fds
<1>4. DescriptorHasOneOwner'
  BY <1>2, <1>3 DEF DescriptorHasOneOwner
<1>5. NoDescriptorLeak'
  BY DEF NoDescriptorLeak, Fds
<1> QED
  BY <1>1, <1>4, <1>5

(* A connection is closed and its entry cleared: no other entry names it.   *)
LEMMA ClientCleared ==
  ASSUME SockInv, NEW s \in Slots, clients[s] # NoFd, disconnectClient(s), hosts' = hosts
  PROVE  /\ clients' \in [Slots -> Fds \cup {NoFd}] /\ fd' \in [Fds -> Link \cup {NoLink}]
         /\ DescriptorHasOneOwner' /\ NoDescriptorLeak'
<1> USE NoneAssumption DEF SockInv, SockType, disconnectClient
<1>1. clients' \in [Slots -> Fds \cup {NoFd}] /\ fd' \in [Fds -> Link \cup {NoLink}]
  OBVIOUS
<1>2. \A t \in Slots : t # s => clients[t] # clients[s]
  BY DEF DescriptorHasOneOwner
<1>3. \A h \in Hosts : hosts[h] # clients[s]
  BY DEF DescriptorHasOneOwner
<1>4. DescriptorHasOneOwner'
  BY <1>2, <1>3 DEF DescriptorHasOneOwner
<1>5. NoDescriptorLeak'
  BY <1>2, <1>3 DEF NoDescriptorLeak
<1> QED
  BY <1>1, <1>4, <1>5

(* The connection to a host is closed and its place cleared.                *)
LEMMA HostCleared ==
  ASSUME SockInv, k \in Hosts, hosts[k] # NoFd, CloseHost, clients' = clients
  PROVE  /\ hosts' \in [Hosts -> Fds \cup {NoFd}] /\ fd' \in [Fds -> Link \cup {NoLink}]
         /\ DescriptorHasOneOwner' /\ NoDescriptorLeak'
<1> USE NoneAssumption DEF SockInv, SockType, CloseHost
<1>1. hosts' \in [Hosts -> Fds \cup {NoFd}] /\ fd' \in [Fds -> Link \cup {NoLink}]
  OBVIOUS
<1>2. \A h \in Hosts : h # k => hosts[h] # hosts[k]
  BY DEF DescriptorHasOneOwner
<1>3. \A s \in Slots : clients[s] # hosts[k]
  BY DEF DescriptorHasOneOwner
<1>4. DescriptorHasOneOwner'
  BY <1>2, <1>3 DEF DescriptorHasOneOwner
<1>5. NoDescriptorLeak'
  BY <1>2, <1>3 DEF NoDescriptorLeak
<1> QED
  BY <1>1, <1>4, <1>5

(* The other end changes the state of a connection.                         *)
LEMMA PeerKeeps ==
  ASSUME SockInv, NEW f \in Fds, fd[f] # NoLink, NEW st \in {"ok", "full", "closed"},
         fd' = [fd EXCEPT ![f].st = st], clients' = clients, hosts' = hosts
  PROVE  /\ fd' \in [Fds -> Link \cup {NoLink}]
         /\ DescriptorHasOneOwner' /\ NoDescriptorLeak'
<1> USE NoneAssumption DEF SockInv, SockType
<1>1. fd[f] \in Link /\ fd' = [fd EXCEPT ![f] = [fd[f] EXCEPT !.st = st]]
  OBVIOUS
<1>2. /\ [fd[f] EXCEPT !.st = st] \in Link /\ [fd[f] EXCEPT !.st = st].who = fd[f].who
  BY <1>1 DEF Link
<1>3. fd' \in [Fds -> Link \cup {NoLink}]
  BY <1>1, <1>2
<1>4. \A g \in Fds : /\ fd'[g] = NoLink <=> fd[g] = NoLink
                     /\ fd'[g].who = fd[g].who
  BY <1>1, <1>2
<1>5. DescriptorHasOneOwner'
  BY <1>4 DEF DescriptorHasOneOwner
<1>6. NoDescriptorLeak'
  BY <1>4 DEF NoDescriptorLeak
<1> QED
  BY <1>3, <1>5, <1>6

(* acceptServer keeps the tables, with a slot for the connection or none.   *)
LEMMA AcceptKeeps ==
  ASSUME SockInv, acceptServer, hosts' = hosts
  PROVE  SockInv'
<1>1. CASE backlog = <<>>
  BY <1>1 DEF acceptServer, SockInv, SockType, BacklogClients, DescriptorHasOneOwner,
              NoDescriptorLeak
<1>2. CASE backlog # <<>>
  <2>1. backlog' = Tail(backlog) /\ backlog \in Seq(Link)
    BY <1>2 DEF acceptServer, SockInv, SockType
  <2>2. backlog' \in Seq(Link) /\ BacklogClients'
    <3>1. backlog' \in Seq(Link)
      BY <2>1, <1>2
    <3>2. ASSUME NEW i \in DOMAIN backlog'
          PROVE  backlog'[i].who \in Clients
      <4>1. i + 1 \in DOMAIN backlog /\ backlog'[i] = backlog[i + 1]
        BY <2>1, <1>2
      <4> QED
        BY <4>1 DEF SockInv, BacklogClients
    <3> QED
      BY <3>1, <3>2 DEF BacklogClients
  <2>3. CASE FreeSlots = {}
    BY <1>2, <2>2, <2>3 DEF acceptServer, SockInv, SockType, DescriptorHasOneOwner,
                            NoDescriptorLeak
  <2>4. CASE FreeSlots # {}
    <3>1. Min(FreeSlots) \in Slots /\ clients[Min(FreeSlots)] = NoFd
      BY <2>4, FreeSlot
    <3>2. NewFd \in Fds /\ fd[NewFd] = NoLink
      BY FreeDescriptor
    <3>3. Head(backlog) \in Link /\ Head(backlog).who \in Clients
      <4>1. Head(backlog) = backlog[1] /\ 1 \in DOMAIN backlog /\ Head(backlog) \in Link
        BY <1>2, <2>1
      <4> QED
        BY <4>1 DEF SockInv, BacklogClients
    <3>4. /\ fd' = [fd EXCEPT ![NewFd] = Head(backlog)]
          /\ clients' = [clients EXCEPT ![Min(FreeSlots)] = NewFd]
      BY <1>2, <2>4 DEF acceptServer
    <3>5. /\ clients' \in [Slots -> Fds \cup {NoFd}] /\ fd' \in [Fds -> Link \cup {NoLink}]
          /\ DescriptorHasOneOwner' /\ NoDescriptorLeak'
      BY <3>1, <3>2, <3>3, <3>4, ClientStored
    <3> QED
      BY <2>2, <3>5 DEF SockInv, SockType
  <2> QED
    BY <2>3, <2>4
<1> QED
  BY <1>1, <1>2

(* The queue of accept grows by a client, or one of its entries is closed.  *)
LEMMA BacklogGrows ==
  ASSUME SockInv, NEW c \in Clients, backlog' = Append(backlog, [who |-> c, st |-> "ok"])
  PROVE  backlog' \in Seq(Link) /\ BacklogClients'
<1> DEFINE l == [who |-> c, st |-> "ok"]
<1>1. l \in Link /\ l.who \in Clients /\ backlog \in Seq(Link)
  BY DEF SockInv, SockType, Link
<1> HIDE DEF l
<1>2. backlog' = Append(backlog, l)
  BY DEF l
<1>3. backlog' \in Seq(Link)
  BY <1>1, <1>2
<1>4. ASSUME NEW i \in DOMAIN backlog'
      PROVE  backlog'[i].who \in Clients
  <2>1. (i \in DOMAIN backlog /\ backlog'[i] = backlog[i]) \/ backlog'[i] = l
    BY <1>1, <1>2
  <2> QED
    BY <1>1, <2>1 DEF SockInv, BacklogClients
<1> QED
  BY <1>3, <1>4 DEF BacklogClients

(* A client that closes while it waits for accept changes nothing but the   *)
(* backlog.                                                                 *)
LEMMA BacklogCloses ==
  ASSUME SockInv, NEW i \in DOMAIN backlog,
         backlog' = [backlog EXCEPT ![i].st = "closed"]
  PROVE  backlog' \in Seq(Link) /\ BacklogClients'
<1> DEFINE l == [backlog[i] EXCEPT !.st = "closed"]
<1>1. backlog \in Seq(Link) /\ backlog[i] \in Link
  BY DEF SockInv, SockType
<1>2. l \in Link /\ l.who = backlog[i].who
  BY <1>1 DEF Link
<1>3. backlog' = [backlog EXCEPT ![i] = l]
  OBVIOUS
<1> HIDE DEF l
<1>4. backlog' \in Seq(Link) /\ DOMAIN backlog' = DOMAIN backlog
  BY <1>1, <1>2, <1>3
<1>5. \A j \in DOMAIN backlog : backlog'[j].who = backlog[j].who
  BY <1>1, <1>2, <1>3
<1> QED
  BY <1>4, <1>5 DEF SockInv, BacklogClients

(* The tables, the descriptors and the queue of accept: which steps change  *)
(* them.                                                                    *)
LEMMA SockSteps ==
  ASSUME [Next]_vars
  PROVE  \/ UNCHANGED <<clients, hosts, fd, backlog>>
         \/ acceptServer /\ hosts' = hosts
         \/ \E c \in Clients : ClientConnects(c)
         \/ \E i \in DOMAIN backlog : ClientGivesUp(i)
         \/ \E f \in Fds : PeerFails(f) \/ PeerReads(f)
         \/ SendClient \/ connectServer \/ HostFails
<1>1. CASE Environment
  BY <1>1 DEF Environment, SerialFails, sockVars
<1>2. CASE \E b \in BOOLEAN : OpenSerial(b)
  BY <1>2 DEF OpenSerial
<1>3. CASE \E d \in ClockSteps : Accept(d)
  BY <1>3 DEF Accept
<1>4. CASE \E b \in Bursts \cup {<<>>} : ReadBurst(b)
  BY <1>4 DEF ReadBurst, sockVars
<1>5. CASE ParseStep
  BY <1>5 DEF ParseStep, sockVars
<1>6. CASE ParseEnd
  BY <1>6 DEF ParseEnd, sockVars
<1>7. CASE ClientsDone
  BY <1>7 DEF ClientsDone, sockVars
<1>8. CASE HostWaits \/ connectServerFails \/ HostNotDue \/ HostNothing
  BY <1>8 DEF HostWaits, connectServerFails, HostNotDue, HostNothing, NextHost
<1>9. CASE \E b \in BOOLEAN : HostSent(b)
  BY <1>9 DEF HostSent, NextHost
<1>10. CASE HostsDone
  BY <1>10 DEF HostsDone, sockVars
<1>11. CASE UNCHANGED vars
  BY <1>11 DEF vars, sockVars
<1>12. CASE SendClient \/ connectServer \/ HostFails
  BY <1>12
<1> QED
  BY <1>1, <1>2, <1>3, <1>4, <1>5, <1>6, <1>7, <1>8, <1>9, <1>10, <1>11, <1>12
  DEF Next, Relay, ToHosts

(* Every step keeps the tables of clients and hosts.                        *)
LEMMA SockKept ==
  ASSUME SockInv, [Next]_vars
  PROVE  SockInv'
<1>1. CASE UNCHANGED <<clients, hosts, fd, backlog>>
  BY <1>1 DEF SockInv, SockType, BacklogClients, DescriptorHasOneOwner, NoDescriptorLeak
<1>2. CASE acceptServer /\ hosts' = hosts
  BY <1>2, AcceptKeeps
<1>3. ASSUME NEW c \in Clients, ClientConnects(c)
      PROVE  SockInv'
  <2>1. backlog' \in Seq(Link) /\ BacklogClients'
    BY <1>3, BacklogGrows DEF ClientConnects
  <2> QED
    BY <1>3, <2>1 DEF ClientConnects, sockVars, SockInv, SockType, DescriptorHasOneOwner,
                      NoDescriptorLeak
<1>4. ASSUME NEW i \in DOMAIN backlog, ClientGivesUp(i)
      PROVE  SockInv'
  <2>1. backlog' \in Seq(Link) /\ BacklogClients'
    BY <1>4, BacklogCloses DEF ClientGivesUp
  <2> QED
    BY <1>4, <2>1 DEF ClientGivesUp, sockVars, SockInv, SockType, DescriptorHasOneOwner,
                      NoDescriptorLeak
<1>5. ASSUME NEW f \in Fds, PeerFails(f) \/ PeerReads(f)
      PROVE  SockInv'
  <2>1. PICK st \in {"ok", "full", "closed"} : fd' = [fd EXCEPT ![f].st = st]
    BY <1>5 DEF PeerFails, PeerReads
  <2>2. fd[f] # NoLink /\ UNCHANGED <<clients, hosts, backlog>>
    BY <1>5 DEF PeerFails, PeerReads
  <2>3. fd' \in [Fds -> Link \cup {NoLink}] /\ DescriptorHasOneOwner' /\ NoDescriptorLeak'
    BY <2>1, <2>2, PeerKeeps
  <2> QED
    BY <2>2, <2>3 DEF SockInv, SockType, BacklogClients
<1>6. CASE SendClient
  <2>1. hosts' = hosts /\ backlog' = backlog /\ k \in Slots
    BY <1>6 DEF SendClient
  <2>2. CASE UNCHANGED <<clients, fd>>
    BY <1>1, <2>1, <2>2
  <2>3. CASE clients[k] # NoFd /\ disconnectClient(k)
    <3>1. /\ clients' \in [Slots -> Fds \cup {NoFd}] /\ fd' \in [Fds -> Link \cup {NoLink}]
          /\ DescriptorHasOneOwner' /\ NoDescriptorLeak'
      BY <2>1, <2>3, ClientCleared
    <3> QED
      BY <2>1, <3>1 DEF SockInv, SockType, BacklogClients
  <2> QED
    BY <1>6, <2>2, <2>3 DEF SendClient
<1>7. CASE connectServer
  <2> DEFINE l == [who |-> k, st |-> "ok"]
  <2>1. l \in Link /\ l.who = k /\ k \in Hosts /\ hosts[k] = NoFd
    BY <1>7 DEF connectServer, Link
  <2>2. /\ hosts' = [hosts EXCEPT ![k] = NewFd] /\ fd' = [fd EXCEPT ![NewFd] = l]
        /\ clients' = clients /\ backlog' = backlog
    BY <1>7 DEF connectServer
  <2> HIDE DEF l
  <2>3. NewFd \in Fds /\ fd[NewFd] = NoLink
    BY FreeDescriptor
  <2>4. /\ hosts' \in [Hosts -> Fds \cup {NoFd}] /\ fd' \in [Fds -> Link \cup {NoLink}]
        /\ DescriptorHasOneOwner' /\ NoDescriptorLeak'
    BY <2>1, <2>2, <2>3, HostStored
  <2> QED
    BY <2>2, <2>4 DEF SockInv, SockType, BacklogClients
<1>8. CASE HostFails
  <2>1. /\ k \in Hosts /\ hosts[k] # NoFd /\ CloseHost
        /\ clients' = clients /\ backlog' = backlog
    BY <1>8 DEF HostFails, Due, NextHost
  <2>2. /\ hosts' \in [Hosts -> Fds \cup {NoFd}] /\ fd' \in [Fds -> Link \cup {NoLink}]
        /\ DescriptorHasOneOwner' /\ NoDescriptorLeak'
    BY <2>1, HostCleared
  <2> QED
    BY <2>1, <2>2 DEF SockInv, SockType, BacklogClients
<1> QED
  BY <1>1, <1>2, <1>3, <1>4, <1>5, <1>6, <1>7, <1>8, SockSteps

-----------------------------------------------------------------------------
(* Control, clocks, and the clients that have been served.                  *)

CtlType ==
  /\ pc \in {"open", "accept", "read", "parse", "clients", "hosts"}
  /\ k \in Nat \ {0}
  /\ serial \in {"closed", "open", "failed"}
  /\ sinceConnect \in [Hosts -> Int] /\ sinceSend \in [Hosts -> Int]
  /\ faults \in Nat

(* A clipped time is a number.                                              *)
LEMMA ClipType ==
  ASSUME NEW t \in Int
  PROVE  Clip(t) \in Int
BY AgeAssumption DEF Clip

(* Every step keeps the control state and the times.                        *)
LEMMA CtlKept ==
  ASSUME CtlType, [Next]_vars
  PROVE  CtlType'
<1> USE DEF CtlType
<1>1. ASSUME NEW c \in Clients, ClientConnects(c)
      PROVE  CtlType'
  BY <1>1 DEF ClientConnects, timeVars
<1>2. ASSUME NEW f \in Fds, PeerFails(f) \/ PeerReads(f)
      PROVE  CtlType'
  BY <1>2 DEF PeerFails, PeerReads, timeVars, Fault
<1>3. ASSUME NEW i \in DOMAIN backlog, ClientGivesUp(i)
      PROVE  CtlType'
  BY <1>3 DEF ClientGivesUp, timeVars, Fault
<1>4. CASE SerialFails
  BY <1>4 DEF SerialFails, timeVars, Fault
<1>5. ASSUME NEW b \in BOOLEAN, OpenSerial(b)
      PROVE  CtlType'
  BY <1>5 DEF OpenSerial, timeVars, Fault
<1>6. ASSUME NEW d \in ClockSteps, Accept(d)
      PROVE  CtlType'
  <2>1. d \in Int
    BY AgeAssumption
  <2>2. \A h \in Hosts : /\ Clip(sinceConnect[h] + d) \in Int
                         /\ Clip(sinceSend[h] + d) \in Int
    BY <2>1, ClipType
  <2>3. sinceConnect' \in [Hosts -> Int] /\ sinceSend' \in [Hosts -> Int]
    BY <1>6, <2>2 DEF Accept
  <2>4. faults' \in Nat
    BY <1>6, <2>1 DEF Accept, Fault
  <2> QED
    BY <1>6, <2>3, <2>4 DEF Accept
<1>7. ASSUME NEW b \in Bursts \cup {<<>>}, ReadBurst(b)
      PROVE  CtlType'
  BY <1>7 DEF ReadBurst, timeVars
<1>8. CASE ParseStep \/ ParseEnd
  BY <1>8 DEF ParseStep, ParseEnd, timeVars
<1>9. CASE SendClient \/ ClientsDone
  BY <1>9 DEF SendClient, ClientsDone, timeVars
<1>10. CASE HostWaits \/ HostNotDue \/ HostsDone
  BY <1>10 DEF HostWaits, HostNotDue, HostsDone, NextHost, timeVars
<1>11. CASE connectServerFails \/ connectServer
  BY <1>11 DEF connectServerFails, connectServer, NextHost, Fault
<1>12. CASE HostNothing
  BY <1>12 DEF HostNothing, NextHost
<1>13. ASSUME NEW b \in BOOLEAN, HostSent(b)
       PROVE  CtlType'
  BY <1>13 DEF HostSent, NextHost, Fault
<1>14. CASE HostFails
  BY <1>14 DEF HostFails, NextHost, timeVars, Fault
<1>15. CASE UNCHANGED vars
  BY <1>15 DEF vars, timeVars
<1> QED
  BY <1>1, <1>2, <1>3, <1>4, <1>5, <1>6, <1>7, <1>8, <1>9, <1>10, <1>11, <1>12,
     <1>13, <1>14, <1>15 DEF Next, Environment, Relay, ToHosts

(* FixReachesClients while the loop over the clients is still running: it   *)
(* holds of the slots the loop has passed.                                  *)
ServedInv ==
  /\ got \in SUBSET Fds
  /\ FixReachesClients
  /\ pc = "clients" /\ idxOfNewestGGAMsg # 0 =>
       \A s \in Slots : s < k /\ clients[s] # NoFd => clients[s] \in got

(* Every step of the loop over the clients, failures included, leaves       *)
(* behind it only clients that got the fix.                                 *)
LEMMA ServedKept ==
  ASSUME SockInv, CtlType, ServedInv, [Next]_vars
  PROVE  ServedInv'
<1> USE DEF ServedInv, FixReachesClients
<1>1. ASSUME NEW c \in Clients, ClientConnects(c)
      PROVE  ServedInv'
  BY <1>1 DEF ClientConnects, sockVars, parseVars
<1>2. ASSUME NEW f \in Fds, PeerFails(f) \/ PeerReads(f)
      PROVE  ServedInv'
  BY <1>2 DEF PeerFails, PeerReads, parseVars
<1>3. ASSUME NEW i \in DOMAIN backlog, ClientGivesUp(i)
      PROVE  ServedInv'
  BY <1>3 DEF ClientGivesUp, sockVars, parseVars
<1>4. CASE SerialFails
  BY <1>4 DEF SerialFails, sockVars, parseVars
<1>5. ASSUME NEW b \in BOOLEAN, OpenSerial(b)
      PROVE  ServedInv'
  BY <1>5 DEF OpenSerial
<1>6. ASSUME NEW d \in ClockSteps, Accept(d)
      PROVE  ServedInv'
  BY <1>6 DEF Accept
<1>7. ASSUME NEW b \in Bursts \cup {<<>>}, ReadBurst(b)
      PROVE  ServedInv'
  BY <1>7 DEF ReadBurst
<1>8. CASE ParseStep
  BY <1>8 DEF ParseStep
<1>9. CASE ParseEnd
  BY <1>9 DEF ParseEnd, Slots
<1>10. CASE SendClient
  <2> USE DEF CtlType
  <2>1. /\ pc = "clients" /\ pc' = pc /\ k \in Slots /\ k' = k + 1
        /\ idxOfNewestGGAMsg' = idxOfNewestGGAMsg
    BY <1>10 DEF SendClient, parseVars
  <2>2. \A s \in Slots : s < k' => s < k \/ s = k
    BY <2>1 DEF Slots
  <2>3. CASE (idxOfNewestGGAMsg = 0 \/ clients[k] = NoFd) /\ UNCHANGED <<clients, fd, got>>
    BY <2>1, <2>2, <2>3
  <2>4. CASE clients[k] # NoFd /\ disconnectClient(k) /\ UNCHANGED got
    BY <2>1, <2>2, <2>4 DEF disconnectClient, SockInv, SockType
  <2>5. CASE clients[k] # NoFd /\ got' = got \cup {clients[k]} /\ UNCHANGED <<clients, fd>>
    BY <2>1, <2>2, <2>5 DEF SockInv, SockType
  <2> QED
    BY <1>10, <2>3, <2>4, <2>5 DEF SendClient
<1>11. CASE ClientsDone
  <2>1. \A s \in Slots : s < k
    BY <1>11, SizeAssumption DEF ClientsDone, Slots, CtlType
  <2> QED
    BY <1>11, <2>1 DEF ClientsDone, sockVars, parseVars
<1>12. CASE HostWaits \/ connectServerFails \/ HostNotDue \/ HostNothing
  BY <1>12 DEF HostWaits, connectServerFails, HostNotDue, HostNothing, NextHost, parseVars
<1>13. CASE connectServer
  BY <1>13 DEF connectServer, parseVars
<1>14. ASSUME NEW b \in BOOLEAN, HostSent(b)
       PROVE  ServedInv'
  BY <1>14 DEF HostSent, Due, NextHost, parseVars, SockInv, SockType
<1>15. CASE HostFails
  BY <1>15 DEF HostFails, NextHost, parseVars
<1>16. CASE HostsDone
  BY <1>16 DEF HostsDone
<1>17. CASE UNCHANGED vars
  BY <1>17 DEF vars, sockVars, parseVars
<1> QED
  BY <1>1, <1>2, <1>3, <1>4, <1>5, <1>6, <1>7, <1>8, <1>9, <1>10, <1>11, <1>12,
     <1>13, <1>14, <1>15, <1>16, <1>17 DEF Next, Environment, Relay, ToHosts

-----------------------------------------------------------------------------
(* parseGPSBuffer.                                                          *)

ParseType ==
  /\ gpsBuff \in Seq(Starts \cup Ends)
  /\ gpsStart \in 1 .. Len(gpsBuff) + 1
  /\ gpsMsgArray \in Seq(Starts)
  /\ idxOfNewestGGAMsg \in 0 .. Len(gpsMsgArray)
  /\ pc = "parse" /\ gpsStart <= Len(gpsBuff) => gpsBuff[gpsStart] \in Starts

(* strstr: what it finds is a mark of the kind, and the first one.          *)
LEMMA FirstFacts ==
  ASSUME NEW S, NEW buff \in Seq(Starts \cup Ends), NEW i \in 1 .. Len(buff) + 1
  PROVE  /\ First(buff, i, S) \in i .. Len(buff) + 1
         /\ First(buff, i, S) <= Len(buff) => buff[First(buff, i, S)] \in S
         /\ \A j \in i .. Len(buff) : j < First(buff, i, S) => buff[j] \notin S
<1> DEFINE T == {j \in i .. Len(buff) : buff[j] \in S} \cup {Len(buff) + 1}
<1>1. T \in SUBSET Nat /\ T # {} /\ Len(buff) \in Nat
  OBVIOUS
<1>2. \A j \in T : j \in i .. Len(buff) + 1 /\ (j <= Len(buff) => buff[j] \in S)
  BY <1>1
<1>3. \A j \in i .. Len(buff) : buff[j] \in S => j \in T
  OBVIOUS
<1>4. First(buff, i, S) = Min(T)
  BY DEF First
<1> HIDE DEF T
<1>5. Min(T) \in T /\ \A y \in T : Min(T) <= y
  BY <1>1, MinFacts
<1>6. \A j \in i .. Len(buff) : j < Min(T) => j \notin T
  <2>1. Min(T) \in Nat
    BY <1>1, <1>5
  <2> QED
    BY <1>5, <2>1
<1> QED
  BY <1>2, <1>3, <1>4, <1>5, <1>6

(* The largest element is the one that is not below any other.              *)
LEMMA MaxIs ==
  ASSUME NEW T \in SUBSET Nat, NEW x \in T, \A y \in T : y <= x
  PROVE  Max(T) = x
<1>1. \E z \in T : \A y \in T : z >= y
  OBVIOUS
<1>2. Max(T) \in T /\ \A y \in T : Max(T) >= y
  BY <1>1 DEF Max
<1>3. x \in Nat /\ Max(T) \in Nat /\ Max(T) >= x /\ Max(T) <= x
  BY <1>2
<1> QED
  BY <1>3

(* The smaller one of two numbers.                                          *)
LEMMA MinOfTwo ==
  ASSUME NEW a \in Nat, NEW b \in Nat
  PROVE  Min({a, b}) = IF a <= b THEN a ELSE b
<1>1. Min({a, b}) \in {a, b} /\ \A y \in {a, b} : Min({a, b}) <= y
  BY MinFacts
<1> QED
  BY <1>1

(* One turn of the loop, its two outcomes.                                  *)
TakesSentence ==
  /\ gpsStart < Len(gpsBuff) /\ gpsBuff[gpsStart + 1] = "*"
  /\ Len(gpsMsgArray) < NUM_GPS_MESSAGES

(* A turn takes the sentence when its end follows at once, is good and      *)
(* there is room, and skips to the next start otherwise.                    *)
LEMMA ParseOutcome ==
  ASSUME ParseType, ParseStep
  PROVE  /\ pc = "parse" /\ pc' = "parse" /\ gpsBuff' = gpsBuff
         /\ gpsStart <= Len(gpsBuff) /\ gpsBuff[gpsStart] \in Starts
         /\ TakesSentence =>
              /\ gpsMsgArray' = Append(gpsMsgArray, gpsBuff[gpsStart])
              /\ idxOfNewestGGAMsg' = IF gpsBuff[gpsStart] = "$GGA"
                                      THEN Len(gpsMsgArray) + 1 ELSE idxOfNewestGGAMsg
              /\ gpsStart' = First(gpsBuff, gpsStart + 2, Starts)
         /\ ~TakesSentence =>
              /\ UNCHANGED <<gpsMsgArray, idxOfNewestGGAMsg>>
              /\ gpsStart' = First(gpsBuff, gpsStart + 1, Starts)
<1> DEFINE e == First(gpsBuff, gpsStart + 1, Ends)
<1>1. /\ gpsBuff \in Seq(Starts \cup Ends) /\ gpsStart \in 1 .. Len(gpsBuff)
      /\ gpsBuff[gpsStart] \in Starts /\ Len(gpsBuff) \in Nat
      /\ pc = "parse" /\ pc' = "parse" /\ gpsBuff' = gpsBuff
  BY DEF ParseStep, ParseType
<1>2. gpsStart + 1 \in 1 .. Len(gpsBuff) + 1
  BY <1>1
<1>3. /\ e \in gpsStart + 1 .. Len(gpsBuff) + 1
      /\ \A j \in gpsStart + 1 .. Len(gpsBuff) : j < e => gpsBuff[j] \notin Ends
  BY <1>1, <1>2, FirstFacts
<1>4. /\ e <= Len(gpsBuff)
      /\ Len(gpsMsgArray) < NUM_GPS_MESSAGES
      /\ ChecksumPasses(e)
      <=> TakesSentence
  <2>1. CASE TakesSentence
    <3>1. gpsBuff[gpsStart + 1] \in Ends /\ gpsStart + 1 \in gpsStart + 1 .. Len(gpsBuff)
      BY <1>1, <2>1 DEF TakesSentence, Ends, Right
    <3>2. e = gpsStart + 1
      <4> HIDE DEF e
      <4> QED
        BY <1>1, <1>3, <3>1
    <3> HIDE DEF e
    <3> QED
      BY <1>1, <2>1, <3>2 DEF TakesSentence, ChecksumPasses, Right
  <2>2. CASE ~TakesSentence
    <3> HIDE DEF e
    <3> QED
      BY <1>1, <2>2 DEF TakesSentence, ChecksumPasses, Right
  <2> QED
    BY <2>1, <2>2
<1>5. TakesSentence => e + 1 = gpsStart + 2
  <2> HIDE DEF e
  <2> QED
    BY <1>1, <1>4 DEF ChecksumPasses
<1>6. IF TakesSentence
      THEN /\ gpsMsgArray' = Append(gpsMsgArray, gpsBuff[gpsStart])
           /\ idxOfNewestGGAMsg' = IF gpsBuff[gpsStart] = "$GGA"
                                   THEN Len(gpsMsgArray) + 1 ELSE idxOfNewestGGAMsg
           /\ gpsStart' = First(gpsBuff, e + 1, Starts)
      ELSE /\ gpsStart' = First(gpsBuff, gpsStart + 1, Starts)
           /\ UNCHANGED <<gpsMsgArray, idxOfNewestGGAMsg>>
  BY <1>4 DEF ParseStep
<1> HIDE DEF e
<1> QED
  BY <1>1, <1>5, <1>6

(* A turn keeps the types, moves forward and passes over no start.          *)
LEMMA ParseStepTypes ==
  ASSUME ParseType, ParseStep
  PROVE  /\ ParseType' /\ gpsStart' > gpsStart
         /\ \A j \in gpsStart + 1 .. Len(gpsBuff) :
               j < gpsStart' => gpsBuff[j] \notin Starts
<1> USE DEF ParseType
<1>1. /\ gpsBuff' = gpsBuff /\ gpsStart \in 1 .. Len(gpsBuff) /\ Len(gpsBuff) \in Nat
      /\ gpsBuff[gpsStart] \in Starts /\ Len(gpsMsgArray) \in Nat
  BY ParseOutcome
<1>2. CASE TakesSentence
  <2>1. /\ gpsMsgArray' = Append(gpsMsgArray, gpsBuff[gpsStart])
        /\ idxOfNewestGGAMsg' = IF gpsBuff[gpsStart] = "$GGA"
                                THEN Len(gpsMsgArray) + 1 ELSE idxOfNewestGGAMsg
        /\ gpsStart' = First(gpsBuff, gpsStart + 2, Starts)
    BY <1>2, ParseOutcome
  <2>2. gpsMsgArray' \in Seq(Starts) /\ Len(gpsMsgArray') = Len(gpsMsgArray) + 1
    BY <1>1, <2>1
  <2>3. idxOfNewestGGAMsg' \in 0 .. Len(gpsMsgArray')
    BY <1>1, <2>1, <2>2
  <2>4. gpsStart + 2 \in 1 .. Len(gpsBuff) + 1
    BY <1>1, <1>2 DEF TakesSentence
  <2>5. /\ gpsStart' \in gpsStart + 2 .. Len(gpsBuff) + 1
        /\ gpsStart' <= Len(gpsBuff) => gpsBuff[gpsStart'] \in Starts
        /\ \A j \in gpsStart + 2 .. Len(gpsBuff) : j < gpsStart' => gpsBuff[j] \notin Starts
    BY <2>1, <2>4, FirstFacts
  <2>6. gpsBuff[gpsStart + 1] \notin Starts
    BY <1>2 DEF TakesSentence, Starts
  <2>7. \A j \in gpsStart + 1 .. Len(gpsBuff) : j = gpsStart + 1 \/ j \in gpsStart + 2 .. Len(gpsBuff)
    BY <1>1
  <2>8. gpsStart' \in 1 .. Len(gpsBuff) + 1 /\ gpsStart' > gpsStart
    BY <1>1, <2>5
  <2> QED
    BY <1>1, <2>2, <2>3, <2>5, <2>6, <2>7, <2>8
<1>3. CASE ~TakesSentence
  <2>1. /\ UNCHANGED <<gpsMsgArray, idxOfNewestGGAMsg>>
        /\ gpsStart' = First(gpsBuff, gpsStart + 1, Starts)
    BY <1>3, ParseOutcome
  <2>2. gpsStart + 1 \in 1 .. Len(gpsBuff) + 1
    BY <1>1
  <2>3. /\ gpsStart' \in gpsStart + 1 .. Len(gpsBuff) + 1
        /\ gpsStart' <= Len(gpsBuff) => gpsBuff[gpsStart'] \in Starts
        /\ \A j \in gpsStart + 1 .. Len(gpsBuff) : j < gpsStart' => gpsBuff[j] \notin Starts
    BY <2>1, <2>2, FirstFacts
  <2>4. gpsStart' \in 1 .. Len(gpsBuff) + 1 /\ gpsStart' > gpsStart
    BY <1>1, <2>3
  <2> QED
    BY <1>1, <2>1, <2>3, <2>4
<1> QED
  BY <1>2, <1>3

(* ParsedBurst without Min and Max. *)
Rank(W, j) == Cardinality({i \in W : i <= j})
Found == Whole(gpsStart)
FoundInv ==
  pc = "parse" =>
    /\ Len(gpsMsgArray) = IF Cardinality(Found) <= NUM_GPS_MESSAGES
                          THEN Cardinality(Found) ELSE NUM_GPS_MESSAGES
    /\ \A j \in Found : Rank(Found, j) <= NUM_GPS_MESSAGES
                        => gpsMsgArray[Rank(Found, j)] = gpsBuff[j]
    /\ idxOfNewestGGAMsg = 0 \/ gpsMsgArray[idxOfNewestGGAMsg] = "$GGA"
    /\ \A n \in DOMAIN gpsMsgArray : gpsMsgArray[n] = "$GGA" => n <= idxOfNewestGGAMsg

(* The rank of a sentence is a place in the array.                          *)
LEMMA RankFacts ==
  ASSUME NEW W \in SUBSET Nat, IsFiniteSet(W), NEW j \in W
  PROVE  Rank(W, j) \in 1 .. Cardinality(W)
<1> DEFINE R == {i \in W : i <= j}
<1>1. R \in SUBSET W /\ j \in R
  OBVIOUS
<1> HIDE DEF R
<1>2. IsFiniteSet(R) /\ Cardinality(R) <= Cardinality(W)
  BY <1>1, FS_Subset
<1>3. Cardinality(R) \in Nat /\ Cardinality(W) \in Nat /\ Cardinality(R) # 0
  BY <1>1, <1>2, FS_CardinalityType, FS_EmptySet
<1>4. Rank(W, j) = Cardinality(R)
  BY DEF Rank, R
<1> QED
  BY <1>2, <1>3, <1>4

(* One more sentence, after the others, does not change their ranks.        *)
LEMMA RankGrows ==
  ASSUME NEW W \in SUBSET Nat, IsFiniteSet(W), NEW s \in Nat, \A i \in W : i < s
  PROVE  /\ Cardinality(W \cup {s}) = Cardinality(W) + 1
         /\ Rank(W \cup {s}, s) = Cardinality(W) + 1
         /\ \A j \in W : Rank(W \cup {s}, j) = Rank(W, j)
<1>1. Cardinality(W \cup {s}) = Cardinality(W) + 1
  <2>1. s \notin W
    OBVIOUS
  <2> QED
    BY <2>1, FS_AddElement
<1>2. {i \in W \cup {s} : i <= s} = W \cup {s}
  <2>1. \A i \in W \cup {s} : i <= s
    OBVIOUS
  <2> QED
    BY <2>1, Zenon
<1>3. \A j \in W : {i \in W \cup {s} : i <= j} = {i \in W : i <= j}
  OBVIOUS
<1>4. Rank(W \cup {s}, s) = Cardinality(W) + 1
  BY <1>1, <1>2, Zenon DEF Rank
<1>5. ASSUME NEW j \in W
      PROVE  Rank(W \cup {s}, j) = Rank(W, j)
  <2>1. {i \in W \cup {s} : i <= j} = {i \in W : i <= j}
    BY <1>3
  <2> QED
    BY <2>1, Zenon DEF Rank
<1> QED
  BY <1>1, <1>4, <1>5

(* The sentences found so far are finitely many and lie before the next     *)
(* start.                                                                   *)
LEMMA FoundFacts ==
  ASSUME ParseType
  PROVE  /\ Found \in SUBSET Nat /\ IsFiniteSet(Found) /\ Cardinality(Found) \in Nat
         /\ \A j \in Found : j < gpsStart
<1>1. Found \in SUBSET (1 .. Len(gpsBuff)) /\ \A j \in Found : j < gpsStart
  BY DEF Found, Whole, ParseType
<1>2. IsFiniteSet(1 .. Len(gpsBuff)) /\ 1 .. Len(gpsBuff) \in SUBSET Nat
  BY FS_Interval DEF ParseType
<1>3. IsFiniteSet(Found)
  BY <1>1, <1>2, FS_Subset
<1> QED
  BY <1>1, <1>2, <1>3, FS_CardinalityType

(* FoundInv says what ParsedBurst says, without Min and Max.                *)
LEMMA FoundIsParsed ==
  ASSUME ParseType, FoundInv
  PROVE  ParsedBurst
<1>1. SUFFICES ASSUME pc = "parse"
               PROVE  /\ Len(gpsMsgArray) = Min({Cardinality(Found), NUM_GPS_MESSAGES})
                      /\ \A j \in Found : Rank(Found, j) <= NUM_GPS_MESSAGES
                                          => gpsMsgArray[Rank(Found, j)] = gpsBuff[j]
                      /\ idxOfNewestGGAMsg =
                           Max({0} \cup {n \in DOMAIN gpsMsgArray : gpsMsgArray[n] = "$GGA"})
  BY Zenon DEF ParsedBurst, Found, Rank
<1>2. Len(gpsMsgArray) = Min({Cardinality(Found), NUM_GPS_MESSAGES})
  BY <1>1, FoundFacts, MinOfTwo, SizeAssumption DEF FoundInv
<1> DEFINE T == {0} \cup {n \in DOMAIN gpsMsgArray : gpsMsgArray[n] = "$GGA"}
<1>3. T \in SUBSET Nat /\ idxOfNewestGGAMsg \in T /\ \A y \in T : y <= idxOfNewestGGAMsg
  BY <1>1 DEF FoundInv, ParseType
<1>4. idxOfNewestGGAMsg = Max(T)
  <2> HIDE DEF T
  <2> QED
    BY <1>3, MaxIs
<1> QED
  BY <1>1, <1>2, <1>4 DEF FoundInv

(* One turn of the loop finds the sentence it starts at, if it is whole and *)
(* its checksum passes.                                                     *)
LEMMA FoundGrows ==
  ASSUME ParseType, ParseStep
  PROVE  Found' = IF gpsStart < Len(gpsBuff) /\ gpsBuff[gpsStart + 1] = "*"
                  THEN Found \cup {gpsStart} ELSE Found
<1> DEFINE F(j) == /\ j + 1 \in DOMAIN gpsBuff
                   /\ gpsBuff[j] \in Starts /\ gpsBuff[j + 1] = "*"
<1>1. /\ gpsBuff' = gpsBuff /\ gpsStart \in DOMAIN gpsBuff
      /\ gpsBuff \in Seq(Starts \cup Ends) /\ DOMAIN gpsBuff = 1 .. Len(gpsBuff)
      /\ gpsBuff[gpsStart] \in Starts /\ Len(gpsBuff) \in Nat
  BY ParseOutcome DEF ParseType
<1>2. /\ gpsStart' \in Nat /\ gpsStart' > gpsStart
      /\ \A j \in DOMAIN gpsBuff : gpsStart < j /\ j < gpsStart' => gpsBuff[j] \notin Starts
  BY <1>1, ParseStepTypes DEF ParseType
<1>3. Found = {j \in DOMAIN gpsBuff : j < gpsStart /\ F(j)}
  BY DEF Found, Whole
<1>4. Found' = {j \in DOMAIN gpsBuff : j < gpsStart' /\ F(j)}
  BY <1>1 DEF Found, Whole
<1>5. F(gpsStart) <=> gpsStart < Len(gpsBuff) /\ gpsBuff[gpsStart + 1] = "*"
  BY <1>1
<1>6. \A j \in DOMAIN gpsBuff : F(j) => gpsBuff[j] \in Starts
  OBVIOUS
<1> HIDE DEF F
<1>7. \A j \in DOMAIN gpsBuff : (j < gpsStart' /\ F(j))
                               <=> (j < gpsStart /\ F(j)) \/ (j = gpsStart /\ F(j))
  BY <1>1, <1>2, <1>6
<1>8. CASE F(gpsStart)
  <2>1. Found' = Found \cup {gpsStart}
    BY <1>1, <1>3, <1>4, <1>7, <1>8
  <2> QED
    BY <1>5, <1>8, <2>1
<1>9. CASE ~F(gpsStart)
  <2>1. Found' = Found
    BY <1>1, <1>3, <1>4, <1>7, <1>9
  <2> QED
    BY <1>5, <1>9, <2>1
<1> QED
  BY <1>8, <1>9

(* A turn of the loop keeps FoundInv.                                       *)
LEMMA FoundStep ==
  ASSUME ParseType, FoundInv, ParseStep
  PROVE  FoundInv'
<1> USE SizeAssumption
<1> DEFINE W == Found
<1> DEFINE s == gpsStart
<1> DEFINE c == Cardinality(W)
<1> DEFINE a == gpsMsgArray
<1>1. /\ pc = "parse" /\ pc' = "parse" /\ gpsBuff' = gpsBuff /\ s \in Nat
      /\ gpsBuff[s] \in Starts /\ a \in Seq(Starts) /\ Len(a) \in Nat
      /\ DOMAIN a = 1 .. Len(a) /\ idxOfNewestGGAMsg \in 0 .. Len(a)
  BY ParseOutcome DEF ParseType
<1>2. /\ W \in SUBSET Nat /\ IsFiniteSet(W) /\ c \in Nat /\ \A j \in W : j < s
  BY FoundFacts
<1>3. /\ Len(a) = IF c <= NUM_GPS_MESSAGES THEN c ELSE NUM_GPS_MESSAGES
      /\ \A j \in W : Rank(W, j) <= NUM_GPS_MESSAGES => a[Rank(W, j)] = gpsBuff[j]
      /\ idxOfNewestGGAMsg = 0 \/ a[idxOfNewestGGAMsg] = "$GGA"
      /\ \A n \in DOMAIN a : a[n] = "$GGA" => n <= idxOfNewestGGAMsg
  BY <1>1 DEF FoundInv
<1>4. \A j \in W : Rank(W, j) \in 1 .. c
  BY <1>2, RankFacts
<1>5. /\ Cardinality(W \cup {s}) = c + 1 /\ Rank(W \cup {s}, s) = c + 1
      /\ \A j \in W : Rank(W \cup {s}, j) = Rank(W, j)
  BY <1>1, <1>2, RankGrows
<1>6. CASE TakesSentence
  <2>1. /\ Found' = W \cup {s}
        /\ a' = Append(a, gpsBuff[s]) /\ Len(a) < NUM_GPS_MESSAGES
        /\ idxOfNewestGGAMsg' = IF gpsBuff[s] = "$GGA"
                                THEN Len(a) + 1 ELSE idxOfNewestGGAMsg
    BY <1>6, FoundGrows, ParseOutcome DEF TakesSentence
  <2>2. Cardinality(Found') = c + 1 /\ Rank(Found', s) = c + 1
        /\ \A j \in W : Rank(Found', j) = Rank(W, j)
    BY <1>5, <2>1
  <2> HIDE DEF W, s, c, a
  <2>3. /\ Len(a') = Len(a) + 1 /\ a'[Len(a) + 1] = gpsBuff[s] /\ DOMAIN a' = 1 .. Len(a) + 1
        /\ \A n \in 1 .. Len(a) : a'[n] = a[n]
    BY <1>1, <2>1
  <2>4. Len(a) = c /\ c + 1 <= NUM_GPS_MESSAGES
    BY <1>1, <1>2, <1>3, <2>1
  <2>5. ASSUME NEW j \in Found'
        PROVE  a'[Rank(Found', j)] = gpsBuff[j]
    <3>1. CASE j \in W
      <4>1. Rank(Found', j) = Rank(W, j) /\ Rank(W, j) \in 1 .. c
        BY <1>4, <2>2, <3>1
      <4>2. a[Rank(W, j)] = gpsBuff[j]
        BY <1>2, <1>3, <2>4, <3>1, <4>1
      <4> QED
        BY <2>3, <2>4, <4>1, <4>2
    <3>2. CASE j = s
      BY <2>2, <2>3, <2>4, <3>2
    <3> QED
      BY <2>1, <3>1, <3>2
  <2>6. idxOfNewestGGAMsg' = 0 \/ a'[idxOfNewestGGAMsg'] = "$GGA"
    BY <1>1, <1>3, <2>1, <2>3
  <2>7. \A n \in DOMAIN a' : a'[n] = "$GGA" => n <= idxOfNewestGGAMsg'
    BY <1>1, <1>3, <2>1, <2>3
  <2>8. Len(a') = IF Cardinality(Found') <= NUM_GPS_MESSAGES
                  THEN Cardinality(Found') ELSE NUM_GPS_MESSAGES
    BY <2>2, <2>3, <2>4
  <2> QED
    BY <1>1, <2>5, <2>6, <2>7, <2>8 DEF FoundInv, a
<1>7. CASE ~TakesSentence
  <2>1. UNCHANGED <<gpsMsgArray, idxOfNewestGGAMsg>>
    BY <1>7, ParseOutcome
  <2>2. CASE Found' = W
    <3> HIDE DEF c, a
    <3> QED
      BY <1>1, <1>3, <2>1, <2>2 DEF FoundInv, a, c
  <2>3. CASE Found' = W \cup {s} /\ ~(Len(a) < NUM_GPS_MESSAGES)
    <3>1. /\ Cardinality(Found') = c + 1 /\ Rank(Found', s) = c + 1
          /\ \A j \in W : Rank(Found', j) = Rank(W, j)
      BY <1>5, <2>3
    <3> HIDE DEF W, s, c
    <3>2. c >= NUM_GPS_MESSAGES /\ Len(a) = NUM_GPS_MESSAGES
      BY <1>1, <1>2, <1>3, <2>3
    <3>3. Len(a) = IF Cardinality(Found') <= NUM_GPS_MESSAGES
                   THEN Cardinality(Found') ELSE NUM_GPS_MESSAGES
      BY <1>2, <3>1, <3>2
    <3>4. ASSUME NEW j \in Found', Rank(Found', j) <= NUM_GPS_MESSAGES
          PROVE  a[Rank(Found', j)] = gpsBuff[j]
      <4>1. j # s
        BY <1>2, <3>1, <3>2, <3>4
      <4>2. j \in W
        BY <2>3, <4>1
      <4> QED
        BY <1>3, <3>1, <3>4, <4>2
    <3> QED
      BY <1>1, <1>3, <2>1, <3>3, <3>4 DEF FoundInv
  <2> QED
    BY <1>7, <2>2, <2>3, FoundGrows DEF TakesSentence
<1> QED
  BY <1>6, <1>7

(* Every step keeps what the parser knows.                                  *)
LEMMA ParseKept ==
  ASSUME ParseType, FoundInv, CtlType, [Next]_vars
  PROVE  ParseType' /\ FoundInv'
<1>1. CASE UNCHANGED <<pc, parseVars>>
  BY <1>1 DEF parseVars, ParseType, FoundInv, Found, Whole
<1>2. CASE UNCHANGED parseVars /\ pc' # "parse"
  BY <1>2 DEF parseVars, ParseType, FoundInv
<1>3. CASE Environment
  BY <1>1, <1>3 DEF Environment, ClientConnects, PeerFails, PeerReads, ClientGivesUp,
                    SerialFails
<1>4. ASSUME NEW b \in BOOLEAN, OpenSerial(b)
      PROVE  ParseType' /\ FoundInv'
  BY <1>2, <1>4 DEF OpenSerial
<1>5. ASSUME NEW d \in ClockSteps, Accept(d)
      PROVE  ParseType' /\ FoundInv'
  BY <1>2, <1>5 DEF Accept
<1>6. ASSUME NEW b \in Bursts \cup {<<>>}, ReadBurst(b)
      PROVE  ParseType' /\ FoundInv'
  <2>1. /\ gpsBuff' = b /\ gpsStart' = First(b, 1, Starts) /\ gpsMsgArray' = <<>>
        /\ idxOfNewestGGAMsg' = 0
    BY <1>6 DEF ReadBurst
  <2>2. b \in Seq(Starts \cup Ends) /\ 1 \in 1 .. Len(b) + 1
    <3>1. b \in Seq(Starts \cup Ends)
      <4>1. Bursts \subseteq Seq(Starts \cup Ends) /\ <<>> \in Seq(Starts \cup Ends)
        BY BurstAssumption
      <4> QED
        BY <4>1, Zenon
    <3> QED
      BY <3>1
  <2>3. /\ gpsStart' \in 1 .. Len(b) + 1
        /\ gpsStart' <= Len(b) => b[gpsStart'] \in Starts
        /\ \A j \in 1 .. Len(b) : j < gpsStart' => b[j] \notin Starts
    BY <2>1, <2>2, FirstFacts
  <2>4. ParseType'
    BY <2>1, <2>2, <2>3 DEF ParseType
  <2>5. Found' = {}
    BY <2>1, <2>2, <2>3 DEF Found, Whole
  <2>6. Cardinality(Found') = 0
    BY <2>5, FS_EmptySet
  <2>7. FoundInv'
    BY <2>1, <2>5, <2>6, SizeAssumption DEF FoundInv
  <2> QED
    BY <2>4, <2>7
<1>7. CASE ParseStep
  BY <1>7, ParseStepTypes, FoundStep
<1>8. CASE ParseEnd
  BY <1>8 DEF ParseEnd, ParseType, FoundInv
<1>9. CASE SendClient \/ ClientsDone
  BY <1>1, <1>2, <1>9 DEF SendClient, ClientsDone
<1>10. CASE HostWaits \/ connectServerFails \/ connectServer \/ HostNotDue \/ HostNothing
            \/ HostFails
  BY <1>1, <1>10 DEF HostWaits, connectServerFails, connectServer, HostNotDue,
                     HostNothing, HostFails, NextHost
<1>11. ASSUME NEW b \in BOOLEAN, HostSent(b)
       PROVE  ParseType' /\ FoundInv'
  BY <1>1, <1>11 DEF HostSent, NextHost
<1>12. CASE HostsDone
  BY <1>2, <1>12 DEF HostsDone
<1>13. CASE UNCHANGED vars
  BY <1>1, <1>13 DEF vars
<1> QED
  BY <1>3, <1>4, <1>5, <1>6, <1>7, <1>8, <1>9, <1>10, <1>11, <1>12, <1>13
  DEF Next, Relay, ToHosts

-----------------------------------------------------------------------------
IndInv == SockInv /\ CtlType /\ ServedInv /\ ParseType /\ FoundInv

(* The inductive invariant holds at the start.                              *)
LEMMA InitIndInv == Init => IndInv
<1> SUFFICES ASSUME Init
             PROVE  IndInv
  OBVIOUS
<1>1. SockInv
  BY DEF Init, SockInv, SockType, BacklogClients, DescriptorHasOneOwner, NoDescriptorLeak
<1>2. CtlType
  BY AgeAssumption DEF Init, CtlType
<1>3. ServedInv /\ ParseType /\ FoundInv
  BY DEF Init, ServedInv, FixReachesClients, ParseType, FoundInv
<1> QED
  BY <1>1, <1>2, <1>3 DEF IndInv

(* The tables, the loop over the clients and the parser keep their parts of *)
(* the invariant at every step.                                             *)
THEOREM IndInvCorrect == Spec => []IndInv
<1>1. IndInv /\ [Next]_vars => IndInv'
  BY SockKept, CtlKept, ServedKept, ParseKept DEF IndInv
<1> QED
  BY InitIndInv, <1>1, PTL DEF Spec

(* Every variable of the relay keeps its type; in particular the strstr     *)
(* pointers never leave the buffer, and a descriptor is free whenever       *)
(* accept() or socket() needs one.                                          *)
THEOREM TypeCorrect == Spec => []TypeOK
<1>1. IndInv => TypeOK
  BY DEF IndInv, SockInv, SockType, CtlType, ServedInv, ParseType, TypeOK
<1> QED
  BY IndInvCorrect, <1>1, PTL

(* A descriptor in clients[] or hosts[] is the open connection it was       *)
(* stored for, and is in one place, for any number of clients and hosts and *)
(* any failures of theirs.                                                  *)
THEOREM OneOwnerCorrect == Spec => []DescriptorHasOneOwner
BY IndInvCorrect, PTL DEF IndInv, SockInv

(* No connection is open that is in neither table.                          *)
THEOREM NoLeakCorrect == Spec => []NoDescriptorLeak
BY IndInvCorrect, PTL DEF IndInv, SockInv

(* sendClients gives the fix of the burst to each client that is left.      *)
THEOREM FixReachesClientsCorrect == Spec => []FixReachesClients
BY IndInvCorrect, PTL DEF IndInv, ServedInv

(* parseGPSBuffer finds the whole sentences of every burst that have a      *)
(* checksum of 0x10 or more, in order, up to NUM_GPS_MESSAGES, and its      *)
(* newest GGA sentence is the last of them; smaller checksums never pass    *)
(* the compare with "%2X", and cost no other sentence.                      *)
THEOREM ParsedBurstCorrect == Spec => []ParsedBurst
<1>1. IndInv => ParsedBurst
  BY FoundIsParsed DEF IndInv
<1> QED
  BY IndInvCorrect, <1>1, PTL
=============================================================================
