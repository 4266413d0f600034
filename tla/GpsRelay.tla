------------------------------ MODULE GpsRelay ------------------------------
(***************************************************************************)
(* speedway-gpsd (speedgpsd.c).  One loop reads a burst of NMEA sentences  *)
(* from the serial port, picks the sentences out of it and passes them on  *)
(* to the clients that have connected to its server and to the hosts it    *)
(* has been told to connect to.  All of its reads and writes block, except *)
(* accept.                                                                 *)
(*                                                                         *)
(* Text is abstracted to marks.  A burst is a sequence of                  *)
(*   "$GGA"  the "$" of a GGA sentence      "$"     that of any other      *)
(*   "*"     the "*hh" of a sentence whose bytes since the last "$" on the *)
(*           line have this checksum, 0x10 or more, and an allowed length  *)
(*   "*0"    the same with a checksum below 0x10, which NMEA writes with a *)
(*           leading zero                                                  *)
(*   "*bad"  any other "*hh"                                               *)
(* so that marks lost or damaged on the line give every sequence.  A "*"   *)
(* whose digits are not in the buffer any more is none (offsetInBuff).     *)
(***************************************************************************)
EXTENDS Integers, Sequences, FiniteSets, FiniteSetsExt

CONSTANTS
  NumHosts,          \* numHosts, at most MAX_HOSTS
  Connection,        \* Connection[h]: "tcp", "udp" or "internal"
  Output,            \* Output[h]: "nmea" or "taip"
  Rate,              \* Rate[h]: seconds between two messages to h, or 0
  NumSlots,          \* MAX_CLIENTS
  Clients,           \* programs that connect to the server
  Backlog,           \* connections that wait to be accepted
  Bursts,            \* the bursts that the line delivers
  NUM_GPS_MESSAGES,
  RetryDelay,        \* seconds between two attempts to connect (5)
  ClockSteps,        \* what time() adds from one pass of the loop to the next
  MaxAge, MinAge,    \* differences of times beyond these are not told apart
  MaxFaults,         \* bound on the failures outside the program
  NoFd, NoLink

Hosts == 1 .. NumHosts
Slots == 1 .. NumSlots
Fds == 1 .. NumHosts + NumSlots + 1
Starts == {"$GGA", "$"}
Right == {"*", "*0"}
Ends == Right \cup {"*bad"}
Link == [who : Clients \cup Hosts, st : {"ok", "full", "closed"}]

ASSUME SizeAssumption ==
  /\ NumHosts \in Nat /\ NumSlots \in Nat \ {0} /\ NUM_GPS_MESSAGES \in Nat \ {0}
  /\ RetryDelay \in Nat /\ MaxFaults \in Nat /\ Backlog \in Nat
ASSUME HostAssumption ==
  /\ Connection \in [Hosts -> {"tcp", "udp", "internal"}]
  /\ Output \in [Hosts -> {"nmea", "taip"}]
  /\ Rate \in [Hosts -> Nat]
ASSUME AgeAssumption ==
  /\ MaxAge \in Nat /\ MinAge \in Int /\ MinAge <= 0
  /\ RetryDelay < MaxAge /\ \A h \in Hosts : Rate[h] <= MaxAge
  /\ ClockSteps \subseteq Int
ASSUME BurstAssumption ==
  Bursts \subseteq Seq(Starts \cup Ends) /\ <<"$GGA", "*">> \in Bursts
ASSUME NoneAssumption ==
  /\ NoFd \notin Int /\ NoLink \notin Link /\ Clients \cap Hosts = {}

VARIABLES
  pc,          \* where main is: "open", "accept", "read", "parse", "clients", "hosts"
  k,           \* client or hostNum, of the loop main is in
  serial,      \* "closed", "open", or "failed": fgetc returns EOF from now on
  gpsBuff, gpsStart,   \* gpsStart is past the end of gpsBuff for NULL
  gpsMsgArray,         \* kinds of the sentences with sendThisMsg
  idxOfNewestGGAMsg,   \* 0 for none
  clients,     \* clients[s].sock
  hosts,       \* hosts[h].sock
  sinceConnect, sinceSend,  \* now - lastConnect, now - lastSend
  fd,          \* the kernel's table of descriptors: fd[f] is a Link or NoLink
  backlog,     \* connections that wait for accept
  got,         \* descriptors this pass of the loop has written its burst to
  faults       \* failures so far (bounds the model)

parseVars == <<gpsBuff, gpsStart, gpsMsgArray, idxOfNewestGGAMsg>>
timeVars == <<sinceConnect, sinceSend>>
sockVars == <<clients, hosts, fd>>
vars == <<pc, k, serial, parseVars, sockVars, timeVars, backlog, got, faults>>

Init ==
  /\ pc = "open" /\ k = 1 /\ serial = "closed"
  /\ gpsBuff = <<>> /\ gpsStart = 1 /\ gpsMsgArray = <<>> /\ idxOfNewestGGAMsg = 0
  /\ clients = [s \in Slots |-> NoFd] /\ hosts = [h \in Hosts |-> NoFd]
  /\ sinceConnect = [h \in Hosts |-> MaxAge] /\ sinceSend = [h \in Hosts |-> MaxAge]
  /\ fd = [f \in Fds |-> NoLink] /\ backlog = <<>> /\ got = {} /\ faults = 0

Fault == faults < MaxFaults /\ faults' = faults + 1

-----------------------------------------------------------------------------
(* The programs at the other ends.                                          *)

Connected(c) == (\E f \in Fds : fd[f] # NoLink /\ fd[f].who = c)
                \/ \E i \in DOMAIN backlog : backlog[i].who = c

ClientConnects(c) ==
  /\ ~Connected(c)
  /\ Len(backlog) < Backlog
  /\ backlog' = Append(backlog, [who |-> c, st |-> "ok"])
  /\ UNCHANGED <<pc, k, serial, parseVars, sockVars, timeVars, got, faults>>

(* The other end closes a connection, or stops reading until it is full.    *)
(* Datagram sockets know neither.                                           *)
PeerFails(f) ==
  /\ Fault
  /\ fd[f] # NoLink
  /\ fd[f].who \in Hosts => Connection[fd[f].who] = "tcp"
  /\ \E st \in {"full", "closed"} :
       fd[f].st # "closed" /\ fd' = [fd EXCEPT ![f].st = st]
  /\ UNCHANGED <<pc, k, serial, parseVars, clients, hosts, timeVars, backlog, got>>

(* A client closes before it has been accepted. *)
ClientGivesUp(i) ==
  /\ Fault
  /\ backlog[i].st = "ok"
  /\ backlog' = [backlog EXCEPT ![i].st = "closed"]
  /\ UNCHANGED <<pc, k, serial, parseVars, sockVars, timeVars, got>>

PeerReads(f) ==
  /\ fd[f] # NoLink /\ fd[f].st = "full"
  /\ fd' = [fd EXCEPT ![f].st = "ok"]
  /\ UNCHANGED <<pc, k, serial, parseVars, clients, hosts, timeVars, backlog, got, faults>>

SerialFails ==
  /\ Fault
  /\ serial = "open"
  /\ serial' = "failed"
  /\ UNCHANGED <<pc, k, parseVars, sockVars, timeVars, backlog, got>>

Environment ==
  \/ \E c \in Clients : ClientConnects(c)
  \/ \E f \in Fds : PeerFails(f) \/ PeerReads(f)
  \/ \E i \in DOMAIN backlog : ClientGivesUp(i)
  \/ SerialFails

-----------------------------------------------------------------------------
(* The tables of clients and hosts.                                         *)

(* socket() and accept() return the lowest descriptor that is free. *)
NewFd == Min({f \in Fds : fd[f] = NoLink})
FreeSlots == {s \in Slots : clients[s] = NoFd}

(* Mutant: the connection for which there is no slot is not closed. *)
acceptServerLeaks ==
  IF backlog = <<>> THEN UNCHANGED <<clients, fd, backlog>> ELSE
  /\ backlog' = Tail(backlog)
  /\ fd' = [fd EXCEPT ![NewFd] = Head(backlog)]
  /\ clients' = IF FreeSlots = {} THEN clients
                                  ELSE [clients EXCEPT ![Min(FreeSlots)] = NewFd]

(* Mutant: accept is called only when there is a slot. *)
acceptServerWhenFree ==
  IF backlog = <<>> \/ FreeSlots = {} THEN UNCHANGED <<clients, fd, backlog>> ELSE
  /\ backlog' = Tail(backlog)
  /\ fd' = [fd EXCEPT ![NewFd] = Head(backlog)]
  /\ clients' = [clients EXCEPT ![Min(FreeSlots)] = NewFd]

(* Take one waiting connection, and close it again if no slot is free. *)
acceptServer ==
  IF backlog = <<>> THEN UNCHANGED <<clients, fd, backlog>> ELSE
  /\ backlog' = Tail(backlog)
  /\ IF FreeSlots = {} THEN UNCHANGED <<clients, fd>> ELSE
     /\ fd' = [fd EXCEPT ![NewFd] = Head(backlog)]
     /\ clients' = [clients EXCEPT ![Min(FreeSlots)] = NewFd]

(* Mutant: the slot keeps the number of the closed descriptor. *)
disconnectClientKeepsSock(s) ==
  /\ fd' = [fd EXCEPT ![clients[s]] = NoLink]
  /\ UNCHANGED clients

disconnectClient(s) ==
  /\ fd' = [fd EXCEPT ![clients[s]] = NoLink]
  /\ clients' = [clients EXCEPT ![s] = NoFd]

-----------------------------------------------------------------------------
(* The loop of main.                                                        *)

(* The outer loop: accept, and open the port or sleep 10 s. *)
OpenSerial(opens) ==
  /\ pc = "open"
  /\ acceptServer
  /\ IF opens THEN pc' = "accept" /\ serial' = "open" /\ UNCHANGED faults
              ELSE Fault /\ UNCHANGED <<pc, serial>>
  /\ UNCHANGED <<k, parseVars, hosts, timeVars, got>>

Clip(t) == IF t > MaxAge THEN MaxAge ELSE IF t < MinAge THEN MinAge ELSE t

(* The inner loop: accept, and read the time before the burst is waited     *)
(* for.  Setting the clock back is a fault.                                 *)
Accept(step) ==
  /\ pc = "accept"
  /\ acceptServer
  /\ IF step < 0 THEN Fault ELSE UNCHANGED faults
  /\ sinceConnect' = [h \in Hosts |-> Clip(sinceConnect[h] + step)]
  /\ sinceSend' = [h \in Hosts |-> Clip(sinceSend[h] + step)]
  /\ got' = {}
  /\ pc' = "read"
  /\ UNCHANGED <<k, serial, parseVars, hosts>>

(* strstr: the first mark of S at i or after it; past the end for NULL. *)
First(buff, i, S) == Min({j \in i .. Len(buff) : buff[j] \in S} \cup {Len(buff) + 1})

(* Mutant: the index of the last burst's newest GGA sentence is kept. *)
ReadBurstKeepsIndex(b) ==
  /\ pc = "read"
  /\ b = <<>> <=> serial = "failed"
  /\ gpsBuff' = b
  /\ gpsStart' = First(b, 1, Starts)
  /\ gpsMsgArray' = <<>>
  /\ pc' = "parse"
  /\ UNCHANGED <<idxOfNewestGGAMsg, k, serial, sockVars, timeVars, backlog, got, faults>>

(* fgetc until the burst is complete, the buffer full, or the port fails,   *)
(* and the first lines of parseGPSBuffer.                                   *)
ReadBurst(b) ==
  /\ pc = "read"
  /\ b = <<>> <=> serial = "failed"
  /\ gpsBuff' = b
  /\ gpsStart' = First(b, 1, Starts)
  /\ gpsMsgArray' = <<>>
  /\ idxOfNewestGGAMsg' = 0
  /\ pc' = "parse"
  /\ UNCHANGED <<k, serial, sockVars, timeVars, backlog, got, faults>>

(* The bytes from gpsStart to gpsEnd have the checksum that follows them,   *)
(* in the two characters that sprintf("%2X") makes of it: below 0x10 these  *)
(* are a blank and a digit, and differ from the zero and digit on the line. *)
ChecksumPasses(gpsEnd) ==
  /\ gpsEnd = gpsStart + 1 /\ gpsBuff[gpsEnd] \in Right
  /\ gpsBuff[gpsEnd] # "*0"

(* Mutant: a sentence whose checksum fails is skipped up to its "*". *)
ParseStepSkips ==
  /\ pc = "parse"
  /\ gpsStart <= Len(gpsBuff)
  /\ LET gpsEnd == First(gpsBuff, gpsStart + 1, Ends)
     IN  IF gpsEnd > Len(gpsBuff)
         THEN /\ gpsStart' = First(gpsBuff, gpsStart + 1, Starts)
              /\ UNCHANGED <<gpsMsgArray, idxOfNewestGGAMsg>>
         ELSE /\ gpsStart' = First(gpsBuff, gpsEnd + 1, Starts)
              /\ IF Len(gpsMsgArray) < NUM_GPS_MESSAGES /\ ChecksumPasses(gpsEnd)
                 THEN /\ gpsMsgArray' = Append(gpsMsgArray, gpsBuff[gpsStart])
                      /\ idxOfNewestGGAMsg' = IF gpsBuff[gpsStart] = "$GGA"
                                              THEN Len(gpsMsgArray) + 1
                                              ELSE idxOfNewestGGAMsg
                 ELSE UNCHANGED <<gpsMsgArray, idxOfNewestGGAMsg>>
  /\ UNCHANGED <<pc, k, serial, gpsBuff, sockVars, timeVars, backlog, got, faults>>

(* One turn of parseGPSBuffer's loop: from the next "$" to the next "*".    *)
(* Only a sentence that is accepted is skipped as a whole.                  *)
ParseStep ==
  /\ pc = "parse"
  /\ gpsStart <= Len(gpsBuff)
  /\ LET gpsEnd == First(gpsBuff, gpsStart + 1, Ends)
     IN  IF /\ gpsEnd <= Len(gpsBuff)
            /\ Len(gpsMsgArray) < NUM_GPS_MESSAGES
            /\ ChecksumPasses(gpsEnd)
         THEN /\ gpsMsgArray' = Append(gpsMsgArray, gpsBuff[gpsStart])
              /\ idxOfNewestGGAMsg' = IF gpsBuff[gpsStart] = "$GGA"
                                      THEN Len(gpsMsgArray) + 1 ELSE idxOfNewestGGAMsg
              /\ gpsStart' = First(gpsBuff, gpsEnd + 1, Starts)
         ELSE /\ gpsStart' = First(gpsBuff, gpsStart + 1, Starts)
              /\ UNCHANGED <<gpsMsgArray, idxOfNewestGGAMsg>>
  /\ UNCHANGED <<pc, k, serial, gpsBuff, sockVars, timeVars, backlog, got, faults>>

(* No further "$".  The status files are written; the buffer is cleared     *)
(* (by the code when the next burst is read; nothing reads it before).      *)
ParseEnd ==
  /\ pc = "parse"
  /\ gpsStart > Len(gpsBuff)
  /\ gpsBuff' = <<>> /\ gpsStart' = 1
  /\ pc' = "clients" /\ k' = 1
  /\ UNCHANGED <<serial, gpsMsgArray, idxOfNewestGGAMsg, sockVars, timeVars,
                 backlog, got, faults>>

(* Mutant: a client that fails ends the loop over the clients. *)
SendClientStops ==
  /\ pc = "clients" /\ k \in Slots
  /\ \/ /\ idxOfNewestGGAMsg = 0 \/ clients[k] = NoFd
        /\ UNCHANGED <<clients, fd, got>>
        /\ k' = k + 1
     \/ /\ idxOfNewestGGAMsg # 0 /\ clients[k] # NoFd
        /\ fd[clients[k]].st = "closed"
        /\ disconnectClient(k)
        /\ UNCHANGED got
        /\ k' = NumSlots + 1
     \/ /\ idxOfNewestGGAMsg # 0 /\ clients[k] # NoFd
        /\ fd[clients[k]].st = "ok"
        /\ got' = got \cup {clients[k]}
        /\ UNCHANGED <<clients, fd>>
        /\ k' = k + 1
  /\ UNCHANGED <<pc, serial, parseVars, hosts, timeVars, backlog, faults>>

(* sendClients, for one slot: the newest GGA sentence, if there is one.     *)
(* The write blocks while the connection is full.                           *)
SendClient ==
  /\ pc = "clients" /\ k \in Slots
  /\ \/ /\ idxOfNewestGGAMsg = 0 \/ clients[k] = NoFd
        /\ UNCHANGED <<clients, fd, got>>
     \/ /\ idxOfNewestGGAMsg # 0 /\ clients[k] # NoFd
        /\ fd[clients[k]] = NoLink \/ fd[clients[k]].st = "closed"
        /\ disconnectClient(k)
        /\ UNCHANGED got
     \/ /\ idxOfNewestGGAMsg # 0 /\ clients[k] # NoFd
        /\ fd[clients[k]] # NoLink /\ fd[clients[k]].st = "ok"
        /\ got' = got \cup {clients[k]}
        /\ UNCHANGED <<clients, fd>>
  /\ k' = k + 1
  /\ UNCHANGED <<pc, serial, parseVars, hosts, timeVars, backlog, faults>>

ClientsDone ==
  /\ pc = "clients" /\ k > NumSlots
  /\ pc' = "hosts" /\ k' = 1
  /\ UNCHANGED <<serial, parseVars, sockVars, timeVars, backlog, got, faults>>

(* One turn of the loop over the hosts, which goes on with the next host.   *)
NextHost == k' = k + 1 /\ UNCHANGED <<pc, serial, parseVars, clients, backlog>>

(* A host without a connection, tried within the last RetryDelay seconds    *)
(* unless the clock has been set back since.                                *)
TriedLately == hosts[k] = NoFd /\ 0 <= sinceConnect[k] /\ sinceConnect[k] <= RetryDelay

HostWaits ==
  /\ pc = "hosts" /\ k \in Hosts
  /\ TriedLately
  /\ NextHost
  /\ UNCHANGED <<hosts, fd, timeVars, got, faults>>

(* connectServer fails (connect, or no route, or no socket): next host. *)
connectServerFails ==
  /\ pc = "hosts" /\ k \in Hosts
  /\ hosts[k] = NoFd /\ ~TriedLately
  /\ Fault
  /\ sinceConnect' = [sinceConnect EXCEPT ![k] = 0]
  /\ NextHost
  /\ UNCHANGED <<hosts, fd, sinceSend, got>>

(* connectServer succeeds: the loop goes on with the same host. *)
connectServer ==
  /\ pc = "hosts" /\ k \in Hosts
  /\ hosts[k] = NoFd /\ ~TriedLately
  /\ sinceConnect' = [sinceConnect EXCEPT ![k] = 0]
  /\ hosts' = [hosts EXCEPT ![k] = NewFd]
  /\ fd' = [fd EXCEPT ![NewFd] = [who |-> k, st |-> "ok"]]
  /\ UNCHANGED <<pc, k, serial, parseVars, clients, sinceSend, backlog, got, faults>>

TimeNotUp == Rate[k] > 0 /\ 0 <= sinceSend[k] /\ sinceSend[k] < Rate[k]

HostNotDue ==
  /\ pc = "hosts" /\ k \in Hosts
  /\ hosts[k] # NoFd
  /\ TimeNotUp
  /\ NextHost
  /\ UNCHANGED <<hosts, fd, timeVars, got, faults>>

(* sendHostData has something to send: a GGA sentence for the first host    *)
(* and for TAIP, any sentence for the others.                               *)
HasData == IF k = 1 \/ Output[k] = "taip" THEN idxOfNewestGGAMsg # 0
                                          ELSE gpsMsgArray # <<>>
Due == hosts[k] # NoFd /\ ~TimeNotUp

(* Nothing to send; for TAIP sendHostData returns true all the same. *)
HostNothing ==
  /\ pc = "hosts" /\ k \in Hosts
  /\ Due /\ ~HasData
  /\ sinceSend' = IF Output[k] = "taip" THEN [sinceSend EXCEPT ![k] = 0] ELSE sinceSend
  /\ NextHost
  /\ UNCHANGED <<hosts, fd, sinceConnect, got, faults>>

(* sendData succeeds.  A datagram for the internal reader is taken for      *)
(* sent when nobody is there to receive it.                                 *)
HostSent(received) ==
  /\ pc = "hosts" /\ k \in Hosts
  /\ Due /\ HasData
  /\ fd[hosts[k]] # NoLink /\ fd[hosts[k]].st = "ok"
  /\ IF received THEN got' = got \cup {hosts[k]} /\ UNCHANGED faults
                 ELSE Connection[k] = "internal" /\ Fault /\ UNCHANGED got
  /\ sinceSend' = [sinceSend EXCEPT ![k] = 0]
  /\ NextHost
  /\ UNCHANGED <<hosts, fd, sinceConnect>>

(* Mutant: the error is only logged. *)
CloseHostLogs == UNCHANGED <<fd, hosts>>

(* What sendData does after an error. *)
CloseHost ==
  /\ fd' = [fd EXCEPT ![hosts[k]] = NoLink]
  /\ hosts' = [hosts EXCEPT ![k] = NoFd]

(* sendData fails, on a connection the other end has closed or, for         *)
(* datagrams, at any time.                                                  *)
HostFails ==
  /\ pc = "hosts" /\ k \in Hosts
  /\ Due /\ HasData
  /\ \/ fd[hosts[k]] = NoLink /\ UNCHANGED faults
     \/ fd[hosts[k]] # NoLink /\ fd[hosts[k]].st = "closed" /\ UNCHANGED faults
     \/ Connection[k] # "tcp" /\ Fault
  /\ CloseHost
  /\ NextHost
  /\ UNCHANGED <<timeVars, got>>

HostsDone ==
  /\ pc = "hosts" /\ k > NumHosts
  /\ pc' = "accept" /\ k' = 1
  /\ UNCHANGED <<serial, parseVars, sockVars, timeVars, backlog, got, faults>>

-----------------------------------------------------------------------------
ToHosts == HostWaits \/ connectServerFails \/ connectServer \/ HostNotDue
           \/ HostNothing \/ (\E b \in BOOLEAN : HostSent(b)) \/ HostFails \/ HostsDone

Relay ==
  \/ \E b \in BOOLEAN : OpenSerial(b)
  \/ \E d \in ClockSteps : Accept(d)
  \/ \E b \in Bursts \cup {<<>>} : ReadBurst(b)
  \/ ParseStep \/ ParseEnd \/ SendClient \/ ClientsDone \/ ToHosts

Next == Environment \/ Relay

(* The process runs; the clock is not set back for ever and does advance;   *)
(* the receiver keeps sending, now and then a burst of one GGA sentence;    *)
(* the other ends read what they are sent.  Faults are bounded.             *)
Fairness ==
  /\ WF_vars(Relay)
  /\ SF_vars(\E d \in ClockSteps : d > 0 /\ Accept(d))
  /\ SF_vars(ReadBurst(<<"$GGA", "*">>))
  /\ WF_vars(\E f \in Fds : PeerReads(f))

Spec == Init /\ [][Next]_vars
FairSpec == Spec /\ Fairness

-----------------------------------------------------------------------------
TypeOK ==
  /\ pc \in {"open", "accept", "read", "parse", "clients", "hosts"}
  /\ k \in Nat \ {0}
  /\ serial \in {"closed", "open", "failed"}
  /\ gpsBuff \in Seq(Starts \cup Ends)
  /\ gpsStart \in 1 .. Len(gpsBuff) + 1
  /\ gpsMsgArray \in Seq(Starts)
  /\ idxOfNewestGGAMsg \in 0 .. Len(gpsMsgArray)
  /\ clients \in [Slots -> Fds \cup {NoFd}]
  /\ hosts \in [Hosts -> Fds \cup {NoFd}]
  /\ sinceConnect \in [Hosts -> Int] /\ sinceSend \in [Hosts -> Int]
  /\ fd \in [Fds -> Link \cup {NoLink}]
  /\ backlog \in Seq(Link)
  /\ got \in SUBSET Fds
  /\ faults \in Nat

(* The whole sentences of the burst that start before the mark i and have a *)
(* checksum of 0x10 or more. *)
Whole(i) == {j \in DOMAIN gpsBuff : /\ j < i /\ j + 1 \in DOMAIN gpsBuff
                                    /\ gpsBuff[j] \in Starts /\ gpsBuff[j + 1] = "*"}

(* parseGPSBuffer finds every whole sentence with a checksum of 0x10 or     *)
(* more, up to NUM_GPS_MESSAGES of them, in their order, and nothing else:  *)
(* a sentence that is damaged, cut off, run into the next one or dropped    *)
(* for its small checksum never takes the next one with it.  The newest GGA *)
(* sentence is the last one of them.                                        *)
ParsedBurst ==
  pc = "parse" =>
    LET found == Whole(gpsStart)
        Rank(j) == Cardinality({i \in found : i <= j})
    IN  /\ Len(gpsMsgArray) = Min({Cardinality(found), NUM_GPS_MESSAGES})
        /\ \A j \in found : Rank(j) <= NUM_GPS_MESSAGES
                            => gpsMsgArray[Rank(j)] = gpsBuff[j]
        /\ idxOfNewestGGAMsg =
              Max({0} \cup {n \in DOMAIN gpsMsgArray : gpsMsgArray[n] = "$GGA"})

(* A descriptor kept in clients[] or hosts[] is open, is the connection it  *)
(* was stored for, and is in one place only, although connections fail in   *)
(* the middle of a burst and the kernel gives their numbers to others: the  *)
(* relay never writes to a connection it has closed, and closes none twice. *)
DescriptorHasOneOwner ==
  /\ \A s \in Slots : clients[s] # NoFd =>
       fd[clients[s]] # NoLink /\ fd[clients[s]].who \in Clients
  /\ \A h \in Hosts : hosts[h] # NoFd => fd[hosts[h]] # NoLink /\ fd[hosts[h]].who = h
  /\ \A s, t \in Slots : clients[s] # NoFd /\ clients[s] = clients[t] => s = t

(* Every open connection is in a table: none is accepted or opened and then *)
(* forgotten, when the 32 slots are taken either.                           *)
NoDescriptorLeak ==
  \A f \in Fds : fd[f] # NoLink =>
    (\E s \in Slots : clients[s] = f) \/ (\E h \in Hosts : hosts[h] = f)

(* When the clients have been served, each of those that are left has been  *)
(* sent the fix of this burst: one that fails does not cost another its     *)
(* sentence.                                                                *)
FixReachesClients ==
  pc = "hosts" /\ idxOfNewestGGAMsg # 0 =>
    \A s \in Slots : clients[s] # NoFd => clients[s] \in got

(* The queue of connections that wait for accept moves: clients are not     *)
(* refused for ever, while all slots are taken either.                      *)
BacklogMoves == []<>(Len(backlog) < Backlog)

(* Every host is sent positions again and again, whatever has failed        *)
(* before, unless the serial port has.                                      *)
HostServed == \A h \in Hosts : <>(serial = "failed") \/ []<>(hosts[h] \in got)
=============================================================================
