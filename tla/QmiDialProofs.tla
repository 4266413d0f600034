--------------------------- MODULE QmiDialProofs ---------------------------
(* Proofs about QmiDial, for every table of delays, every number of         *)
(* addresses and any length of the two queues.                              *)
EXTENDS QmiDial, SequenceTheorems, TLAPS

(* The variables that are flags. *)
Flags == /\ evReady \in BOOLEAN /\ PSAttachedState \in BOOLEAN /\ handle \in BOOLEAN
         /\ allow \in BOOLEAN /\ alarm \in BOOLEAN /\ mattached \in BOOLEAN
         /\ calm \in BOOLEAN

(* The two queues. *)
Queues == /\ signals \in Seq(Signals) /\ events \in Seq(DevEvents)
          /\ evReady \/ pc = "event" => events # <<>>

(* The other variables. *)
Others == /\ pc \in States /\ IPv4ConnectionStatus \in Status
          /\ addr \in 0 .. MaxAddr /\ mcall \in 0 .. MaxAddr
          /\ s_link \in {-1, 0, 1}
          /\ SetupCallFail \in 0 .. Len(AllowTime) * LongWords
          /\ CheckSimFail \in 0 .. RebootAfter
          /\ dev \in {"present", "leaving", "gone"}

(* The loop takes its call for one that it can check. *)
Believes == calm /\ IPv4ConnectionStatus = "CONNECTED" /\ handle

(* LinkIsCurrent is about the time between two rounds.  What carries it     *)
(* through a round: a check that has found the addresses equal has it only  *)
(* after its last step (Checked), and everything the loop can do with the   *)
(* call left alone keeps it; a dial never starts or ends calm.              *)
CalmInv ==
  /\ pc = "address" => ~calm
  /\ pc = "checked" /\ Believes => addr = mcall
  /\ pc \in {"poll", "event", "register", "register2", "dialled"} /\ Believes
       => s_link = 1 /\ addr = mcall

IndInv == Flags /\ Queues /\ Others /\ CalmInv

(* What both queues need to know of Append.                                 *)
LEMMA AppendFacts ==
  ASSUME NEW S, NEW s \in Seq(S), NEW x \in S
  PROVE  Append(s, x) \in Seq(S) /\ Append(s, x) # <<>>
  OBVIOUS

(* Every step keeps the flags.                                              *)
LEMMA FlagsKept ==
  ASSUME Flags, [Next]_vars
  PROVE  Flags'
<1> USE DEF Flags, vars, loopVars, queueVars, connVars, timeVars, modemVars
<1>1. CASE PollTimeout \/ PollEvent \/ UNCHANGED vars
  BY <1>1, Zenon DEF PollTimeout, PollEvent
<1>2. CASE HandleStart
  BY <1>2, Zenon DEF HandleStart, ReadSignal, reboot_lte
<1>3. CASE HandleCheck \/ HandleStop
  BY <1>3, Zenon DEF HandleCheck, HandleStop, ReadSignal
<1>4. CASE SetupRefused
  BY <1>4, Zenon DEF SetupRefused
<1>5. CASE Dialled
  <2>1. ASSUME NEW d, allow' = (d > 0), alarm' = (d > 0)
        PROVE  allow' \in BOOLEAN /\ alarm' \in BOOLEAN
    BY <2>1
  <2>2. allow' \in BOOLEAN /\ alarm' \in BOOLEAN
    BY <1>5, <2>1, Zenon DEF Dialled
  <2> QED
    BY <1>5, <2>2, Zenon DEF Dialled
<1>6. CASE Checked
  BY <1>6, Zenon DEF Checked
<1>7. CASE EventDisconnected \/ EventNetworkState \/ EventDataCallList
  BY <1>7, Zenon DEF EventDisconnected, EventNetworkState, EventDataCallList, ReadEvent
<1>8. CASE EventReset
  BY <1>8, Zenon DEF EventReset, ReadEvent
<1>9. ASSUME NEW out \in Outcomes, Requests(out)
      PROVE  Flags'
  <2>1. CASE Setup(out)
    BY <2>1, Zenon DEF Setup
  <2>2. CASE Address(out) \/ Verify(out)
    BY <2>2, Zenon DEF Address, Verify
  <2>3. CASE Deactivate(out)
    BY <2>3, Zenon DEF Deactivate, requestDeactivateDefaultPDP
  <2>4. CASE Stop(out)
    BY <2>4, Zenon DEF Stop, requestDeactivateDefaultPDP
  <2>5. CASE requestRegistrationState(out)
    BY <2>5, Zenon DEF requestRegistrationState, Registered
  <2>6. CASE requestRegistrationState2(out)
    BY <2>6, Zenon DEF requestRegistrationState2, Registered
  <2>7. CASE \E reported \in Status : Query(out, reported)
    BY <2>7, Zenon DEF Query
  <2> QED
    BY <1>9, <2>1, <2>2, <2>3, <2>4, <2>5, <2>6, <2>7 DEF Requests
<1>10. CASE AllowTimeComes \/ AlarmRings \/ DeviceGone \/ SigTerm \/ Unplug
  BY <1>10, Zenon DEF AllowTimeComes, AlarmRings, DeviceGone, SigTerm, Unplug
<1>11. ASSUME NEW c, NEW a \in BOOLEAN, NEW e, Modem(c, a, e)
       PROVE  Flags'
  BY <1>11, Zenon DEF Modem
<1>12. CASE ModemDrop \/ ModemReaddress \/ ModemAttach \/ ModemDetach \/ ModemReset
  BY <1>11, <1>12, Zenon DEF ModemDrop, ModemReaddress, ModemAttach, ModemDetach, ModemReset
<1> QED
  BY <1>1, <1>2, <1>3, <1>4, <1>5, <1>6, <1>7, <1>8, <1>9, <1>10, <1>12
  DEF Next, Loop, Environment, Terminated

(* Every step keeps the queues.  A poll that has seen an event finds it     *)
(* when it comes to read it: nobody else takes events out of the queue.     *)
LEMMA QueuesKept ==
  ASSUME Flags, Queues, [Next]_vars
  PROVE  Queues'
<1> USE DEF Flags, Queues, vars, loopVars, queueVars, connVars, timeVars, modemVars
<1>a. "START" \in Signals /\ "CHECK" \in Signals /\ "STOP" \in Signals
  BY DEF Signals
<1>b. /\ "DATA_CALL_LIST" \in DevEvents /\ "NETWORK_STATE" \in DevEvents
      /\ "RESET" \in DevEvents /\ "DISCONNECTED" \in DevEvents
  BY DEF DevEvents
<1>c. /\ \A x \in Signals : Append(signals, x) \in Seq(Signals)
      /\ \A x \in DevEvents : Append(events, x) \in Seq(DevEvents) /\ Append(events, x) # <<>>
  BY AppendFacts
<1>d. <<"CHECK">> \in Seq(Signals) /\ <<>> \in Seq(Signals) /\ <<>> \in Seq(DevEvents)
  BY <1>a
<1>1. CASE PollTimeout
  BY <1>1, <1>d DEF PollTimeout
<1>1a. CASE PollEvent \/ UNCHANGED vars
  BY <1>1a DEF PollEvent
<1>2. CASE HandleStart
  BY <1>2 DEF HandleStart, ReadSignal, AfterSignal
<1>3. CASE HandleCheck \/ HandleStop
  BY <1>3 DEF HandleCheck, HandleStop, ReadSignal
<1>4. CASE SetupRefused
  BY <1>4 DEF SetupRefused
<1>5. CASE Dialled
  BY <1>5 DEF Dialled, AfterSignal
<1>6. CASE Checked
  <2>1. signals' \in {signals, Append(signals, "START")}
    BY <1>6 DEF Checked
  <2>2. signals' \in Seq(Signals)
    BY <2>1, <1>a, <1>c
  <2> QED
    BY <1>6, <2>2 DEF Checked, AfterSignal
<1>7. CASE EventDisconnected \/ EventNetworkState \/ EventDataCallList
  <2>1. signals' \in Seq(Signals)
    BY <1>7, <1>a, <1>c DEF EventDisconnected, EventNetworkState, EventDataCallList
  <2>2. events' = Tail(events) /\ evReady' = FALSE /\ pc' # "event" /\ events # <<>>
    BY <1>7 DEF EventDisconnected, EventNetworkState, EventDataCallList, ReadEvent
  <2> QED
    BY <2>1, <2>2
<1>8. CASE EventReset
  <2>1. evReady' = FALSE /\ pc' # "event"
    BY <1>8, Zenon DEF EventReset, ReadEvent
  <2>2. signals' \in Seq(Signals) /\ events' \in Seq(DevEvents)
    BY <1>8, <1>d DEF EventReset
  <2> QED
    BY <2>1, <2>2
<1>9. ASSUME NEW out \in Outcomes, Requests(out)
      PROVE  Queues'
  <2>1. CASE Setup(out) \/ Address(out) \/ Verify(out) \/ Deactivate(out) \/ Stop(out)
    BY <2>1 DEF Setup, Address, Verify, Deactivate, Stop
  <2>2. CASE requestRegistrationState(out) \/ requestRegistrationState2(out)
    <3>1. signals' \in {signals, Append(signals, "START")}
      BY <2>2 DEF requestRegistrationState, requestRegistrationState2, Registered
    <3>2. signals' \in Seq(Signals)
      BY <3>1, <1>a, <1>c
    <3> QED
      BY <2>2, <3>2 DEF requestRegistrationState, requestRegistrationState2, Registered
  <2>3. CASE \E reported \in Status : Query(out, reported)
    BY <2>3 DEF Query
  <2> QED
    BY <1>9, <2>1, <2>2, <2>3 DEF Requests
<1>10. CASE AllowTimeComes \/ AlarmRings \/ DeviceGone \/ SigTerm \/ Unplug
  <2>1. CASE AllowTimeComes \/ Unplug
    BY <2>1 DEF AllowTimeComes, Unplug
  <2>2. CASE AlarmRings \/ SigTerm
    <3>1. signals' \in Seq(Signals)
      BY <2>2, <1>a, <1>c DEF AlarmRings, SigTerm
    <3> QED
      BY <2>2, <3>1 DEF AlarmRings, SigTerm
  <2>3. CASE DeviceGone
    BY <2>3, <1>b, <1>c DEF DeviceGone
  <2> QED
    BY <1>10, <2>1, <2>2, <2>3
<1>11. ASSUME NEW c, NEW a, NEW e \in DevEvents, Modem(c, a, e)
       PROVE  Queues'
  BY <1>11, <1>c DEF Modem
<1>12. CASE ModemDrop \/ ModemReaddress \/ ModemAttach \/ ModemDetach \/ ModemReset
  BY <1>11, <1>12, <1>b
  DEF ModemDrop, ModemReaddress, ModemAttach, ModemDetach, ModemReset
<1> QED
  BY <1>1, <1>1a, <1>2, <1>3, <1>4, <1>5, <1>6, <1>7, <1>8, <1>9, <1>10, <1>12
  DEF Next, Loop, Environment, Terminated

(* Every step keeps the types of the other variables: the index into the    *)
(* table of delays stays below its bound, and an address is one of the      *)
(* network's.                                                               *)
LEMMA OthersKept ==
  ASSUME Flags, Others, [Next]_vars
  PROVE  Others'
<1> USE DialAssumption
<1> USE DEF Others, States, Status, vars, loopVars, queueVars, connVars, timeVars, modemVars
<1>1. CASE PollTimeout \/ PollEvent \/ UNCHANGED vars
  BY <1>1 DEF PollTimeout, PollEvent
<1>2. CASE HandleStart
  BY <1>2 DEF HandleStart, AfterSignal, reboot_lte
<1>3. CASE HandleCheck \/ HandleStop
  BY <1>3 DEF HandleCheck, HandleStop
<1>4. CASE SetupRefused
  <2>1. mcall' = mcall \/ mcall' = 0
    BY <1>4, Zenon DEF SetupRefused
  <2> QED
    BY <1>4, <2>1 DEF SetupRefused
<1>5. CASE Dialled
  BY <1>5 DEF Dialled, AfterSignal
<1>6. CASE Checked
  BY <1>6 DEF Checked, AfterSignal, usbnet_link_change
<1>7. CASE EventDisconnected \/ EventNetworkState \/ EventDataCallList
  BY <1>7 DEF EventDisconnected, EventNetworkState, EventDataCallList, usbnet_link_change
<1>8. CASE EventReset
  BY <1>8 DEF EventReset
<1>9. ASSUME NEW out \in Outcomes, Requests(out)
      PROVE  Others'
  <2>1. CASE Setup(out)
    BY <2>1 DEF Setup
  <2>2. CASE Address(out) \/ Verify(out)
    BY <2>2 DEF Address, Verify
  <2>3. CASE Deactivate(out)
    BY <2>3 DEF Deactivate, requestDeactivateDefaultPDP
  <2>4. CASE Stop(out)
    BY <2>4 DEF Stop, requestDeactivateDefaultPDP, usbnet_link_change
  <2>5. CASE requestRegistrationState(out) \/ requestRegistrationState2(out)
    BY <2>5 DEF requestRegistrationState, requestRegistrationState2, Registered
  <2>6. CASE \E reported \in Status : Query(out, reported)
    BY <2>6 DEF Query
  <2> QED
    BY <1>9, <2>1, <2>2, <2>3, <2>4, <2>5, <2>6 DEF Requests
<1>10. CASE AllowTimeComes \/ AlarmRings \/ DeviceGone \/ SigTerm \/ Unplug
  BY <1>10 DEF AllowTimeComes, AlarmRings, DeviceGone, SigTerm, Unplug
<1>11. ASSUME NEW c \in 0 .. MaxAddr, NEW a, NEW e, Modem(c, a, e)
       PROVE  Others'
  BY <1>11 DEF Modem
<1>12. CASE ModemDrop \/ ModemReaddress \/ ModemAttach \/ ModemDetach \/ ModemReset
  <2>1. 0 \in 0 .. MaxAddr /\ \A x \in 1 .. MaxAddr : x \in 0 .. MaxAddr
    OBVIOUS
  <2> QED
    BY <1>11, <1>12, <2>1, Zenon
    DEF ModemDrop, ModemReaddress, ModemAttach, ModemDetach, ModemReset
<1> QED
  BY <1>1, <1>2, <1>3, <1>4, <1>5, <1>6, <1>7, <1>8, <1>9, <1>10, <1>12
  DEF Next, Loop, Environment, Terminated

(* Every step keeps CalmInv: whatever changes the modem's call ends the     *)
(* calm, only a check that is complete brings it back to the poll, and      *)
(* check_ipv4_address has compared the addresses since.                     *)
LEMMA CalmKept ==
  ASSUME Flags, Others, CalmInv, [Next]_vars
  PROVE  CalmInv'
<1> USE DEF Flags, Others, CalmInv, Believes,
            vars, loopVars, queueVars, connVars, timeVars, modemVars
<1>1. CASE PollTimeout \/ PollEvent \/ UNCHANGED vars
  BY <1>1 DEF PollTimeout, PollEvent
<1>2. CASE HandleStart
  BY <1>2 DEF HandleStart, ReadSignal, AfterSignal, reboot_lte
<1>3. CASE HandleCheck \/ HandleStop
  BY <1>3 DEF HandleCheck, HandleStop, ReadSignal
<1>4. CASE SetupRefused
  BY <1>4 DEF SetupRefused
<1>5. CASE Dialled
  BY <1>5 DEF Dialled, AfterSignal
<1>6. CASE Checked
  BY <1>6 DEF Checked, AfterSignal, usbnet_link_change
<1>7. CASE EventDisconnected \/ EventNetworkState \/ EventDataCallList
  BY <1>7 DEF EventDisconnected, EventNetworkState, EventDataCallList, ReadEvent
<1>8. CASE EventReset
  BY <1>8 DEF EventReset
<1>9. ASSUME NEW out \in Outcomes, Requests(out)
      PROVE  CalmInv'
  <2>1. CASE Setup(out) \/ Deactivate(out)
    BY <2>1 DEF Setup, Deactivate
  <2>2. CASE Address(out)
    BY <2>2 DEF Address
  <2>3. CASE Verify(out)
    BY <2>3 DEF Verify, check_ipv4_address
  <2>4. CASE Stop(out)
    BY <2>4 DEF Stop
  <2>5. CASE requestRegistrationState(out) \/ requestRegistrationState2(out)
    BY <2>5 DEF requestRegistrationState, requestRegistrationState2, Registered
  <2>6. CASE \E reported \in Status : Query(out, reported)
    BY <2>6 DEF Query
  <2> QED
    BY <1>9, <2>1, <2>2, <2>3, <2>4, <2>5, <2>6 DEF Requests
<1>10. CASE AllowTimeComes \/ AlarmRings \/ DeviceGone \/ SigTerm \/ Unplug
  BY <1>10 DEF AllowTimeComes, AlarmRings, DeviceGone, SigTerm, Unplug
<1>11. CASE ModemDrop \/ ModemReaddress \/ ModemAttach \/ ModemDetach \/ ModemReset
  BY <1>11 DEF ModemDrop, ModemReaddress, ModemAttach, ModemDetach, ModemReset, Modem
<1> QED
  BY <1>1, <1>2, <1>3, <1>4, <1>5, <1>6, <1>7, <1>8, <1>9, <1>10, <1>11
  DEF Next, Loop, Environment, Terminated

(* The inductive invariant holds in every reachable state.                  *)
THEOREM IndInvCorrect == Spec => []IndInv
<1>1. Init => IndInv
  <2> SUFFICES ASSUME Init
               PROVE  IndInv
    OBVIOUS
  <2> USE DEF Init
  <2>1. Flags
    BY Zenon DEF Flags
  <2>2. Queues
    BY DEF Queues, Signals
  <2>3. Others /\ CalmInv
    BY DialAssumption DEF Others, CalmInv, Believes, States, Status
  <2> QED
    BY <2>1, <2>2, <2>3 DEF IndInv
<1>2. IndInv /\ [Next]_vars => IndInv'
  BY FlagsKept, QueuesKept, OthersKept, CalmKept DEF IndInv
<1> QED
  BY <1>1, <1>2, PTL DEF Spec

(* The variables of qmi_main and the two queues keep their types, and an    *)
(* event that poll has seen is there when it is read.                       *)
THEOREM TypeCorrect == Spec => []TypeOK
<1>1. IndInv => TypeOK
  BY DEF IndInv, Flags, Queues, Others, TypeOK
<1> QED
  BY <1>1, IndInvCorrect, PTL

(* After an undisturbed SIG_EVENT_CHECK a connected loop has its link up    *)
(* and the address of the call, whatever else is waiting in the queues.     *)
THEOREM LinkIsCurrentCorrect == Spec => []LinkIsCurrent
<1>1. IndInv => LinkIsCurrent
  BY DEF IndInv, CalmInv, Believes, LinkIsCurrent
<1> QED
  BY <1>1, IndInvCorrect, PTL
=============================================================================
