------------------------------ MODULE QmiDial ------------------------------
(***************************************************************************)
(* The dial loop of quectel-CM: qmi_main (main.c) and the requests it      *)
(* makes (QMIThread.c), in the configuration qmi.sh starts: IPv4 only, no  *)
(* user name or password, no -l, and a raw-IP modem (s_9x07).  Each        *)
(* request to the modem is a step of its own, because the modem drops      *)
(* calls, changes addresses, attaches and detaches while the loop waits    *)
(* for an answer.                                                          *)
(*                                                                         *)
(* A request ends in one of three ways: "ok", with the modem's answer;     *)
(* "err", a timeout or a QMI error, which the callers see as a nonzero     *)
(* result; "null", no answer but the result 0, when QmiThreadRecvQMI(NULL) *)
(* or a spurious wake-up ended the wait.  Of the two deadlines only the    *)
(* fact that they are ahead is kept: allow for SetupCallAllowTime, alarm   *)
(* for SIGALRM.                                                            *)
(***************************************************************************)
EXTENDS Integers, Sequences

CONSTANTS
  LongWords,  \* sizeof(unsigned long) / sizeof(unsigned): 2 on the aarch64 target
  AllowTime,  \* the table allow_time: <<5, 10, 20, 25, 30>> in main.c
  LastDelay,  \* the delay behind it: 60
  RebootAfter,\* dials without a good check before reboot_lte: 5
  Garbage,    \* delays that may lie in memory behind the table allow_time
  MaxAddr,    \* addresses the network hands out are 1 .. MaxAddr
  QueueCap    \* bound on the signals and events waiting for the loop

ASSUME DialAssumption ==
  /\ LongWords \in {1, 2}
  /\ AllowTime \in Seq(Nat \ {0}) /\ LastDelay \in Nat \ {0}
  /\ RebootAfter \in Nat \ {0}
  /\ Garbage \in SUBSET Nat
  /\ MaxAddr \in Nat \ {0}
  /\ QueueCap \in Nat \ {0}

Outcomes == {"ok", "err", "null"}
Status == {"UNKNOWN", "DISCONNECTED", "CONNECTED", "SUSPENDED"}
Signals == {"START", "CHECK", "STOP"}
DevEvents == {"NETWORK_STATE", "DATA_CALL_LIST", "RESET", "DISCONNECTED"}

VARIABLES
  pc,         \* the request or decision the loop is at
  evReady,    \* the poll that started this round also saw a device event
  signals,    \* signal_control_fd
  events,     \* qmidevice_control_fd
  PSAttachedState,
  IPv4ConnectionStatus,
  handle,     \* WdsConnectionIPv4Handle # 0
  addr,       \* profile->ipv4.Address (0 = none)
  s_link,
  SetupCallFail, CheckSimFail,
  allow,      \* SetupCallAllowTime > clock_msec()
  alarm,      \* an alarm is set
  mcall,      \* modem: address of the call that is up, 0 when none is
  mattached,  \* modem: packet service attached
  dev,        \* modem: "present", "leaving" (powered off), "gone"
  calm        \* nothing has happened to the call, and no answer has been
              \* missing, since the last check began

loopVars == <<pc, evReady>>
queueVars == <<signals, events>>
connVars == <<PSAttachedState, IPv4ConnectionStatus, handle, addr>>
timeVars == <<SetupCallFail, allow, alarm>>
modemVars == <<mcall, mattached, dev>>
vars == <<loopVars, queueVars, connVars, s_link, CheckSimFail, timeVars, modemVars, calm>>

States == {"poll", "event", "setup", "address", "dialled", "query", "verify",
           "deactivate", "checked", "register", "register2", "stop", "quit"}

Init ==
  /\ pc = "poll" /\ evReady = FALSE
  /\ signals = <<"CHECK">>          \* send_signo_to_main before the loop
  /\ events = <<>>
  /\ PSAttachedState \in BOOLEAN    \* not initialized if requestRegistrationState fails
  /\ mattached \in BOOLEAN /\ dev = "present"
  /\ mcall \in {0, 1}               \* a call may be left from an earlier process
  /\ mcall # 0 => mattached
  /\ IPv4ConnectionStatus = "UNKNOWN"
  /\ handle = FALSE /\ addr = 0
  /\ s_link = -1
  /\ SetupCallFail = 0 /\ CheckSimFail = 0
  /\ allow = FALSE /\ alarm = FALSE
  /\ calm = FALSE

(* usbnet_link_change also runs udhcpc_start or udhcpc_stop to their end;   *)
(* what they do to the interface is not modelled.                           *)
usbnet_link_change(link) == s_link' = link

(* Only a modem that is there answers. *)
Answers(out) == out = "ok" => dev # "gone"

(* After a signal's handler comes the device event the same poll saw. *)
AfterSignal == IF evReady THEN "event" ELSE "poll"

-----------------------------------------------------------------------------
(* One round of the loop: a 15 s timeout, or a signal, or a device event.   *)

(* Mutant: the timeout only starts the next round. *)
PollTimeoutIdle ==
  /\ pc = "poll" /\ signals = <<>> /\ events = <<>>
  /\ UNCHANGED vars

PollTimeout ==
  /\ pc = "poll" /\ signals = <<>> /\ events = <<>>
  /\ signals' = <<"CHECK">>
  /\ UNCHANGED <<loopVars, events, connVars, s_link, CheckSimFail, timeVars, modemVars, calm>>

PollEvent ==
  /\ pc = "poll" /\ signals = <<>> /\ events # <<>>
  /\ pc' = "event"
  /\ UNCHANGED <<evReady, queueVars, connVars, s_link, CheckSimFail, timeVars, modemVars, calm>>

(* The read of a signal, with alarm(0). *)
ReadSignal(signo) ==
  /\ pc = "poll" /\ signals # <<>> /\ Head(signals) = signo
  /\ signals' = Tail(signals)
  /\ evReady' = (events # <<>>)

(* reboot_lte powers the modem off; that ends the call. *)
reboot_lte ==
  /\ mcall' = 0 /\ mattached' = FALSE
  /\ dev' = IF dev = "present" THEN "leaving" ELSE dev
  /\ calm' = FALSE

(* SIG_EVENT_START up to its first request. *)
HandleStart ==
  /\ ReadSignal("START")
  /\ CheckSimFail' = IF CheckSimFail < RebootAfter THEN CheckSimFail + 1 ELSE CheckSimFail
  /\ IF CheckSimFail' >= RebootAfter THEN reboot_lte ELSE UNCHANGED <<modemVars, calm>>
  /\ alarm' = (PSAttachedState /\ allow)
  /\ \/ /\ ~PSAttachedState \/ allow
        /\ pc' = AfterSignal'
     \/ /\ PSAttachedState /\ ~allow
        /\ pc' = IF IPv4ConnectionStatus # "CONNECTED" THEN "setup" ELSE "dialled"
  /\ UNCHANGED <<events, connVars, s_link, SetupCallFail, allow>>

(* requestSetupDataCall when the modem starts a call, when the answer does  *)
(* not come in time (a call may still come up), and when there is none but  *)
(* the result 0.                                                            *)
Setup(out) ==
  /\ pc = "setup"
  /\ \/ /\ out = "ok" /\ mattached /\ mcall = 0
        /\ mcall' \in 1 .. MaxAddr
        /\ handle' = TRUE
        /\ pc' = "address"
     \/ /\ out = "err"
        /\ mcall' \in {mcall} \cup (IF mattached /\ mcall = 0 THEN 1 .. MaxAddr ELSE {})
        /\ handle' = handle
        /\ pc' = "dialled"
     \/ /\ out = "null"
        /\ mcall' \in {mcall} \cup (IF mattached /\ mcall = 0 THEN 1 .. MaxAddr ELSE {})
        /\ handle' = handle
        /\ pc' = "address"
  /\ calm' = FALSE
  /\ UNCHANGED <<evReady, queueVars, PSAttachedState, IPv4ConnectionStatus, addr,
                 s_link, CheckSimFail, timeVars, mattached, dev>>

(* requestSetupDataCall when the modem refuses.  If it says that a call is  *)
(* already present the code stops that call, with or without success.  The  *)
(* result is read from the answer after free(pResponse), and may be 0.      *)
SetupRefused ==
  /\ pc = "setup" /\ dev # "gone"
  /\ \/ UNCHANGED <<mcall, handle>>
     \/ /\ mcall # 0
        /\ mcall' \in {0, mcall}
        /\ handle' \in {FALSE, handle}
  /\ pc' \in {"address", "dialled"}
  /\ calm' = FALSE
  /\ UNCHANGED <<evReady, queueVars, PSAttachedState, IPv4ConnectionStatus, addr,
                 s_link, CheckSimFail, timeVars, mattached, dev>>

(* requestGetIPAddress into profile: no request, and address 0, without a   *)
(* handle.                                                                  *)
Address(out) ==
  /\ pc = "address"
  /\ IF handle THEN Answers(out) ELSE out = "ok"
  /\ addr' = IF handle /\ out = "ok" THEN mcall ELSE 0
  /\ IPv4ConnectionStatus' = IF out = "err" THEN IPv4ConnectionStatus ELSE "CONNECTED"
  /\ pc' = "dialled"
  /\ calm' = (calm /\ out = "ok")
  /\ UNCHANGED <<evReady, queueVars, PSAttachedState, handle, s_link, CheckSimFail,
                 timeVars, modemVars>>

(* The delay after one more failure.  The code bounds the index by          *)
(* sizeof(allow_time)/sizeof(unsigned), the elements being unsigned long.   *)
NextDelay ==
  IF SetupCallFail < Len(AllowTime) * LongWords
  THEN IF SetupCallFail < Len(AllowTime) THEN {AllowTime[SetupCallFail + 1]} ELSE Garbage
  ELSE {LastDelay}

(* The end of SIG_EVENT_START: back off, or clear the back-off. *)
Dialled ==
  /\ pc = "dialled"
  /\ \/ /\ IPv4ConnectionStatus = "DISCONNECTED"
        /\ \E d \in NextDelay : allow' = (d > 0) /\ alarm' = (d > 0)
        /\ SetupCallFail' = IF SetupCallFail < Len(AllowTime) * LongWords
                            THEN SetupCallFail + 1 ELSE SetupCallFail
     \/ /\ IPv4ConnectionStatus = "CONNECTED"
        /\ SetupCallFail' = 0 /\ allow' = FALSE
        /\ UNCHANGED alarm
     \/ /\ IPv4ConnectionStatus \in {"UNKNOWN", "SUSPENDED"}
        /\ UNCHANGED timeVars
  /\ pc' = AfterSignal
  /\ UNCHANGED <<evReady, queueVars, connVars, s_link, CheckSimFail, modemVars, calm>>

-----------------------------------------------------------------------------
(* SIG_EVENT_CHECK: query the call, compare addresses, set the link.        *)

HandleCheck ==
  /\ ReadSignal("CHECK")
  /\ alarm' = FALSE
  /\ calm' = TRUE
  /\ pc' = "query"
  /\ UNCHANGED <<events, connVars, s_link, CheckSimFail, SetupCallFail, allow, modemVars>>

(* requestQueryDataCall.  A call that is up may be reported in another      *)
(* state, or as one to be set up again, which counts as disconnected.       *)
Query(out, reported) ==
  /\ pc = "query" /\ Answers(out)
  /\ IF out = "ok"
     THEN /\ reported \in IF mcall # 0 THEN {"CONNECTED", "SUSPENDED", "DISCONNECTED"}
                          ELSE {"DISCONNECTED"}
          /\ handle' = (handle /\ reported # "DISCONNECTED")
     ELSE reported = IPv4ConnectionStatus /\ UNCHANGED handle
  /\ IPv4ConnectionStatus' = reported
  /\ pc' = IF reported = "CONNECTED" THEN "verify" ELSE "checked"
  /\ calm' = (calm /\ out = "ok")
  /\ UNCHANGED <<evReady, queueVars, PSAttachedState, addr, s_link, CheckSimFail,
                 timeVars, modemVars>>

(* Mutant: any answer will do. *)
check_ipv4_addressAnswered(out) == out # "err"

(* check_ipv4_address: a failed query counts as a different address. *)
check_ipv4_address(out) ==
  LET remote == IF handle /\ out = "ok" THEN mcall ELSE 0
  IN  out # "err" /\ remote = addr

Verify(out) ==
  /\ pc = "verify"
  /\ IF handle THEN Answers(out) ELSE out = "ok"
  /\ pc' = IF check_ipv4_address(out) THEN "checked" ELSE "deactivate"
  /\ calm' = (calm /\ out = "ok")
  /\ UNCHANGED <<evReady, queueVars, connVars, s_link, CheckSimFail, timeVars, modemVars>>

(* requestDeactivateDefaultPDP: nothing without a handle, and the handle    *)
(* survives a missing answer.                                               *)
requestDeactivateDefaultPDP(out) ==
  IF ~handle THEN out = "ok" /\ UNCHANGED <<handle, mcall>>
  ELSE /\ Answers(out)
       /\ handle' = (handle /\ out # "ok")
       /\ mcall' \in IF out = "ok" THEN {0} ELSE {mcall, 0}

Deactivate(out) ==
  /\ pc = "deactivate"
  /\ requestDeactivateDefaultPDP(out)
  /\ IPv4ConnectionStatus' = "DISCONNECTED"
  /\ pc' = "checked"
  /\ calm' = FALSE
  /\ UNCHANGED <<evReady, queueVars, PSAttachedState, addr, s_link, CheckSimFail,
                 timeVars, mattached, dev>>

(* Mutant: the check leaves dialling to the events. *)
CheckedNoDial ==
  /\ pc = "checked"
  /\ usbnet_link_change(IF IPv4ConnectionStatus = "DISCONNECTED" THEN 0
                        ELSE IF IPv4ConnectionStatus = "CONNECTED" THEN 1 ELSE s_link)
  /\ CheckSimFail' = IF IPv4ConnectionStatus = "CONNECTED" THEN 0 ELSE CheckSimFail
  /\ pc' = AfterSignal
  /\ UNCHANGED <<evReady, queueVars, connVars, timeVars, modemVars, calm>>

(* The end of SIG_EVENT_CHECK. *)
Checked ==
  /\ pc = "checked"
  /\ \/ /\ IPv4ConnectionStatus = "DISCONNECTED"
        /\ usbnet_link_change(0)
        /\ signals' = Append(signals, "START")
        /\ UNCHANGED CheckSimFail
     \/ /\ IPv4ConnectionStatus = "CONNECTED"
        /\ usbnet_link_change(1)
        /\ CheckSimFail' = 0
        /\ UNCHANGED signals
     \/ /\ IPv4ConnectionStatus \in {"UNKNOWN", "SUSPENDED"}
        /\ UNCHANGED <<s_link, CheckSimFail, signals>>
  /\ pc' = AfterSignal
  /\ UNCHANGED <<evReady, events, connVars, timeVars, modemVars, calm>>

-----------------------------------------------------------------------------
(* SIG_EVENT_STOP and the way out.                                          *)

HandleStop ==
  /\ ReadSignal("STOP")
  /\ alarm' = FALSE
  /\ pc' = "stop"
  /\ UNCHANGED <<events, connVars, s_link, CheckSimFail, SetupCallFail, allow,
                 modemVars, calm>>

(* The call is stopped if the loop believes it is up, and the link goes     *)
(* down either way.                                                         *)
Stop(out) ==
  /\ pc = "stop"
  /\ IF IPv4ConnectionStatus = "CONNECTED" THEN requestDeactivateDefaultPDP(out)
     ELSE out = "ok" /\ UNCHANGED <<handle, mcall>>
  /\ usbnet_link_change(0)
  /\ pc' = "quit"
  /\ UNCHANGED <<evReady, queueVars, PSAttachedState, IPv4ConnectionStatus, addr,
                 CheckSimFail, timeVars, mattached, dev, calm>>

-----------------------------------------------------------------------------
(* Events of the reader thread.                                             *)

(* Mutant: the next round still believes an event is there. *)
ReadEventStale(event) ==
  /\ pc = "event" /\ Head(events) = event
  /\ UNCHANGED evReady

ReadEvent(event) ==
  /\ pc = "event" /\ Head(events) = event
  /\ evReady' = FALSE

(* RIL_INDICATE_DEVICE_DISCONNECTED without -l: the process ends. *)
EventDisconnected ==
  /\ ReadEvent("DISCONNECTED")
  /\ events' = Tail(events)
  /\ usbnet_link_change(0)
  /\ pc' = "quit"
  /\ UNCHANGED <<signals, connVars, CheckSimFail, timeVars, modemVars, calm>>

(* RIL_UNSOL_RESPONSE_VOICE_NETWORK_STATE_CHANGED up to                     *)
(* requestRegistrationState.                                                *)
EventNetworkState ==
  /\ ReadEvent("NETWORK_STATE")
  /\ events' = Tail(events)
  /\ pc' = "register"
  /\ UNCHANGED <<signals, connVars, s_link, CheckSimFail, timeVars, modemVars, calm>>

(* What follows requestRegistrationState: dial, or clear the back-off.      *)
Registered(attached) ==
  /\ PSAttachedState' = attached
  /\ signals' = IF attached /\ IPv4ConnectionStatus = "DISCONNECTED"
                THEN Append(signals, "START") ELSE signals
  /\ allow' = (allow /\ attached)
  /\ pc' = "poll"

(* The first request of requestRegistrationState asks for the name of the   *)
(* network; without an answer the attachment is what it was.                *)
requestRegistrationState(out) ==
  /\ pc = "register" /\ Answers(out)
  /\ IF out = "ok" THEN pc' = "register2" /\ UNCHANGED <<PSAttachedState, signals, allow>>
     ELSE Registered(PSAttachedState)
  /\ UNCHANGED <<evReady, events, IPv4ConnectionStatus, handle, addr, s_link, CheckSimFail,
                 SetupCallFail, alarm, modemVars, calm>>

(* The second asks for the attachment, which counts as lost before it is    *)
(* answered.                                                                *)
requestRegistrationState2(out) ==
  /\ pc = "register2" /\ Answers(out)
  /\ Registered(out = "ok" /\ mattached)
  /\ UNCHANGED <<evReady, events, IPv4ConnectionStatus, handle, addr, s_link, CheckSimFail,
                 SetupCallFail, alarm, modemVars, calm>>

(* RIL_UNSOL_DATA_CALL_LIST_CHANGED: 1 s before the next dial if the call   *)
(* was up, and a check.                                                     *)
EventDataCallList ==
  /\ ReadEvent("DATA_CALL_LIST")
  /\ events' = Tail(events)
  /\ allow' = (allow \/ IPv4ConnectionStatus = "CONNECTED")
  /\ signals' = Append(signals, "CHECK")
  /\ pc' = "poll"
  /\ UNCHANGED <<connVars, s_link, CheckSimFail, SetupCallFail, alarm, modemVars, calm>>

(* MODEM_REPORT_RESET_EVENT: the link is marked down without udhcpc_stop,   *)
(* both queues are closed, and after 20 s everything starts again, with the *)
(* connection state kept; an alarm due in these 20 s is lost.  The process  *)
(* ends if the modem is not found again.                                    *)
EventReset ==
  /\ ReadEvent("RESET")
  /\ events' = <<>>
  /\ s_link' = 0
  /\ calm' = FALSE
  /\ alarm' \in {alarm, FALSE} /\ allow' \in {allow, FALSE}
  /\ \/ /\ dev = "present"
        /\ pc' = "poll"
        /\ signals' = <<"CHECK">>
        /\ PSAttachedState' \in {PSAttachedState, mattached, FALSE}
     \/ /\ pc' = "quit"
        /\ signals' = <<>>
        /\ UNCHANGED PSAttachedState
  /\ UNCHANGED <<IPv4ConnectionStatus, handle, addr, CheckSimFail, SetupCallFail,
                 modemVars>>

-----------------------------------------------------------------------------
(* Time, signals and the modem.                                             *)

(* SetupCallAllowTime comes. *)
AllowTimeComes ==
  /\ pc # "quit" /\ allow
  /\ allow' = FALSE
  /\ UNCHANGED <<loopVars, queueVars, connVars, s_link, CheckSimFail, SetupCallFail, alarm,
                 modemVars, calm>>

(* SIGALRM makes ql_sigaction send START.  It comes no earlier than the     *)
(* SetupCallAllowTime it was set for, but a data call event may have moved  *)
(* that time since.                                                         *)
AlarmRings ==
  /\ pc # "quit" /\ alarm
  /\ alarm' = FALSE
  /\ signals' = Append(signals, "START")
  /\ UNCHANGED <<loopVars, events, connVars, s_link, CheckSimFail, SetupCallFail, allow,
                 modemVars, calm>>

Room == Len(signals) + Len(events) < QueueCap

(* SIGTERM: ql_sigaction. *)
SigTerm ==
  /\ pc # "quit" /\ Room
  /\ signals' = Append(signals, "STOP")
  /\ UNCHANGED <<loopVars, events, connVars, s_link, CheckSimFail, timeVars, modemVars, calm>>

(* The modem changes its call or its attachment and tells the loop about it *)
(* or not.                                                                  *)
Modem(call, attached, event) ==
  /\ pc # "quit" /\ dev = "present"
  /\ mcall' = call /\ mattached' = attached /\ UNCHANGED dev
  /\ \/ events' = events
     \/ Room /\ events' = Append(events, event)
  /\ calm' = FALSE
  /\ UNCHANGED <<loopVars, signals, connVars, s_link, CheckSimFail, timeVars>>

ModemDrop == mcall # 0 /\ Modem(0, mattached, "DATA_CALL_LIST")
ModemReaddress == mcall # 0 /\ \E a \in 1 .. MaxAddr \ {mcall} : Modem(a, TRUE, "DATA_CALL_LIST")
ModemAttach == ~mattached /\ Modem(mcall, TRUE, "NETWORK_STATE")
ModemDetach == mattached /\ Modem(0, FALSE, "NETWORK_STATE")

ModemReset ==
  /\ Room /\ Modem(0, FALSE, "RESET")
  /\ events' # events

(* The modem is unplugged or powered off, and the reader thread sees it. *)
Unplug ==
  /\ pc # "quit" /\ dev = "present"
  /\ dev' = "leaving" /\ mcall' = 0 /\ mattached' = FALSE /\ calm' = FALSE
  /\ UNCHANGED <<loopVars, queueVars, connVars, s_link, CheckSimFail, timeVars>>

DeviceGone ==
  /\ pc # "quit" /\ dev = "leaving"
  /\ dev' = "gone"
  /\ events' = Append(events, "DISCONNECTED")
  /\ UNCHANGED <<loopVars, signals, connVars, s_link, CheckSimFail, timeVars,
                 mcall, mattached, calm>>

Terminated == pc = "quit" /\ UNCHANGED vars

-----------------------------------------------------------------------------
Requests(out) ==
  \/ Setup(out) \/ Address(out) \/ Verify(out) \/ Deactivate(out) \/ Stop(out)
  \/ requestRegistrationState(out) \/ requestRegistrationState2(out)
  \/ \E reported \in Status : Query(out, reported)

Loop ==
  \/ PollTimeout \/ PollEvent \/ HandleStart \/ SetupRefused \/ Dialled \/ HandleCheck \/ Checked
  \/ HandleStop \/ EventDisconnected \/ EventNetworkState \/ EventDataCallList \/ EventReset
  \/ \E out \in Outcomes : Requests(out)

Environment ==
  \/ SigTerm \/ ModemDrop \/ ModemReaddress \/ ModemAttach \/ ModemDetach \/ ModemReset \/ Unplug

Next == Loop \/ AllowTimeComes \/ AlarmRings \/ DeviceGone \/ Environment \/ Terminated

Spec == Init /\ [][Next]_vars

(* The loop runs, time passes and a modem that was powered off disappears;  *)
(* of the modem it is assumed that a query is answered now and then, and    *)
(* that its call and its attachment are left alone at last: a stream of     *)
(* events that never pauses for 15 s keeps poll from timing out.            *)
FairSpec ==
  /\ Spec
  /\ WF_vars(Loop) /\ WF_vars(AllowTimeComes) /\ WF_vars(AlarmRings) /\ WF_vars(DeviceGone)
  /\ SF_vars(\E reported \in Status : Query("ok", reported))
  /\ <>[][~Environment]_vars

-----------------------------------------------------------------------------
TypeOK ==
  /\ pc \in States /\ evReady \in BOOLEAN
  /\ signals \in Seq(Signals) /\ events \in Seq(DevEvents)
  /\ PSAttachedState \in BOOLEAN /\ IPv4ConnectionStatus \in Status
  /\ handle \in BOOLEAN /\ addr \in 0 .. MaxAddr
  /\ s_link \in {-1, 0, 1}
  /\ SetupCallFail \in 0 .. Len(AllowTime) * LongWords /\ CheckSimFail \in 0 .. RebootAfter
  /\ allow \in BOOLEAN /\ alarm \in BOOLEAN
  /\ mcall \in 0 .. MaxAddr /\ mattached \in BOOLEAN
  /\ dev \in {"present", "leaving", "gone"} /\ calm \in BOOLEAN
  /\ evReady \/ pc = "event" => events # <<>>

(* After a check during which nothing happened to the call and every        *)
(* request was answered, a connected loop with a handle has its link up and *)
(* holds the address of the call that is up, although addresses change,     *)
(* calls drop and are set up between the requests of a check                *)
(* (SIG_EVENT_CHECK with check_ipv4_address).                               *)
LinkIsCurrent ==
  pc = "poll" /\ calm /\ IPv4ConnectionStatus = "CONNECTED" /\ handle
    => s_link = 1 /\ addr = mcall

(* A call that went away while the link was up is noticed: the link goes    *)
(* down, or a call is up again, or the process ends.                        *)
DropNoticed == (mcall = 0 /\ s_link = 1) ~> (s_link # 1 \/ mcall # 0 \/ pc = "quit")

(* A loop that believes the modem attached and has no call dials again.     *)
DialsAgain ==
  (PSAttachedState /\ mcall = 0)
    ~> (pc = "setup" \/ mcall # 0 \/ ~PSAttachedState \/ pc = "quit")

(* The delay before the next dial is one of the table's, or the last one    *)
(* (the code prints it as the number of seconds it waits), as long as the   *)
(* modem has not been powered off.                                          *)
BackoffFromTable ==
  pc = "dialled" /\ IPv4ConnectionStatus = "DISCONNECTED" /\ dev = "present"
    => NextDelay \subseteq {AllowTime[i] : i \in DOMAIN AllowTime} \cup {LastDelay}
=============================================================================
