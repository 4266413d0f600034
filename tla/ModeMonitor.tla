---------------------------- MODULE ModeMonitor ----------------------------
(***************************************************************************)
(* The scripts that keep the mobile connection up and, in passthrough      *)
(* mode, hand its address to a device on the LAN: awc-mode-monitor.sh, a   *)
(* loop that procd restarts; passthrough.sh, which it runs; and            *)
(* proto_qmi_setup of qmi.sh, which netifd runs to bring the interface     *)
(* wwan up and which starts quectel-CM.  They share files in               *)
(* /tmp/nextivity, the address of wwan0, the driver's bridge_ipv4 and the  *)
(* process quectel-CM, and take no lock.                                   *)
(*                                                                         *)
(* bridge_mode is fixed: awc-set-mode.sh reboots to change it.  Nothing in *)
(* the repository sets the driver's own bridge_mode, so that quectel-CM    *)
(* runs DHCP on wwan0 and leaves bridge_ipv4 to passthrough.sh.            *)
(***************************************************************************)
EXTENDS Naturals, FiniteSets

CONSTANTS
  Addrs,       \* addresses the mobile network assigns
  Lans,        \* values of network.lan.ipaddr
  Spare,       \* the free LAN address get_new_address finds for wwan0
  NoAddr,      \* no address, or an empty file
  Retry,       \* procd restarts the monitor this often (respawn_retry)
  MaxChanges   \* bound on what users, network, modem and crashes change

ASSUME AddrAssumption ==
  /\ NoAddr \notin Addrs \cup {Spare} /\ Spare \notin Addrs
  /\ NoAddr \notin Lans /\ Retry \in Nat /\ MaxChanges \in Nat

VARIABLES
  mode,            \* uci awc.main.bridge_mode
  lan, apn,        \* uci network.lan.ipaddr, network.wwan.apn
  modem,           \* the modem is on the USB bus
  changes,         \* changes so far (bounds the model)
  cm,              \* quectel-CM: "none", "dial" or "up"
  dying,           \* dying[s]: those that were in state s and are on their way out
  net,             \* address of the call
  wwan, route,     \* address of wwan0; there is a default route through it
  bridge_ipv4,     \* /sys/class/net/wwan0/qmi/bridge_ipv4
  available,       \* netifd may set the interface up (proto_set_available)
  qpc,             \* where proto_qmi_setup is, or "idle"
  qmi_script_log,  \* the file exists
  mpc,             \* where the monitor is
  cur_lan_addr, cur_addr,   \* variables of the monitor
  last_apn_config,
  WIP,             \* variable of passthrough.sh
  mobile_ip, cur_lan_ip, passthrough_is_switched,   \* files
  deaths           \* times the monitor has ended

world == <<mode, lan, apn, modem, changes>>
link == <<cm, dying, net, wwan, route>>
netifd == <<available, qpc, qmi_script_log>>
local == <<cur_lan_addr, cur_addr, last_apn_config, WIP>>
files == <<mobile_ip, cur_lan_ip, passthrough_is_switched>>
monitor == <<mpc, local, files, deaths>>
vars == <<world, link, bridge_ipv4, netifd, monitor>>

Init ==
  /\ mode \in {"on", "off"} /\ lan \in Lans /\ apn = 0 /\ modem \in BOOLEAN
  /\ changes = 0
  /\ cm = "none" /\ dying = [s \in {"dial", "up"} |-> 0]
  /\ net = NoAddr /\ wwan = NoAddr /\ route = FALSE
  /\ bridge_ipv4 = NoAddr
  /\ available = TRUE /\ qpc = "begin" /\ qmi_script_log = FALSE
  /\ mpc = "start"
  /\ cur_lan_addr = lan /\ cur_addr = NoAddr /\ last_apn_config = 0 /\ WIP = NoAddr
  /\ mobile_ip = NoAddr /\ cur_lan_ip = lan /\ passthrough_is_switched = "0"
  /\ deaths = 0

Change == changes < MaxChanges /\ changes' = changes + 1

(* quectel-CM is told to end, if it runs. *)
Ending == /\ cm' = "none"
          /\ dying' = IF cm = "none" THEN dying ELSE [dying EXCEPT ![cm] = @ + 1]

-----------------------------------------------------------------------------
(* Users, the mobile network and the modem.                                 *)

UserChanges ==
  /\ Change
  /\ \/ lan' \in Lans \ {lan} /\ UNCHANGED apn
     \/ apn' = 1 - apn /\ UNCHANGED lan
  /\ UNCHANGED <<mode, modem, link, bridge_ipv4, netifd, monitor>>

(* The modem leaves the bus: its interface goes, hotplug (wwan.usbmisc)     *)
(* tells netifd, which stops the setup script; quectel-CM ends.             *)
ModemGoes ==
  /\ Change
  /\ modem /\ modem' = FALSE
  /\ Ending
  /\ wwan' = NoAddr /\ route' = FALSE /\ bridge_ipv4' = NoAddr
  /\ available' = FALSE /\ qpc' = "idle"
  /\ UNCHANGED <<mode, lan, apn, net, qmi_script_log, monitor>>

(* It comes back, with a new interface; netifd sets it up unless a setup    *)
(* script is still running.                                                 *)
ModemComes ==
  /\ ~modem /\ modem' = TRUE
  /\ available' = TRUE
  /\ qpc' = IF qpc = "idle" THEN "begin" ELSE qpc
  /\ UNCHANGED <<mode, lan, apn, changes, link, bridge_ipv4, qmi_script_log, monitor>>

-----------------------------------------------------------------------------
(* quectel-CM, as the scripts see it.                                       *)

(* The call is up and udhcpc has set the interface up. *)
CmConnects(a) ==
  /\ cm = "dial" /\ modem
  /\ IF net \in {a, NoAddr} THEN UNCHANGED changes ELSE Change
  /\ cm' = "up" /\ net' = a /\ wwan' = a /\ route' = TRUE
  /\ UNCHANGED <<mode, lan, apn, modem, dying, bridge_ipv4, netifd, monitor>>

(* The call is dropped: udhcpc_stop takes the address away. *)
CmDropped ==
  /\ Change
  /\ cm = "up" /\ cm' = "dial"
  /\ wwan' = NoAddr /\ route' = FALSE
  /\ UNCHANGED <<mode, lan, apn, modem, dying, net, bridge_ipv4, netifd, monitor>>

(* It crashes and leaves the interface as it is. *)
CmCrashes ==
  /\ Change
  /\ cm # "none" /\ cm' = "none"
  /\ UNCHANGED <<mode, lan, apn, modem, dying, net, wwan, route, bridge_ipv4,
                 netifd, monitor>>

(* A process that has been told to end is gone; usbnet_link_change takes the *)
(* address away if it had a call.                                           *)
CmExits(s) ==
  /\ dying[s] > 0 /\ dying' = [dying EXCEPT ![s] = @ - 1]
  /\ IF s = "up" THEN wwan' = NoAddr /\ route' = FALSE ELSE UNCHANGED <<wwan, route>>
  /\ UNCHANGED <<world, cm, net, bridge_ipv4, netifd, monitor>>

pidof == cm # "none" \/ dying["dial"] + dying["up"] > 0

(* killall quectel-CM.  A process that is restarting its main loop loses    *)
(* the signal (see QmiThread), which counts as a change.                    *)
killall ==
  \/ Ending /\ UNCHANGED changes
  \/ cm # "none" /\ Change /\ UNCHANGED <<cm, dying>>

-----------------------------------------------------------------------------
(* proto_qmi_setup.                                                         *)

QmiUnchanged == UNCHANGED <<mode, lan, apn, modem, net, route, bridge_ipv4, monitor>>

(* Leave the note that the script runs, and look for the modem. *)
QmiBegin ==
  /\ qpc = "begin"
  /\ qmi_script_log' = TRUE
  /\ qpc' = IF modem THEN "kill" ELSE "nodevice"
  /\ UNCHANGED <<changes, cm, dying, wwan, available>> /\ QmiUnchanged

(* NO_DEVICE, NO_IFACE: the note stays. *)
QmiNoDevice ==
  /\ qpc = "nodevice"
  /\ available' = FALSE
  /\ qpc' = "idle"
  /\ UNCHANGED <<changes, cm, dying, wwan, qmi_script_log>> /\ QmiUnchanged

QmiKill ==
  /\ qpc = "kill"
  /\ killall
  /\ qpc' = "start"
  /\ UNCHANGED <<wwan, available, qmi_script_log>> /\ QmiUnchanged

(* Mutant: quectel-CM is started whether it runs or not. *)
quectel_cm_startAlways ==
  /\ qpc = "start"
  /\ qpc' = "launch"
  /\ UNCHANGED <<changes, cm, dying, wwan, available, qmi_script_log>> /\ QmiUnchanged

(* quectel_cm_start does nothing while pidof finds a process, one that is   *)
(* ending included.                                                         *)
quectel_cm_start ==
  /\ qpc = "start"
  /\ qpc' = IF pidof THEN "end" ELSE "launch"
  /\ UNCHANGED <<changes, cm, dying, wwan, available, qmi_script_log>> /\ QmiUnchanged

(* It goes on: it reads PIN and APN and starts quectel-CM with them. *)
CmLaunched ==
  /\ qpc = "launch"
  /\ qpc' = "wait"
  /\ cm' = "dial"
  /\ UNCHANGED <<changes, dying, wwan, available, qmi_script_log>> /\ QmiUnchanged

(* wwan0 has an address, or the SIM is missing and nobody waits for one. *)
QmiGotAddress(simMissing) ==
  /\ qpc = "wait"
  /\ simMissing \/ wwan # NoAddr
  /\ qpc' = "end"
  /\ UNCHANGED <<changes, cm, dying, wwan, available, qmi_script_log>> /\ QmiUnchanged

(* 20 s without an address: end quectel-CM again. *)
QmiNoAddress ==
  /\ qpc = "wait"
  /\ wwan = NoAddr
  /\ killall
  /\ qpc' = "end"
  /\ UNCHANGED <<wwan, available, qmi_script_log>> /\ QmiUnchanged

(* Mutant: the note is not removed. *)
QmiEndKeepsLog ==
  /\ qpc = "end"
  /\ qpc' = "idle"
  /\ UNCHANGED <<changes, cm, dying, wwan, available, qmi_script_log>> /\ QmiUnchanged

(* Tell netifd the address, and remove the note. *)
QmiEnd ==
  /\ qpc = "end"
  /\ qmi_script_log' = FALSE
  /\ qpc' = "idle"
  /\ UNCHANGED <<changes, cm, dying, wwan, available>> /\ QmiUnchanged

-----------------------------------------------------------------------------
(* awc-mode-monitor.sh.                                                     *)

(* ifdown wwan && ifup wwan: netifd stops a setup script that runs, takes   *)
(* the interface down, with its routes and perhaps its address, and starts  *)
(* the script again if there is a modem.                                    *)
Restart ==
  /\ qpc' = IF available THEN "begin" ELSE "idle"
  /\ wwan' \in {wwan, NoAddr}
  /\ route' = FALSE
  /\ UNCHANGED <<available, qmi_script_log>>

(* Mutant: the file of the LAN address is made, and left empty. *)
MonitorStartTouches ==
  /\ mpc = "start"
  /\ ~qmi_script_log
  /\ last_apn_config' = apn
  /\ passthrough_is_switched' = "0"
  /\ cur_lan_ip' = NoAddr
  /\ mpc' = "mode"
  /\ UNCHANGED <<world, link, bridge_ipv4, netifd, cur_lan_addr, cur_addr, WIP,
                 mobile_ip, deaths>>

(* Wait while qmi.sh is running, and reset the files. *)
MonitorStart ==
  /\ mpc = "start"
  /\ ~qmi_script_log
  /\ last_apn_config' = apn
  /\ passthrough_is_switched' = "0"
  /\ cur_lan_ip' = lan
  /\ mpc' = "mode"
  /\ UNCHANGED <<world, link, bridge_ipv4, netifd, cur_lan_addr, cur_addr, WIP,
                 mobile_ip, deaths>>

(* Passthrough mode, wwan0 has an address and qmi.sh is not running: sleep  *)
(* 3 s.                                                                     *)
MonitorMode ==
  /\ mpc = "mode"
  /\ mpc' = IF mode = "on" /\ wwan # NoAddr /\ ~qmi_script_log
            THEN "slept" ELSE "status"
  /\ UNCHANGED <<world, link, bridge_ipv4, netifd, local, files, deaths>>

(* After the sleep: for the first time, note the address and switch on. *)
MonitorSlept ==
  /\ mpc = "slept"
  /\ cur_lan_addr' = lan
  /\ IF bridge_ipv4 = NoAddr
     THEN cur_addr' = wwan /\ mobile_ip' = wwan /\ mpc' = "first"
     ELSE cur_addr' = bridge_ipv4 /\ mpc' = "compare" /\ UNCHANGED mobile_ip
  /\ UNCHANGED <<world, link, bridge_ipv4, netifd, last_apn_config, WIP, cur_lan_ip,
                 passthrough_is_switched, deaths>>

(* Nothing to reload. *)
MonitorKeeps ==
  /\ mpc = "compare"
  /\ cur_lan_addr = cur_lan_ip /\ cur_addr = mobile_ip
  /\ mpc' = "status"
  /\ UNCHANGED <<world, link, bridge_ipv4, netifd, local, files, deaths>>

Reload == mpc = "compare" /\ (cur_lan_addr # cur_lan_ip \/ cur_addr # mobile_ip)

(* Switch passthrough off: end quectel-CM ... *)
MonitorSwitchesOff ==
  /\ Reload
  /\ passthrough_is_switched = "1"
  /\ killall
  /\ mpc' = "off"
  /\ UNCHANGED <<mode, lan, apn, modem, net, wwan, route, bridge_ipv4, netifd, local,
                 files, deaths>>

(* ... and set the interface up again. *)
MonitorOff ==
  /\ mpc = "off"
  /\ Restart
  /\ passthrough_is_switched' = "0"
  /\ mpc' = "status"
  /\ UNCHANGED <<world, cm, dying, net, bridge_ipv4, local, mobile_ip, cur_lan_ip,
                 deaths>>

(* Switch it on again. *)
MonitorSwitchesOn ==
  /\ Reload
  /\ passthrough_is_switched = "0"
  /\ cur_lan_ip' = cur_lan_addr
  /\ mpc' = "again"
  /\ UNCHANGED <<world, link, bridge_ipv4, netifd, local, mobile_ip,
                 passthrough_is_switched, deaths>>

(* passthrough.sh reads address, gateway and subnet.  Without them it       *)
(* returns 1, which ends the monitor (sh -e).                               *)
PassthroughBegin ==
  /\ mpc \in {"first", "again"}
  /\ IF wwan # NoAddr /\ route
     THEN /\ WIP' = wwan /\ UNCHANGED deaths
          /\ mpc' = IF mpc = "first" THEN "firstEnd" ELSE "againEnd"
     ELSE mpc' = "dead" /\ deaths' = deaths + 1 /\ UNCHANGED WIP
  /\ UNCHANGED <<world, link, bridge_ipv4, netifd, cur_lan_addr, cur_addr,
                 last_apn_config, files>>

(* passthrough.sh goes on: wwan0 gets a LAN address, the driver the mobile  *)
(* one.  Without a modem neither has an effect.                             *)
PassthroughEnd ==
  /\ mpc \in {"firstEnd", "againEnd"}
  /\ IF modem THEN wwan' = Spare /\ route' = TRUE /\ bridge_ipv4' = WIP
              ELSE UNCHANGED <<wwan, route, bridge_ipv4>>
  /\ passthrough_is_switched' = "1"
  /\ mpc' = IF mpc = "firstEnd" THEN "compare" ELSE "status"
  /\ UNCHANGED <<world, cm, dying, net, netifd, local, mobile_ip, cur_lan_ip,
                 deaths>>

(* Mutant: the monitor does not look for quectel-CM. *)
MonitorStatusNever(due) ==
  /\ mpc = "status"
  /\ mpc' = "apn"
  /\ UNCHANGED <<world, link, bridge_ipv4, netifd, local, files, deaths>>

(* Every 15 s: is the modem there, qmi.sh not running and quectel-CM gone? *)
MonitorStatus(due) ==
  /\ mpc = "status"
  /\ mpc' = IF due /\ modem /\ ~qmi_script_log /\ ~pidof THEN "restart" ELSE "apn"
  /\ UNCHANGED <<world, link, bridge_ipv4, netifd, local, files, deaths>>

MonitorRestarts ==
  /\ mpc = "restart"
  /\ Restart
  /\ mpc' = "apn"
  /\ UNCHANGED <<world, cm, dying, net, bridge_ipv4, local, files, deaths>>

(* Every 5 s: has the APN been changed?  Then restart the interface. *)
MonitorApn(due) ==
  /\ mpc = "apn"
  /\ mpc' = "mode"
  /\ IF due /\ apn # last_apn_config
     THEN Restart /\ last_apn_config' = apn
     ELSE UNCHANGED <<wwan, route, netifd, last_apn_config>>
  /\ UNCHANGED <<world, cm, dying, net, bridge_ipv4, cur_lan_addr, cur_addr, WIP,
                 files, deaths>>

(* procd starts the monitor again, Retry times. *)
MonitorRespawn ==
  /\ mpc = "dead" /\ deaths <= Retry
  /\ mpc' = "start"
  /\ UNCHANGED <<world, link, bridge_ipv4, netifd, local, files, deaths>>

-----------------------------------------------------------------------------
Outside ==
  \/ UserChanges \/ ModemGoes \/ ModemComes \/ CmDropped \/ CmCrashes
  \/ \E a \in Addrs : CmConnects(a)
  \/ \E s \in {"dial", "up"} : CmExits(s)

Setup ==
  \/ QmiBegin \/ QmiNoDevice \/ QmiKill \/ quectel_cm_start \/ CmLaunched
  \/ (\E b \in BOOLEAN : QmiGotAddress(b)) \/ QmiNoAddress \/ QmiEnd

Monitor ==
  \/ MonitorStart \/ MonitorMode \/ MonitorSlept \/ MonitorKeeps
  \/ MonitorSwitchesOff \/ MonitorOff \/ MonitorSwitchesOn
  \/ PassthroughBegin \/ PassthroughEnd
  \/ (\E b \in BOOLEAN : MonitorStatus(b)) \/ MonitorRestarts
  \/ (\E b \in BOOLEAN : MonitorApn(b)) \/ MonitorRespawn

Next == Outside \/ Setup \/ Monitor

(* The scripts run; the checks that are due every 15 s and 5 s are made     *)
(* again and again; processes told to end do end; a modem that is off comes *)
(* back; and a quectel-CM that is left alone connects at last.              *)
Fairness ==
  /\ WF_vars(Setup) /\ WF_vars(Monitor)
  /\ SF_vars(MonitorStatus(TRUE)) /\ SF_vars(MonitorApn(TRUE))
  /\ WF_vars(\E s \in {"dial", "up"} : CmExits(s))
  /\ WF_vars(ModemComes)
  /\ SF_vars(\E a \in Addrs : CmConnects(a))

Spec == Init /\ [][Next]_vars
FairSpec == Spec /\ Fairness

-----------------------------------------------------------------------------
TypeOK ==
  /\ mode \in {"on", "off"} /\ lan \in Lans /\ apn \in {0, 1} /\ modem \in BOOLEAN
  /\ changes \in Nat
  /\ cm \in {"none", "dial", "up"}
  /\ dying \in [{"dial", "up"} -> Nat]
  /\ net \in Addrs \cup {NoAddr}
  /\ wwan \in Addrs \cup {Spare, NoAddr} /\ route \in BOOLEAN
  /\ bridge_ipv4 \in Addrs \cup {Spare, NoAddr}
  /\ available \in BOOLEAN
  /\ qpc \in {"idle", "begin", "nodevice", "kill", "start", "launch", "wait", "end"}
  /\ qmi_script_log \in BOOLEAN
  /\ mpc \in {"start", "mode", "slept", "first", "firstEnd", "again", "againEnd",
             "compare", "off", "status", "restart", "apn", "dead"}
  /\ cur_lan_addr \in Lans /\ cur_addr \in Addrs \cup {Spare, NoAddr}
  /\ last_apn_config \in {0, 1}
  /\ WIP \in Addrs \cup {Spare, NoAddr}
  /\ mobile_ip \in Addrs \cup {Spare, NoAddr}
  /\ cur_lan_ip \in Lans /\ passthrough_is_switched \in {"0", "1"}
  /\ deaths \in Nat

(* There is never a second quectel-CM beside one that still runs or is on   *)
(* its way out, although the processes killall has ended take their time,   *)
(* a signal may be lost, and the monitor kills quectel-CM and restarts the  *)
(* interface while the setup script is between its killall, its pidof and   *)
(* its start.                                                               *)
OneManager == (IF cm = "none" THEN 0 ELSE 1) + dying["dial"] + dying["up"] <= 1

(* A setup script that has been stopped halfway or found no modem leaves    *)
(* its note behind; it is removed in the end when the modem is there and    *)
(* netifd may use it.                                                       *)
NoteRemoved == <>[](modem /\ available) => []<>(~qmi_script_log)

(* procd has started the monitor for the last time, and it has ended. *)
GivenUp == mpc = "dead" /\ deaths > Retry

(* The connection comes back whatever was lost, crashed, restarted or       *)
(* changed, as long as procd has not given up the monitor and netifd may    *)
(* use the modem.                                                           *)
ConnectionComesBack ==
  <>[](modem /\ available) => []<>(cm = "up") \/ <>GivenUp
=============================================================================
