------------------------- MODULE ModeMonitorProofs -------------------------
(* Proofs about ModeMonitor, for all sets of addresses and any number of    *)
(* changes and restarts.                                                    *)
EXTENDS ModeMonitor, TLAPS

Places == {"dial", "up"}

(* Between pidof and the start nothing brings a process back: the ones that *)
(* were ending are gone, and only this script starts another. *)
NoneAtLaunch == qpc = "launch" => ~pidof

IndInv == TypeOK /\ OneManager /\ NoneAtLaunch

(* Telling quectel-CM to end moves it from the running to the dying ones.   *)
LEMMA EndingKeepsCount ==
  ASSUME TypeOK, OneManager, Ending
  PROVE  /\ cm' \in {"none", "dial", "up"} /\ dying' \in [Places -> Nat]
         /\ OneManager' /\ (~pidof => ~pidof')
<1> USE DEF TypeOK, OneManager, Ending, Places, pidof
<1>1. CASE cm = "none"
  BY <1>1
<1>2. CASE cm = "dial"
  BY <1>2
<1>3. CASE cm = "up"
  BY <1>3
<1> QED
  BY <1>1, <1>2, <1>3

(* killall, whether its signal is lost or not, starts no process.           *)
LEMMA KillallKeepsCount ==
  ASSUME TypeOK, OneManager, killall
  PROVE  /\ changes' \in Nat
         /\ cm' \in {"none", "dial", "up"} /\ dying' \in [Places -> Nat]
         /\ OneManager' /\ (~pidof => ~pidof')
<1>1. CASE Ending /\ UNCHANGED changes
  BY <1>1, EndingKeepsCount DEF TypeOK
<1>2. CASE cm # "none" /\ Change /\ UNCHANGED <<cm, dying>>
  BY <1>2 DEF TypeOK, OneManager, Change, Places, pidof
<1> QED
  BY <1>1, <1>2 DEF killall

(* ifdown and ifup leave every variable in its type.                        *)
LEMMA RestartTypes ==
  ASSUME TypeOK, Restart
  PROVE  /\ qpc' \in {"idle", "begin"} /\ wwan' \in {wwan, NoAddr} /\ route' \in BOOLEAN
         /\ available' \in BOOLEAN /\ qmi_script_log' \in BOOLEAN
  BY DEF TypeOK, Restart

(* The inductive invariant holds at the start.                              *)
THEOREM InitIndInv == Init => IndInv
<1> SUFFICES ASSUME Init
             PROVE  IndInv
  OBVIOUS
<1>1. /\ modem \in BOOLEAN /\ route \in BOOLEAN /\ available \in BOOLEAN
      /\ qmi_script_log \in BOOLEAN
  BY Zenon DEF Init
<1>2. dying \in [Places -> Nat] /\ OneManager /\ NoneAtLaunch
  BY DEF Init, OneManager, NoneAtLaunch, Places
<1> QED
  BY <1>1, <1>2 DEF Init, IndInv, TypeOK, Places

(* Every step of users, network, modem and quectel-CM keeps it.             *)
LEMMA OutsideIndInv ==
  ASSUME IndInv, Outside
  PROVE  IndInv'
<1> USE DEF IndInv
<1> USE DEF netifd, monitor, local, files, link, world
<1>1. CASE UserChanges
  BY <1>1 DEF UserChanges, Change, TypeOK, OneManager, NoneAtLaunch, pidof
<1>2. CASE ModemGoes
  <2>1. /\ cm' \in {"none", "dial", "up"} /\ dying' \in [Places -> Nat]
        /\ OneManager' /\ NoneAtLaunch'
    BY <1>2, EndingKeepsCount DEF ModemGoes, NoneAtLaunch
  <2>2. modem' \in BOOLEAN /\ route' \in BOOLEAN /\ available' \in BOOLEAN
    BY <1>2, Zenon DEF ModemGoes
  <2> QED
    BY <1>2, <2>1, <2>2 DEF ModemGoes, Change, TypeOK, Places
<1>3. CASE ModemComes
  <2>1. modem' \in BOOLEAN /\ available' \in BOOLEAN
    BY <1>3, Zenon DEF ModemComes
  <2> QED
    BY <1>3, <2>1 DEF ModemComes, TypeOK, OneManager, NoneAtLaunch, pidof
<1>4. CASE CmDropped
  <2>1. route' \in BOOLEAN
    BY <1>4, Zenon DEF CmDropped
  <2> QED
    BY <1>4, <2>1 DEF CmDropped, Change, TypeOK, OneManager, NoneAtLaunch, pidof
<1>5. CASE CmCrashes
  BY <1>5 DEF CmCrashes, Change, TypeOK, OneManager, NoneAtLaunch, pidof
<1>6. ASSUME NEW a \in Addrs, CmConnects(a)
      PROVE  IndInv'
  BY <1>6 DEF CmConnects, Change, TypeOK, OneManager, NoneAtLaunch, pidof
<1>7. ASSUME NEW s \in Places, CmExits(s)
      PROVE  IndInv'
  <2>1. dying' \in [Places -> Nat]
    BY <1>7 DEF CmExits, TypeOK, Places
  <2>2. OneManager' /\ NoneAtLaunch'
    BY <1>7 DEF CmExits, TypeOK, OneManager, NoneAtLaunch, pidof, Places
  <2>3. route' \in BOOLEAN
    BY <1>7, Zenon DEF CmExits, TypeOK
  <2> QED
    BY <1>7, <2>1, <2>2, <2>3 DEF CmExits, TypeOK, Places
<1> QED
  BY <1>1, <1>2, <1>3, <1>4, <1>5, <1>6, <1>7 DEF Outside, Places

(* Every step of proto_qmi_setup keeps it: quectel-CM is started only after *)
(* pidof has found none.                                                    *)
LEMMA SetupIndInv ==
  ASSUME IndInv, Setup
  PROVE  IndInv'
<1> USE DEF IndInv
<1> USE DEF QmiUnchanged, monitor, local, files
<1>1. CASE QmiBegin
  BY <1>1 DEF QmiBegin, TypeOK, OneManager, NoneAtLaunch, pidof
<1>2. CASE QmiNoDevice
  <2>1. available' \in BOOLEAN
    BY <1>2, Zenon DEF QmiNoDevice
  <2> QED
    BY <1>2, <2>1 DEF QmiNoDevice, TypeOK, OneManager, NoneAtLaunch, pidof
<1>3. CASE QmiKill \/ QmiNoAddress
  <2>1. /\ changes' \in Nat /\ cm' \in {"none", "dial", "up"}
        /\ dying' \in [Places -> Nat] /\ OneManager' /\ NoneAtLaunch'
    BY <1>3, KillallKeepsCount DEF QmiKill, QmiNoAddress, NoneAtLaunch
  <2> QED
    BY <1>3, <2>1 DEF QmiKill, QmiNoAddress, TypeOK, Places
<1>4. CASE quectel_cm_start
  BY <1>4 DEF quectel_cm_start, pidof, TypeOK, OneManager, NoneAtLaunch
<1>5. CASE CmLaunched
  BY <1>5 DEF CmLaunched, pidof, TypeOK, OneManager, NoneAtLaunch
<1>6. ASSUME NEW b \in BOOLEAN, QmiGotAddress(b)
      PROVE  IndInv'
  BY <1>6 DEF QmiGotAddress, TypeOK, OneManager, NoneAtLaunch, pidof
<1>7. CASE QmiEnd
  <2>1. qmi_script_log' \in BOOLEAN
    BY <1>7, Zenon DEF QmiEnd
  <2> QED
    BY <1>7, <2>1 DEF QmiEnd, TypeOK, OneManager, NoneAtLaunch, pidof
<1> QED
  BY <1>1, <1>2, <1>3, <1>4, <1>5, <1>6, <1>7 DEF Setup

(* Every step of the monitor and of passthrough.sh keeps it.                *)
LEMMA MonitorIndInv ==
  ASSUME IndInv, Monitor
  PROVE  IndInv'
<1> USE DEF IndInv
<1> USE DEF netifd, monitor, local, files, link, world
<1>1. CASE MonitorStart
  BY <1>1 DEF MonitorStart, TypeOK, OneManager, NoneAtLaunch, pidof
<1>2. CASE MonitorMode
  BY <1>2 DEF MonitorMode, TypeOK, OneManager, NoneAtLaunch, pidof
<1>3. CASE MonitorSlept
  BY <1>3 DEF MonitorSlept, TypeOK, OneManager, NoneAtLaunch, pidof
<1>4. CASE MonitorKeeps
  BY <1>4 DEF MonitorKeeps, TypeOK, OneManager, NoneAtLaunch, pidof
<1>5. CASE MonitorSwitchesOff
  <2>1. /\ changes' \in Nat /\ cm' \in {"none", "dial", "up"}
        /\ dying' \in [Places -> Nat] /\ OneManager' /\ NoneAtLaunch'
    BY <1>5, KillallKeepsCount DEF MonitorSwitchesOff, NoneAtLaunch
  <2> QED
    BY <1>5, <2>1 DEF MonitorSwitchesOff, TypeOK, Places
<1>13. CASE MonitorOff
  <2>1. Restart
    BY <1>13 DEF MonitorOff
  <2> QED
    BY <1>13, <2>1, RestartTypes DEF MonitorOff, TypeOK, OneManager, NoneAtLaunch
<1>6. CASE MonitorSwitchesOn
  BY <1>6 DEF MonitorSwitchesOn, TypeOK, OneManager, NoneAtLaunch, pidof
<1>7. CASE PassthroughBegin
  BY <1>7 DEF PassthroughBegin, TypeOK, OneManager, NoneAtLaunch, pidof
<1>8. CASE PassthroughEnd
  <2>1. route' \in BOOLEAN
    BY <1>8, Zenon DEF PassthroughEnd, TypeOK
  <2> QED
    BY <1>8, <2>1 DEF PassthroughEnd, TypeOK, OneManager, NoneAtLaunch, pidof
<1>9. ASSUME NEW b \in BOOLEAN, MonitorStatus(b)
      PROVE  IndInv'
  BY <1>9 DEF MonitorStatus, TypeOK, OneManager, NoneAtLaunch, pidof
<1>10. CASE MonitorRestarts
  <2>1. Restart
    BY <1>10 DEF MonitorRestarts
  <2> QED
    BY <1>10, <2>1, RestartTypes DEF MonitorRestarts, TypeOK, OneManager, NoneAtLaunch, pidof
<1>11. ASSUME NEW b \in BOOLEAN, MonitorApn(b)
       PROVE  IndInv'
  <2>1. CASE Restart /\ last_apn_config' = apn
    BY <1>11, <2>1, RestartTypes DEF MonitorApn, TypeOK, OneManager, NoneAtLaunch, pidof
  <2>2. CASE UNCHANGED <<wwan, route, netifd, last_apn_config>>
    BY <1>11, <2>2 DEF MonitorApn, TypeOK, OneManager, NoneAtLaunch, pidof
  <2> QED
    BY <1>11, <2>1, <2>2 DEF MonitorApn
<1>12. CASE MonitorRespawn
  BY <1>12 DEF MonitorRespawn, TypeOK, OneManager, NoneAtLaunch, pidof
<1> QED
  BY <1>1, <1>2, <1>3, <1>4, <1>5, <1>6, <1>7, <1>8, <1>9, <1>10, <1>11, <1>12, <1>13
  DEF Monitor

(* The inductive invariant holds in every reachable state.                  *)
THEOREM IndInvCorrect == Spec => []IndInv
<1>1. IndInv /\ [Next]_vars => IndInv'
  <2>1. ASSUME IndInv, UNCHANGED vars
        PROVE  IndInv'
    BY <2>1 DEF vars, world, link, netifd, monitor, local, files, IndInv, TypeOK, OneManager, NoneAtLaunch, pidof
  <2> QED
    BY <2>1, OutsideIndInv, SetupIndInv, MonitorIndInv DEF Next
<1> QED
  BY InitIndInv, <1>1, PTL DEF Spec

(* The files, the addresses and the places of the three scripts keep their  *)
(* types; in particular the monitor never reads an empty cur_lan_ip.        *)
THEOREM TypeCorrect == Spec => []TypeOK
<1>1. IndInv => TypeOK
  BY DEF IndInv
<1> QED
  BY <1>1, IndInvCorrect, PTL

(* quectel_cm_start of qmi.sh never starts a second quectel-CM, although it *)
(* starts one some steps after pidof and the monitor may kill processes and *)
(* restart the interface before, between and after the two.                 *)
THEOREM OneManagerCorrect == Spec => []OneManager
<1>1. IndInv => OneManager
  BY DEF IndInv
<1> QED
  BY <1>1, IndInvCorrect, PTL
=============================================================================
