----------------------------- MODULE CloudCheck -----------------------------
(***************************************************************************)
(* The poll loop of cloud-check.sh with wakeup-cloud.sh and the service    *)
(* that restarts it.  The device reports the number of actions it has      *)
(* carried out; the cloud answers with the next one.  The process may be   *)
(* restarted, and the device rebooted, between any two steps.              *)
(*                                                                         *)
(* uci keeps two layers: what uci set and uci delete stage in /tmp, which  *)
(* uci get sees and a restart of the script keeps, and what uci commit     *)
(* writes to flash, which alone survives a reboot.  The cloud, the upgrade *)
(* script update-check.sh and jsontouci.sh are not part of the repository; *)
(* they are modelled by what the script expects of them.                   *)
(***************************************************************************)
EXTENDS Integers, Sequences

CONSTANTS
  Kinds,        \* kinds of actions the cloud sends
  NActions,     \* how many
  MaxRestarts,  \* bound on restarts of the script and reboots
  MaxWakes,     \* bound on calls of wakeup-cloud.sh
  MaxSeq,       \* bound on the numbers reported, above the number of actions
  NONE          \* an unset variable or option

AllKinds == {"simple", "reboot", "factory", "config", "software"}

ASSUME CloudAssumption ==
  /\ Kinds \in SUBSET AllKinds
  /\ NActions \in Nat /\ MaxRestarts \in Nat /\ MaxWakes \in Nat
  /\ MaxSeq \in Nat /\ MaxSeq > NActions
  /\ NONE \notin Nat

VARIABLES
  pc,
  staged,    \* the options as uci get sees them
  flash,     \* the options as committed
  swfile,    \* $software_updates: the action it came with, or NONE
  cfgfile,   \* $config_updates: the action it came with, or NONE
  version,   \* the running firmware: the upgrade action that installed it, or 0
  auto,      \* [firmware |-> auto_firmware = on, config |-> auto_config = on]
  action_sequence, action_sequence_pending, wakeup_reason, do_factory_reset,
             \* variables of the script that outlive a round, or part of one
  commit,
  resp,      \* $fetch_output: the action in the answer, or NONE
  updating,  \* the upgrade action update-check.sh is working on, or NONE
  ret,       \* where perform_software_update returns to
  wake,      \* wakeup-cloud.sh: the reason it was called with while it runs
  reasonFile,\* $wakeup_reason_file
  rebooting, \* reboot was called
  restarts, wakes,
  actions,   \* cloud: the kinds of its actions, in order
  assigned,  \* cloud: a UUID is assigned to this device
  seen,      \* cloud: the highest number reported to it
  misled,    \* history: an upgrade was confirmed without its version running
  done       \* actions carried out on the device

script == <<action_sequence, action_sequence_pending, wakeup_reason, do_factory_reset,
            commit, resp, ret>>
files == <<swfile, cfgfile>>
uci == <<staged, flash>>
wakeVars == <<wake, reasonFile, wakes>>
system == <<version, updating, rebooting, restarts>>
cloud == <<actions, assigned, seen, misled>>
vars == <<pc, script, files, uci, wakeVars, system, auto, cloud, done>>

(* The states of the loop; in the first two sleep_wait can be woken up. *)
Sleeping == {"sleep", "waitjson"}
States == Sleeping \cup {"ready", "identify", "upgrade", "config", "configured", "counted",
                         "report", "poll", "answer", "save", "after", "late", "lateconfig",
                         "lateconfigured", "latecounted"}
Reasons == {"upgrade", "config", "poll"}

Indices == 1 .. NActions

(* Options of awc_cloud and awc_uuid. *)
NoOptions == [seq |-> NONE, pending |-> NONE, expected |-> NONE, uuid |-> FALSE]

Init ==
  /\ pc = "sleep"
  /\ \E u \in BOOLEAN : flash = [NoOptions EXCEPT !.uuid = u] /\ assigned = u
  /\ staged = flash
  /\ swfile = NONE /\ cfgfile = NONE
  /\ version = 0
  /\ auto \in [firmware : BOOLEAN, config : BOOLEAN]
  /\ action_sequence = NONE /\ action_sequence_pending = NONE
  /\ wakeup_reason = NONE /\ do_factory_reset = FALSE
  /\ commit = FALSE /\ resp = NONE /\ ret = "sleep"
  /\ updating = NONE /\ rebooting = FALSE
  /\ wake = NONE /\ reasonFile = NONE
  /\ restarts = 0 /\ wakes = 0
  /\ actions \in [Indices -> Kinds]
  /\ seen = 0 /\ misled = FALSE
  /\ done = {}

(* uci set or delete without, and with, uci commit. *)
Stage(options) == staged' = options /\ UNCHANGED flash
Commit(options) == staged' = options /\ flash' = options

ValueOf(option, default) == IF option = NONE THEN default ELSE option

(* The next number; it stops at MaxSeq. *)
Increased(n) == IF n < MaxSeq THEN n + 1 ELSE n

-----------------------------------------------------------------------------
(* The head of the loop.                                                    *)

(* sleep_wait clears wakeup_reason before it sleeps; this is its end when   *)
(* nobody kills the sleep.                                                  *)
SleepEnds ==
  /\ pc \in Sleeping
  /\ pc' = "ready"
  /\ wakeup_reason' = NONE
  /\ UNCHANGED <<action_sequence, action_sequence_pending, do_factory_reset, commit,
                 resp, ret, files, uci, wakeVars, system, auto, cloud, done>>

(* The status file is there, or the loop sleeps 10 s for it. *)
Ready ==
  /\ pc = "ready"
  /\ \/ pc' = "identify" /\ UNCHANGED wakeup_reason
     \/ pc' = "waitjson" /\ wakeup_reason' = NONE
  /\ UNCHANGED <<action_sequence, action_sequence_pending, do_factory_reset, commit,
                 resp, ret, files, uci, wakeVars, system, auto, cloud, done>>

(* IMEI, ICCID, MAC or host are not known yet. *)
NotIdentified ==
  /\ pc = "identify"
  /\ pc' = "sleep"
  /\ UNCHANGED <<script, files, uci, wakeVars, system, auto, cloud, done>>

(* The left-overs of an upgrade, judged before this round's decision.       *)
Reconciled ==
  IF staged.pending # NONE
  THEN IF staged.expected # version THEN [staged EXCEPT !.pending = NONE, !.expected = NONE]
       ELSE staged
  ELSE [staged EXCEPT !.expected = NONE]

(* perform_software_update up to update-check.sh. *)
perform_software_update(options, back) ==
  /\ swfile # NONE
  /\ Commit([options EXCEPT !.pending =
               Increased(ValueOf(action_sequence, ValueOf(options.seq, 0)))])
  /\ updating' = swfile
  /\ ret' = back
  /\ pc' = "upgrade"

(* Confirm an upgrade, whether or not the version it promised is running;   *)
(* start or await a waiting one; apply or await a waiting configuration; or *)
(* just poll.                                                               *)
Dispatch ==
  /\ pc = "identify"
  /\ action_sequence_pending' = staged.pending
  /\ misled' = (misled \/ (staged.pending # NONE /\ staged.expected # version))
  /\ IF staged.pending = NONE /\ swfile # NONE
     THEN IF ~auto.firmware /\ wakeup_reason # "upgrade"
          THEN /\ pc' = "sleep"
               /\ (IF Reconciled # staged THEN Commit(Reconciled) ELSE UNCHANGED uci)
               /\ UNCHANGED <<updating, ret>>
          ELSE perform_software_update(Reconciled, "sleep")
     ELSE /\ pc' = IF cfgfile = NONE THEN "report"
                   ELSE IF ~auto.config /\ wakeup_reason # "config" THEN "sleep" ELSE "config"
          /\ IF Reconciled # staged THEN Commit(Reconciled) ELSE UNCHANGED uci
          /\ UNCHANGED <<updating, ret>>
  /\ UNCHANGED <<action_sequence, wakeup_reason, do_factory_reset, commit, resp, files, wake,
                 reasonFile, wakes, version, rebooting, restarts, auto, actions, assigned, seen,
                 done>>

-----------------------------------------------------------------------------
(* Upgrades.                                                                *)

(* update-check.sh fails.  Its caller, if it still waits, takes the pending *)
(* number back; what the script left in expected_version stays.             *)
UpgradeFails ==
  /\ updating # NONE
  /\ updating' = NONE
  /\ \E e \in {staged.expected, updating} :
       LET left == [staged EXCEPT !.expected = e]
       IN  IF pc = "upgrade" THEN Commit([left EXCEPT !.pending = NONE]) /\ pc' = ret
           ELSE Commit(left) /\ UNCHANGED pc
  /\ UNCHANGED <<script, files, wakeVars, version, rebooting, restarts, auto, cloud, done>>

(* The script's variables when it starts. *)
FreshScript ==
  /\ action_sequence' = NONE /\ action_sequence_pending' = NONE
  /\ wakeup_reason' = NONE /\ do_factory_reset' = FALSE
  /\ commit' = FALSE /\ resp' = NONE /\ ret' = "sleep"

(* After a reboot /tmp is empty: staged options, the wake-up reason and the *)
(* mark that lets the script poll at once are gone.                         *)
Booted(options) ==
  /\ FreshScript
  /\ staged' = options /\ flash' = options
  /\ pc' = "sleep"
  /\ updating' = NONE /\ rebooting' = FALSE
  /\ wake' = NONE /\ reasonFile' = NONE

(* update-check.sh succeeds: it notes the version to expect, flashes it and *)
(* reboots, into that version or, if the new one does not start, the old.   *)
UpgradeReboots ==
  /\ updating # NONE
  /\ version' \in {updating, version}
  /\ done' = IF version' = updating THEN done \cup {updating} ELSE done
  /\ Booted([staged EXCEPT !.expected = updating])
  /\ UNCHANGED <<files, wakes, restarts, auto, cloud>>

-----------------------------------------------------------------------------
(* Configuration updates.                                                   *)

(* jsontouci.sh applies the waiting configuration, or fails. *)
ApplyConfig ==
  /\ pc \in {"config", "lateconfig"}
  /\ \/ /\ pc' = IF pc = "config" THEN "configured" ELSE "lateconfigured"
        /\ done' = done \cup {cfgfile}
     \/ pc' = "sleep" /\ UNCHANGED done
  /\ UNCHANGED <<script, files, uci, wakeVars, system, auto, cloud>>

(* perform_config_update goes on: it counts the configuration, commits the  *)
(* number, ...                                                              *)
perform_config_update ==
  /\ pc \in {"configured", "lateconfigured"}
  /\ action_sequence' = Increased(ValueOf(action_sequence, 0))
  /\ Commit([staged EXCEPT !.seq = action_sequence'])
  /\ pc' = IF pc = "configured" THEN "counted" ELSE "latecounted"
  /\ UNCHANGED <<action_sequence_pending, wakeup_reason, do_factory_reset, commit, resp, ret,
                 files, wakeVars, system, auto, cloud, done>>

(* ... and removes the file.  Before the poll its caller goes on to report; *)
(* after it the next round confirms.                                        *)
RemoveConfig ==
  /\ pc \in {"counted", "latecounted"}
  /\ cfgfile' = NONE
  /\ pc' = IF pc = "counted" THEN "report" ELSE "sleep"
  /\ UNCHANGED <<script, swfile, uci, wakeVars, system, auto, cloud, done>>

-----------------------------------------------------------------------------
(* The poll.                                                                *)

(* Mutant: a missing option is not taken for 0. *)
ReportNoDefault ==
  /\ pc = "report"
  /\ action_sequence' = ValueOf(action_sequence_pending, staged.seq)
  /\ \/ staged.uuid /\ pc' = "poll" /\ commit' = FALSE /\ UNCHANGED assigned
     \/ ~staged.uuid /\ ~assigned /\ pc' = "poll" /\ commit' = TRUE /\ assigned' = TRUE
  /\ UNCHANGED <<action_sequence_pending, wakeup_reason, do_factory_reset, resp, ret, files, uci,
                 wakeVars, system, auto, actions, seen, misled, done>>

(* The number to report, and the first query when there is no UUID.  The    *)
(* cloud gives a device one UUID; later it answers 403.                     *)
Report ==
  /\ pc = "report"
  /\ action_sequence' = ValueOf(action_sequence_pending, ValueOf(staged.seq, 0))
  /\ \/ staged.uuid /\ pc' = "poll" /\ commit' = FALSE /\ UNCHANGED assigned
     \/ ~staged.uuid /\ ~assigned /\ pc' = "poll" /\ commit' = TRUE /\ assigned' = TRUE
     \/ ~staged.uuid /\ pc' = "sleep" /\ UNCHANGED commit /\ assigned' \in {assigned, TRUE}
  /\ UNCHANGED <<action_sequence_pending, wakeup_reason, do_factory_reset, resp, ret, files, uci,
                 wakeVars, system, auto, actions, seen, misled, done>>

(* The cloud takes note of the number. *)
Hear ==
  /\ seen' = IF action_sequence > seen THEN action_sequence ELSE seen
  /\ UNCHANGED <<actions, assigned, misled>>

(* The query fails, before or after the cloud got it. *)
PollFails ==
  /\ pc = "poll"
  /\ pc' = "sleep"
  /\ Hear \/ UNCHANGED cloud
  /\ UNCHANGED <<script, files, uci, wakeVars, system, auto, done>>

(* The query is answered with the next action, if there is one. *)
PollAnswered ==
  /\ pc = "poll"
  /\ Hear
  /\ resp' = IF action_sequence + 1 \in Indices THEN action_sequence + 1 ELSE NONE
  /\ pc' = "answer"
  /\ UNCHANGED <<action_sequence, action_sequence_pending, wakeup_reason, do_factory_reset,
                 commit, ret, files, uci, wakeVars, system, auto, done>>

(* An upgrade that was just reported is forgotten, but not yet committed;   *)
(* then handle_response.  A factory reset that is due is only announced.    *)
Forget ==
  IF action_sequence_pending # NONE
  THEN Stage([staged EXCEPT !.pending = NONE, !.expected = NONE])
  ELSE UNCHANGED uci

FileAfterForget == IF action_sequence_pending # NONE THEN NONE ELSE swfile

(* Mutant: a configuration counts when it is received. *)
handle_responseCountsConfig ==
  /\ pc = "answer"
  /\ Forget
  /\ LET kind == IF resp = NONE THEN "none" ELSE actions[resp]
     IN  /\ swfile' = IF kind = "software" THEN resp ELSE FileAfterForget
         /\ cfgfile' = IF kind = "config" THEN resp ELSE cfgfile
         /\ do_factory_reset' = (do_factory_reset \/ kind = "factory")
         /\ rebooting' = (rebooting \/ kind = "reboot")
         /\ done' = IF kind \in {"simple", "reboot"} THEN done \cup {resp} ELSE done
         /\ IF kind \in {"simple", "reboot", "factory", "config"}
            THEN action_sequence' = Increased(action_sequence) /\ commit' = TRUE
            ELSE UNCHANGED <<action_sequence, commit>>
  /\ pc' = "save"
  /\ UNCHANGED <<action_sequence_pending, wakeup_reason, resp, ret, wake, reasonFile, wakes,
                 version, updating, restarts, auto, cloud>>

(* handle_response leaves updates in their files, and counts and carries    *)
(* out all others.                                                          *)
handle_response ==
  /\ pc = "answer"
  /\ Forget
  /\ LET kind == IF resp = NONE THEN "none" ELSE actions[resp]
     IN  /\ swfile' = IF kind = "software" THEN resp ELSE FileAfterForget
         /\ cfgfile' = IF kind = "config" THEN resp ELSE cfgfile
         /\ do_factory_reset' = (do_factory_reset \/ kind = "factory")
         /\ rebooting' = (rebooting \/ kind = "reboot")
         /\ done' = IF kind \in {"simple", "reboot"} THEN done \cup {resp} ELSE done
         /\ IF kind \in {"simple", "reboot", "factory"}
            THEN action_sequence' = Increased(action_sequence) /\ commit' = TRUE
            ELSE /\ UNCHANGED action_sequence
                 /\ commit' = (commit \/ action_sequence_pending # NONE)
  /\ pc' = "save"
  /\ UNCHANGED <<action_sequence_pending, wakeup_reason, resp, ret, wake, reasonFile, wakes,
                 version, updating, restarts, auto, cloud>>

(* An answer that cannot be parsed or carried out ends the round. *)
ResponseError ==
  /\ pc = "answer" /\ resp # NONE
  /\ Forget
  /\ swfile' = FileAfterForget
  /\ pc' = "sleep"
  /\ UNCHANGED <<script, cfgfile, wake, reasonFile, wakes, system, auto, cloud, done>>

(* Mutant: only a new UUID is stored. *)
SaveUuidOnly ==
  /\ pc = "save"
  /\ IF commit THEN Commit([staged EXCEPT !.uuid = TRUE]) ELSE UNCHANGED uci
  /\ pc' = "after"
  /\ UNCHANGED <<script, files, wakeVars, system, auto, cloud, done>>

(* The number and the UUID are stored. *)
Save ==
  /\ pc = "save"
  /\ IF commit THEN Commit([staged EXCEPT !.seq = action_sequence, !.uuid = TRUE])
     ELSE UNCHANGED uci
  /\ pc' = "after"
  /\ UNCHANGED <<script, files, wakeVars, system, auto, cloud, done>>

(* Updates that came with this answer. *)
RunUpdates ==
  /\ pc = "after"
  /\ IF swfile # NONE THEN perform_software_update(staged, "late")
     ELSE /\ pc' = "late"
          /\ UNCHANGED <<uci, updating, ret>>
  /\ UNCHANGED <<action_sequence, action_sequence_pending, wakeup_reason, do_factory_reset,
                 commit, resp, files, wake, reasonFile, wakes, version, rebooting, restarts,
                 auto, cloud, done>>

RunConfig ==
  /\ pc = "late"
  /\ pc' = IF cfgfile # NONE /\ auto.config THEN "lateconfig" ELSE "sleep"
  /\ UNCHANGED <<script, files, uci, wakeVars, system, auto, cloud, done>>

-----------------------------------------------------------------------------
(* wakeup-cloud.sh, restarts and reboots.                                   *)

WakeUp(reason) ==
  /\ wake = NONE /\ wakes < MaxWakes
  /\ wake' = reason /\ reasonFile' = reason
  /\ wakes' = wakes + 1
  /\ UNCHANGED <<pc, script, files, uci, system, auto, cloud, done>>

(* It kills the sleep: sleep_wait reads the reason.  Woken while it waits   *)
(* for the status file, the loop starts a new round.                        *)
WakeKills ==
  /\ wake # NONE /\ pc \in Sleeping
  /\ wake' = NONE
  /\ wakeup_reason' = reasonFile
  /\ pc' = IF pc = "sleep" THEN "ready" ELSE "sleep"
  /\ UNCHANGED <<action_sequence, action_sequence_pending, do_factory_reset, commit, resp, ret,
                 files, uci, reasonFile, wakes, system, auto, cloud, done>>

(* procd starts the script again; it polls without the initial delay. *)
Restarted ==
  /\ FreshScript
  /\ pc' = "ready"

(* It finds no sleep three times: it removes the reason and restarts the    *)
(* script.                                                                  *)
WakeRestarts ==
  /\ wake # NONE /\ pc \notin Sleeping
  /\ wake' = NONE /\ reasonFile' = NONE
  /\ Restarted
  /\ UNCHANGED <<files, uci, wakes, system, auto, cloud, done>>

(* The script ends (an unknown serial number, by way of a misspelt          *)
(* function, does that) or is reloaded, and procd starts it again.          *)
Restart ==
  /\ restarts < MaxRestarts
  /\ restarts' = restarts + 1
  /\ Restarted
  /\ UNCHANGED <<files, uci, wakeVars, version, updating, rebooting, auto, cloud, done>>

(* Power is lost, or the reboot the cloud asked for happens. *)
PowerCycle ==
  /\ restarts < MaxRestarts
  /\ restarts' = restarts + 1
  /\ Booted(flash)
  /\ UNCHANGED <<files, version, wakes, auto, cloud, done>>

Reboot ==
  /\ rebooting
  /\ Booted(flash)
  /\ UNCHANGED <<files, version, restarts, wakes, auto, cloud, done>>

-----------------------------------------------------------------------------
Round ==
  \/ SleepEnds \/ Ready \/ NotIdentified \/ Dispatch \/ ApplyConfig \/ perform_config_update
  \/ RemoveConfig
  \/ Report \/ PollFails \/ PollAnswered \/ handle_response \/ ResponseError
  \/ Save \/ RunUpdates \/ RunConfig

Upgrade == UpgradeFails \/ UpgradeReboots

Wake == WakeKills \/ WakeRestarts

Next ==
  \/ Round \/ Upgrade \/ Reboot \/ Wake
  \/ \E reason \in Reasons : WakeUp(reason)
  \/ Restart \/ PowerCycle

Spec == Init /\ [][Next]_vars

(* The script and what it calls keep running.  Of the outside it is assumed *)
(* that the status file and the device's identity turn up, that polls are   *)
(* answered, that answers and configurations can be carried out, that       *)
(* upgrades succeed, and that a reboot the cloud asked for (reboot returns  *)
(* at once) comes after the commit, each not always but time and again for  *)
(* every action.                                                            *)
FairSpec ==
  /\ Spec
  /\ WF_vars(Round) /\ WF_vars(Upgrade) /\ WF_vars(Reboot) /\ WF_vars(Wake)
  /\ SF_vars(Ready /\ pc' = "identify") /\ SF_vars(Dispatch)
  /\ SF_vars(Report /\ pc' = "poll") /\ SF_vars(PollAnswered)
  /\ \A i \in Indices : SF_vars(handle_response /\ resp = i) /\ SF_vars(Save /\ resp = i)
  /\ SF_vars(ApplyConfig /\ pc' # "sleep") /\ SF_vars(UpgradeReboots)

TypeOK ==
  /\ pc \in States
  /\ staged \in [seq : (0 .. MaxSeq) \cup {NONE}, pending : (0 .. MaxSeq) \cup {NONE},
                 expected : Indices \cup {NONE}, uuid : BOOLEAN]
  /\ flash \in [seq : (0 .. MaxSeq) \cup {NONE}, pending : (0 .. MaxSeq) \cup {NONE},
                 expected : Indices \cup {NONE}, uuid : BOOLEAN]
  /\ swfile \in Indices \cup {NONE} /\ cfgfile \in Indices \cup {NONE}
  /\ version \in 0 .. NActions
  /\ auto \in [firmware : BOOLEAN, config : BOOLEAN]
  /\ action_sequence \in (0 .. MaxSeq) \cup {NONE}
  /\ action_sequence_pending \in (0 .. MaxSeq) \cup {NONE}
  /\ wakeup_reason \in Reasons \cup {NONE} /\ do_factory_reset \in BOOLEAN
  /\ commit \in BOOLEAN /\ resp \in Indices \cup {NONE} /\ ret \in {"sleep", "late"}
  /\ updating \in Indices \cup {NONE} /\ rebooting \in BOOLEAN
  /\ wake \in Reasons \cup {NONE} /\ reasonFile \in Reasons \cup {NONE}
  /\ restarts \in 0 .. MaxRestarts /\ wakes \in 0 .. MaxWakes
  /\ actions \in [Indices -> Kinds] /\ assigned \in BOOLEAN
  /\ seen \in 0 .. MaxSeq /\ misled \in BOOLEAN /\ done \in SUBSET Indices
  /\ pc \in {"poll", "answer", "save"} => action_sequence \in Nat

(* All actions up to the n-th are done, but for factory resets, which are   *)
(* reported before they are due.                                            *)
DoneUpTo(n) == \A i \in Indices : i <= n /\ actions[i] # "factory" => i \in done

(* Whatever the cloud has been told is done was carried out on the device:  *)
(* a report never runs ahead of the work, whatever is restarted or lost in  *)
(* between, also in the middle of an upgrade or of a configuration.  One    *)
(* step breaks this for good: the round that confirms a pending upgrade     *)
(* although the version it promised is not running ("Mismatch on upgrade",  *)
(* "Fall through to confirm action").                                       *)
ReportedWasDone == ~misled => DoneUpTo(seen)

(* An upgrade moves the number by one: a report is never more than one      *)
(* action ahead of the reports before it.                                   *)
NoActionSkipped == [][seen' <= seen + 1]_vars

(* When updates are automatic and the device has its UUID, the cloud hears  *)
(* of every action of every kind in the end, and all of them were carried   *)
(* out by then unless an upgrade was confirmed that did not start.          *)
EverythingReported ==
  (auto.firmware /\ auto.config /\ flash.uuid)
    => <>(seen >= NActions /\ (misled \/ DoneUpTo(NActions)))
=============================================================================
