-------------------------- MODULE CloudCheckProofs --------------------------
(* Proofs about CloudCheck, for any number of actions, of restarts and      *)
(* reboots and of wake-ups.                                                 *)
EXTENDS CloudCheck, TLAPS

Numbers == (0 .. MaxSeq) \cup {NONE}
Options == [seq : Numbers, pending : Numbers, expected : Indices \cup {NONE}, uuid : BOOLEAN]

(* The parts of TypeOK. *)
Flags == /\ do_factory_reset \in BOOLEAN /\ commit \in BOOLEAN /\ rebooting \in BOOLEAN
         /\ assigned \in BOOLEAN /\ misled \in BOOLEAN
         /\ auto \in [firmware : BOOLEAN, config : BOOLEAN]

UciType == staged \in Options /\ flash \in Options

Counts == /\ action_sequence \in Numbers /\ action_sequence_pending \in Numbers
          /\ seen \in 0 .. MaxSeq
          /\ restarts \in 0 .. MaxRestarts /\ wakes \in 0 .. MaxWakes
          /\ pc \in {"poll", "answer", "save"} => action_sequence \in Nat

Words == /\ pc \in States /\ ret \in {"sleep", "late"}
         /\ wakeup_reason \in Reasons \cup {NONE}
         /\ wake \in Reasons \cup {NONE} /\ reasonFile \in Reasons \cup {NONE}

(* A configuration is applied only while its file is there. *)
ConfigStates == {"config", "lateconfig", "configured", "lateconfigured", "counted",
                 "latecounted"}

Actions == /\ swfile \in Indices \cup {NONE} /\ cfgfile \in Indices \cup {NONE}
           /\ resp \in Indices \cup {NONE} /\ updating \in Indices \cup {NONE}
           /\ version \in 0 .. NActions
           /\ actions \in [Indices -> Kinds] /\ done \in SUBSET Indices
           /\ pc \in ConfigStates => cfgfile # NONE

TypeInv == Flags /\ UciType /\ Counts /\ Words /\ Actions

(* The parts together say what TypeOK says.                                 *)
LEMMA TypesAreTypeOK == TypeInv => TypeOK
BY DEF TypeInv, TypeOK, Flags, UciType, Counts, Words, Actions, Options, Numbers

(* What uci set and uci delete make of the options.                         *)
LEMMA OptionsSet ==
  ASSUME NEW o \in Options, NEW n \in Numbers, NEW e \in Indices \cup {NONE}
  PROVE  /\ [o EXCEPT !.pending = n] \in Options
         /\ [o EXCEPT !.expected = e] \in Options
         /\ [o EXCEPT !.seq = n] \in Options
         /\ [o EXCEPT !.pending = NONE, !.expected = NONE] \in Options
         /\ [o EXCEPT !.seq = n, !.uuid = TRUE] \in Options
BY DEF Options, Numbers

(* The next number is a number within the bound.                            *)
LEMMA IncreasedType ==
  ASSUME NEW n \in 0 .. MaxSeq
  PROVE  Increased(n) \in 0 .. MaxSeq
BY CloudAssumption DEF Increased

(* An option that is not set reads as its default.                          *)
LEMMA ValueType ==
  ASSUME NEW o \in Numbers, NEW d \in 0 .. MaxSeq
  PROVE  ValueOf(o, d) \in 0 .. MaxSeq
BY DEF ValueOf, Numbers

(* The options without the left-overs of an upgrade are options.            *)
LEMMA ReconciledType ==
  ASSUME UciType
  PROVE  Reconciled \in Options
BY OptionsSet DEF UciType, Reconciled, Numbers

-----------------------------------------------------------------------------
(* Every step keeps the flags, the options, the counters, the states and    *)
(* the actions in their types.                                              *)

(* Every step keeps the flags.                                              *)
LEMMA FlagsKept ==
  ASSUME Flags, [Next]_vars
  PROVE  Flags'
<1> USE DEF Flags, vars, script, system, cloud
<1>1. CASE SleepEnds \/ Ready \/ NotIdentified \/ ApplyConfig \/ perform_config_update
           \/ RemoveConfig
  BY <1>1, Zenon DEF SleepEnds, Ready, NotIdentified, ApplyConfig, perform_config_update,
                     RemoveConfig
<1>2. CASE Dispatch
  <2>1. misled' \in BOOLEAN
    BY <1>2, Zenon DEF Dispatch
  <2> QED
    BY <1>2, <2>1, Zenon DEF Dispatch
<1>3. CASE Report
  BY <1>3, Zenon DEF Report
<1>4. CASE PollFails \/ PollAnswered
  BY <1>4, Zenon DEF PollFails, PollAnswered, Hear
<1>5. CASE handle_response
  BY <1>5, Zenon DEF handle_response
<1>6. CASE ResponseError \/ Save \/ RunUpdates \/ RunConfig
  BY <1>6, Zenon DEF ResponseError, Save, RunUpdates, RunConfig
<1>7. CASE UpgradeFails
  BY <1>7, Zenon DEF UpgradeFails
<1>8. CASE UpgradeReboots
  BY <1>8, Zenon DEF UpgradeReboots, Booted, FreshScript
<1>9. CASE Reboot \/ PowerCycle
  BY <1>9, Zenon DEF Reboot, PowerCycle, Booted, FreshScript
<1>10. CASE WakeKills \/ WakeRestarts \/ Restart
  BY <1>10, Zenon DEF WakeKills, WakeRestarts, Restart, Restarted, FreshScript
<1>11. ASSUME NEW reason \in Reasons, WakeUp(reason)
       PROVE  Flags'
  BY <1>11, Zenon DEF WakeUp
<1>12. CASE UNCHANGED vars
  BY <1>12, Zenon
<1> QED
  BY <1>1, <1>2, <1>3, <1>4, <1>5, <1>6, <1>7, <1>8, <1>9, <1>10, <1>11, <1>12
  DEF Next, Round, Upgrade, Wake

(* Every step keeps both layers of uci.                                     *)
LEMMA UciKept ==
  ASSUME UciType, Counts, Actions, [Next]_vars
  PROVE  UciType'
<1> USE DEF uci, Stage, Commit
<1>1. CASE UNCHANGED uci
  BY <1>1 DEF UciType
<1>2. CASE SleepEnds \/ Ready \/ NotIdentified \/ ApplyConfig \/ Report \/ PollFails
           \/ PollAnswered \/ RunConfig \/ RemoveConfig
  BY <1>1, <1>2 DEF SleepEnds, Ready, NotIdentified, ApplyConfig, Report, PollFails,
                    PollAnswered, RunConfig, RemoveConfig
<1>3. ASSUME NEW o \in Options, NEW back, perform_software_update(o, back)
      PROVE  UciType'
  <2> DEFINE n == Increased(ValueOf(action_sequence, ValueOf(o.seq, 0)))
  <2>1. n \in 0 .. MaxSeq
    <3>1. o.seq \in Numbers /\ 0 \in 0 .. MaxSeq
      BY CloudAssumption DEF Options
    <3> QED
      BY <3>1, ValueType, IncreasedType DEF Counts
  <2>2. staged' = [o EXCEPT !.pending = n] /\ flash' = staged'
    BY <1>3 DEF perform_software_update
  <2> HIDE DEF n
  <2>3. n \in Numbers /\ NONE \in Indices \cup {NONE}
    BY <2>1 DEF Numbers
  <2> QED
    BY <2>2, <2>3, OptionsSet DEF UciType
<1>4. CASE Dispatch
  <2>1. CASE UNCHANGED uci
    BY <1>1, <2>1
  <2>2. CASE Commit(Reconciled)
    BY <2>2, ReconciledType DEF UciType
  <2>3. CASE perform_software_update(Reconciled, "sleep")
    BY <1>3, <2>3, ReconciledType
  <2> QED
    BY <1>4, <2>1, <2>2, <2>3 DEF Dispatch
<1>5. CASE perform_config_update
  <2>1. action_sequence' \in 0 .. MaxSeq
    <3>1. 0 \in 0 .. MaxSeq
      BY CloudAssumption
    <3> QED
      BY <1>5, <3>1, ValueType, IncreasedType DEF perform_config_update, Counts
  <2>2. action_sequence' \in Numbers /\ NONE \in Indices \cup {NONE}
    BY <2>1 DEF Numbers
  <2>3. staged' = [staged EXCEPT !.seq = action_sequence'] /\ flash' = staged'
    BY <1>5 DEF perform_config_update
  <2> QED
    BY <2>2, <2>3, OptionsSet DEF UciType
<1>6. CASE handle_response \/ ResponseError
  <2>1. NONE \in Numbers /\ NONE \in Indices \cup {NONE}
    BY DEF Numbers
  <2>2. [staged EXCEPT !.pending = NONE, !.expected = NONE] \in Options
    BY <2>1, OptionsSet DEF UciType
  <2>3. \/ UNCHANGED uci
        \/ Stage([staged EXCEPT !.pending = NONE, !.expected = NONE])
    BY <1>6 DEF handle_response, ResponseError, Forget
  <2> QED
    BY <1>1, <2>2, <2>3 DEF UciType
<1>7. CASE Save
  <2>1. [staged EXCEPT !.seq = action_sequence, !.uuid = TRUE] \in Options
    BY OptionsSet DEF UciType, Counts
  <2> QED
    BY <1>1, <1>7, <2>1 DEF Save, UciType
<1>8. CASE RunUpdates
  BY <1>1, <1>3, <1>8 DEF RunUpdates, UciType
<1>9. CASE UpgradeFails
  <2>1. PICK e \in {staged.expected, updating} :
           LET left == [staged EXCEPT !.expected = e]
           IN  Commit([left EXCEPT !.pending = NONE]) \/ Commit(left)
    BY <1>9 DEF UpgradeFails
  <2>2. e \in Indices \cup {NONE} /\ NONE \in Numbers
    BY <2>1 DEF UciType, Options, Actions, Numbers
  <2> DEFINE left == [staged EXCEPT !.expected = e]
  <2>3. left \in Options
    BY <2>2, OptionsSet DEF UciType
  <2>4. [left EXCEPT !.pending = NONE] \in Options
    <3> HIDE DEF left
    <3> QED
      BY <2>2, <2>3, OptionsSet
  <2> QED
    BY <2>1, <2>3, <2>4 DEF UciType
<1>10. CASE UpgradeReboots
  <2>1. updating \in Indices \cup {NONE} /\ NONE \in Numbers
    BY DEF Actions, Numbers
  <2>2. [staged EXCEPT !.expected = updating] \in Options
    BY <2>1, OptionsSet DEF UciType
  <2> QED
    BY <1>10, <2>2 DEF UpgradeReboots, Booted, UciType
<1>11. CASE Reboot \/ PowerCycle
  BY <1>11 DEF Reboot, PowerCycle, Booted, UciType
<1>12. CASE WakeKills \/ WakeRestarts \/ Restart
  BY <1>1, <1>12 DEF WakeKills, WakeRestarts, Restart
<1>13. ASSUME NEW reason \in Reasons, WakeUp(reason)
       PROVE  UciType'
  BY <1>1, <1>13 DEF WakeUp
<1>14. CASE UNCHANGED vars
  BY <1>1, <1>14 DEF vars
<1> QED
  BY <1>2, <1>4, <1>5, <1>6, <1>7, <1>8, <1>9, <1>10, <1>11, <1>12, <1>13, <1>14
  DEF Next, Round, Upgrade, Wake

(* Every step keeps the counters, and a poll is never made without a        *)
(* number.                                                                  *)
LEMMA CountsKept ==
  ASSUME UciType, Counts, Words, [Next]_vars
  PROVE  Counts'
<1> USE CloudAssumption DEF Counts
<1>0. NONE \in Numbers /\ 0 \in 0 .. MaxSeq
  BY DEF Numbers
<1>1. CASE SleepEnds \/ Ready \/ NotIdentified \/ ApplyConfig \/ RunConfig \/ RemoveConfig
  BY <1>1 DEF SleepEnds, Ready, NotIdentified, ApplyConfig, RunConfig, RemoveConfig, script,
              cloud, system, wakeVars, Sleeping
<1>2. CASE Dispatch
  <2>1. staged.pending \in Numbers
    BY DEF UciType, Options
  <2> QED
    BY <1>2, <2>1 DEF Dispatch, perform_software_update, cloud
<1>3. CASE perform_config_update
  <2>1. action_sequence' \in 0 .. MaxSeq
    BY <1>0, <1>3, ValueType, IncreasedType DEF perform_config_update
  <2> QED
    BY <1>3, <2>1 DEF perform_config_update, cloud, system, wakeVars, Numbers
<1>4. CASE Report
  <2>1. staged.seq \in Numbers
    BY DEF UciType, Options
  <2>2. action_sequence' \in 0 .. MaxSeq
    BY <1>0, <1>4, <2>1, ValueType DEF Report
  <2> QED
    BY <1>4, <2>2 DEF Report, cloud, system, wakeVars, Numbers
<1>5. CASE PollFails \/ PollAnswered
  <2>1. action_sequence \in 0 .. MaxSeq
    BY <1>5 DEF PollFails, PollAnswered, Numbers
  <2>2. seen' \in 0 .. MaxSeq
    BY <1>5, <2>1 DEF PollFails, PollAnswered, Hear, cloud
  <2> QED
    BY <1>5, <2>1, <2>2 DEF PollFails, PollAnswered, script, system, wakeVars
<1>6. CASE handle_response
  <2>1. action_sequence \in 0 .. MaxSeq
    BY <1>6 DEF handle_response, Numbers
  <2>2. action_sequence' \in 0 .. MaxSeq
    BY <1>6, <2>1, IncreasedType DEF handle_response
  <2> QED
    BY <1>6, <2>2 DEF handle_response, Numbers, cloud
<1>7. CASE ResponseError \/ Save \/ RunUpdates
  BY <1>7 DEF ResponseError, Save, RunUpdates, perform_software_update, script, cloud, system,
              wakeVars
<1>8. CASE UpgradeFails
  BY <1>8 DEF UpgradeFails, script, cloud, wakeVars, Words
<1>9. CASE UpgradeReboots
  BY <1>0, <1>9 DEF UpgradeReboots, Booted, FreshScript, cloud
<1>10. CASE Reboot \/ PowerCycle
  BY <1>0, <1>10 DEF Reboot, PowerCycle, Booted, FreshScript, cloud
<1>11. CASE WakeKills \/ WakeRestarts \/ Restart
  BY <1>0, <1>11 DEF WakeKills, WakeRestarts, Restart, Restarted, FreshScript, cloud, system,
                     wakeVars
<1>12. ASSUME NEW reason \in Reasons, WakeUp(reason)
       PROVE  Counts'
  BY <1>12 DEF WakeUp, script, cloud, system
<1>13. CASE UNCHANGED vars
  BY <1>13 DEF vars, script, cloud, system, wakeVars
<1> QED
  BY <1>1, <1>2, <1>3, <1>4, <1>5, <1>6, <1>7, <1>8, <1>9, <1>10, <1>11, <1>12, <1>13
  DEF Next, Round, Upgrade, Wake

(* Every step keeps the states and the reasons of a wake-up.                *)
LEMMA WordsKept ==
  ASSUME Words, [Next]_vars
  PROVE  Words'
<1> USE DEF Words, States, Sleeping
<1>1. CASE SleepEnds \/ Ready \/ NotIdentified \/ ApplyConfig \/ RunConfig
           \/ perform_config_update \/ RemoveConfig
  BY <1>1 DEF SleepEnds, Ready, NotIdentified, ApplyConfig, RunConfig, perform_config_update,
              RemoveConfig, script, wakeVars
<1>2. CASE Dispatch \/ RunUpdates
  BY <1>2 DEF Dispatch, RunUpdates, perform_software_update
<1>3. CASE Report \/ PollFails \/ PollAnswered
  BY <1>3 DEF Report, PollFails, PollAnswered, script, wakeVars
<1>4. CASE handle_response \/ ResponseError \/ Save
  BY <1>4 DEF handle_response, ResponseError, Save, script, wakeVars
<1>5. CASE UpgradeFails
  BY <1>5 DEF UpgradeFails, script, wakeVars
<1>6. CASE UpgradeReboots \/ Reboot \/ PowerCycle
  BY <1>6 DEF UpgradeReboots, Reboot, PowerCycle, Booted, FreshScript
<1>7. CASE WakeKills \/ WakeRestarts \/ Restart
  BY <1>7 DEF WakeKills, WakeRestarts, Restart, Restarted, FreshScript, wakeVars
<1>8. ASSUME NEW reason \in Reasons, WakeUp(reason)
       PROVE  Words'
  BY <1>8 DEF WakeUp, script
<1>9. CASE UNCHANGED vars
  BY <1>9 DEF vars, script, wakeVars
<1> QED
  BY <1>1, <1>2, <1>3, <1>4, <1>5, <1>6, <1>7, <1>8, <1>9 DEF Next, Round, Upgrade, Wake

(* Every step keeps the actions and the files they leave, and a             *)
(* configuration is applied only from its file.                             *)
LEMMA ActionsKept ==
  ASSUME Words, Actions, [Next]_vars
  PROVE  Actions'
<1> USE CloudAssumption DEF Actions, ConfigStates
<1>1. CASE SleepEnds \/ Ready \/ NotIdentified \/ RunConfig
  BY <1>1 DEF SleepEnds, Ready, NotIdentified, RunConfig, script, files, system, cloud
<1>2. CASE Dispatch
  BY <1>2 DEF Dispatch, perform_software_update, files, cloud
<1>3. CASE ApplyConfig
  BY <1>3 DEF ApplyConfig, script, files, system, cloud
<1>4. CASE perform_config_update \/ RemoveConfig
  BY <1>4 DEF perform_config_update, RemoveConfig, script, files, system, cloud
<1>5. CASE Report
  BY <1>5 DEF Report, files, system
<1>6. CASE PollFails \/ PollAnswered
  BY <1>6 DEF PollFails, PollAnswered, Hear, script, files, system, cloud
<1>7. CASE handle_response
  <2>1. /\ swfile' \in Indices \cup {NONE} /\ cfgfile' \in Indices \cup {NONE}
        /\ pc' = "save" /\ UNCHANGED <<resp, updating, version, actions>>
    BY <1>7 DEF handle_response, FileAfterForget, cloud
  <2>2. done' = done \/ (resp # NONE /\ done' = done \cup {resp})
    BY <1>7 DEF handle_response
  <2> QED
    BY <2>1, <2>2
<1>8. CASE ResponseError
  BY <1>8 DEF ResponseError, FileAfterForget, script, system, cloud
<1>9. CASE Save
  BY <1>9 DEF Save, script, files, system, cloud
<1>10. CASE RunUpdates
  BY <1>10 DEF RunUpdates, perform_software_update, files, cloud
<1>11. CASE UpgradeFails
  BY <1>11 DEF UpgradeFails, script, files, cloud, Words
<1>12. CASE UpgradeReboots
  <2>1. version' \in 0 .. NActions /\ done' \in SUBSET Indices
    BY <1>12 DEF UpgradeReboots, Indices
  <2> QED
    BY <1>12, <2>1 DEF UpgradeReboots, Booted, FreshScript, files, cloud
<1>13. CASE Reboot \/ PowerCycle
  BY <1>13 DEF Reboot, PowerCycle, Booted, FreshScript, files, cloud
<1>14. CASE WakeKills
  BY <1>14 DEF WakeKills, files, system, cloud
<1>15. CASE WakeRestarts \/ Restart
  BY <1>15 DEF WakeRestarts, Restart, Restarted, FreshScript, files, system, cloud
<1>16. ASSUME NEW reason \in Reasons, WakeUp(reason)
       PROVE  Actions'
  BY <1>16 DEF WakeUp, script, files, system, cloud
<1>17. CASE UNCHANGED vars
  BY <1>17 DEF vars, script, files, system, cloud
<1> QED
  BY <1>1, <1>2, <1>3, <1>4, <1>5, <1>6, <1>7, <1>8, <1>9, <1>10, <1>11, <1>12, <1>13,
     <1>14, <1>15, <1>16, <1>17 DEF Next, Round, Upgrade, Wake

(* Every type is kept by every step.                                        *)
THEOREM TypeInvCorrect == Spec => []TypeInv
<1>1. Init => TypeInv
  <2> SUFFICES ASSUME Init
               PROVE  TypeInv
    OBVIOUS
  <2>1. Flags
    BY Zenon DEF Init, Flags
  <2>2. UciType
    BY DEF Init, UciType, Options, Numbers, NoOptions
  <2>3. Counts /\ Words /\ Actions
    BY CloudAssumption DEF Init, Counts, Words, Actions, Numbers, States, Sleeping, ConfigStates
  <2> QED
    BY <2>1, <2>2, <2>3 DEF TypeInv
<1>2. TypeInv /\ [Next]_vars => TypeInv'
  BY FlagsKept, UciKept, CountsKept, WordsKept, ActionsKept DEF TypeInv
<1> QED
  BY <1>1, <1>2, PTL DEF Spec

(* The numbers of the script, of both layers of uci and of the cloud stay   *)
(* numbers or unset, and a number that is reported is never an unset one.   *)
THEOREM TypeCorrect == Spec => []TypeOK
BY TypeInvCorrect, TypesAreTypeOK, PTL

-----------------------------------------------------------------------------
(* Reports.  All of this is said of runs in which no upgrade was confirmed  *)
(* without its version running.                                             *)

(* The two layers of uci differ only after an upgrade was forgotten in /tmp *)
(* and before that was committed. *)
LayersAgree ==
  /\ flash.seq = staged.seq
  /\ \/ flash.pending = staged.pending /\ flash.expected = staged.expected
     \/ staged.pending = NONE /\ staged.expected = NONE

(* A pending number may be reported once the version expected with it runs. *)
Confirms(o) == o.pending # NONE /\ o.expected = version => DoneUpTo(o.pending)

PendingDone ==
  /\ version = 0 \/ version \in done
  /\ Confirms(staged) /\ Confirms(flash)
  /\ action_sequence_pending # NONE => DoneUpTo(action_sequence_pending)

(* The stored number is behind the pending one and the script's. *)
Behind(o) == o.pending # NONE => o.pending >= 1 /\ (o.seq # NONE => o.seq <= o.pending)

SeqBehind ==
  /\ Behind(staged) /\ Behind(flash)
  /\ action_sequence # NONE /\ staged.seq # NONE => staged.seq <= action_sequence

(* A round reports the upgrade that is pending, and has forgotten it when   *)
(* it saves. *)
RoundPending ==
  /\ pc \in {"config", "configured", "counted", "report", "poll", "answer"} =>
        /\ action_sequence_pending = staged.pending
        /\ action_sequence_pending = NONE => staged.expected = NONE
  /\ pc \in {"save", "after"} => staged.pending = NONE /\ staged.expected = NONE

(* An upgrade that waits is the action after all that is done, ... *)
UpgradeWaits ==
  /\ swfile = NONE \/ cfgfile = NONE
  /\ pc \in {"report", "poll", "answer"} /\ swfile # NONE => action_sequence_pending # NONE
  /\ swfile # NONE =>
        /\ DoneUpTo(swfile - 1)
        /\ staged.seq # NONE => staged.seq < swfile
        /\ action_sequence # NONE /\ (staged.pending = NONE \/ pc = "upgrade")
             => action_sequence < swfile

(* ... one that runs is the one that is pending, and no round gets past it. *)
UpgradeRuns ==
  updating # NONE =>
    /\ pc \in {"upgrade", "sleep", "ready", "waitjson", "identify"}
    /\ DoneUpTo(updating - 1)
    /\ staged.pending # NONE /\ staged.pending <= updating
    /\ staged.expected = NONE

(* Every copy of the number is safe to report. *)
NumbersDone ==
  /\ action_sequence # NONE => DoneUpTo(action_sequence)
  /\ staged.seq # NONE => DoneUpTo(staged.seq)
  /\ DoneUpTo(seen)

(* The answer is the action after the one that was reported, ... *)
AnswerIsNext == pc = "answer" => resp = NONE \/ resp = action_sequence + 1

(* ... and a configuration that waits is the one after all that is done:    *)
(* nothing is polled for while it waits. *)
ConfigWaits ==
  /\ pc \in {"report", "poll", "answer"} => cfgfile = NONE
  /\ pc \in {"configured", "lateconfigured", "counted", "latecounted"} => cfgfile \in done
  /\ pc \in {"late", "lateconfig", "lateconfigured", "latecounted"} => staged.pending = NONE
  /\ cfgfile # NONE =>
        /\ DoneUpTo(cfgfile - 1)
        /\ action_sequence # NONE =>
              /\ pc \notin {"counted", "latecounted"} => action_sequence < cfgfile
              /\ staged.pending # NONE => pc = "counted" /\ action_sequence = 1

DoneInv ==
  /\ LayersAgree /\ PendingDone /\ SeqBehind /\ RoundPending /\ UpgradeWaits /\ UpgradeRuns
  /\ NumbersDone /\ AnswerIsNext /\ ConfigWaits

(* What the types say of the numbers.                                       *)
LEMMA FieldTypes ==
  ASSUME TypeInv
  PROVE  /\ NONE \notin Nat /\ NONE \notin Indices /\ Indices \subseteq Nat
         /\ \A i \in Indices : i >= 1 /\ i < MaxSeq
         /\ MaxSeq \in Nat /\ MaxSeq >= 1
         /\ staged.seq \in Nat \cup {NONE} /\ staged.pending \in Nat \cup {NONE}
         /\ flash.seq \in Nat \cup {NONE} /\ flash.pending \in Nat \cup {NONE}
         /\ staged.expected \in Indices \cup {NONE} /\ flash.expected \in Indices \cup {NONE}
         /\ action_sequence \in Nat \cup {NONE} /\ action_sequence_pending \in Nat \cup {NONE}
         /\ seen \in Nat /\ version \in Nat
         /\ swfile \in Indices \cup {NONE} /\ cfgfile \in Indices \cup {NONE}
         /\ updating \in Indices \cup {NONE} /\ resp \in Indices \cup {NONE}
<1>1. Numbers \subseteq Nat \cup {NONE} /\ Indices \subseteq Nat /\ NONE \notin Nat
  BY CloudAssumption DEF Numbers, Indices
<1>2. staged \in Options /\ flash \in Options
  BY DEF TypeInv, UciType
<1>3. /\ staged.seq \in Nat \cup {NONE} /\ staged.pending \in Nat \cup {NONE}
      /\ flash.seq \in Nat \cup {NONE} /\ flash.pending \in Nat \cup {NONE}
      /\ staged.expected \in Indices \cup {NONE} /\ flash.expected \in Indices \cup {NONE}
  BY <1>1, <1>2 DEF Options
<1>4. \A i \in Indices : i >= 1 /\ i < MaxSeq
  BY CloudAssumption DEF Indices
<1>5. /\ action_sequence \in Nat \cup {NONE} /\ action_sequence_pending \in Nat \cup {NONE}
      /\ seen \in Nat
  BY <1>1, CloudAssumption DEF TypeInv, Counts
<1>6. /\ version \in Nat
      /\ swfile \in Indices \cup {NONE} /\ cfgfile \in Indices \cup {NONE}
      /\ updating \in Indices \cup {NONE} /\ resp \in Indices \cup {NONE}
  BY CloudAssumption DEF TypeInv, Actions
<1>7. NONE \notin Indices
  BY <1>1
<1>8. MaxSeq \in Nat /\ MaxSeq >= 1
  BY CloudAssumption
<1> QED
  BY <1>1, <1>3, <1>4, <1>5, <1>6, <1>7, <1>8

(* A step that changes no number and no file, and does not enter a round.   *)
LEMMA QuietStep ==
  ASSUME TypeInv, DoneInv,
         UNCHANGED <<staged, flash, swfile, cfgfile, version, action_sequence,
                     action_sequence_pending, updating, actions, seen, done>>,
         \/ pc' = pc /\ resp' = resp
         \/ /\ pc \notin {"counted", "latecounted"}
            /\ \/ pc' \in {"sleep", "ready", "waitjson", "identify"}
               \/ pc \in {"after", "late"} /\ pc' \in {"late", "lateconfig"}
  PROVE  DoneInv'
<1>1. LayersAgree' /\ PendingDone' /\ SeqBehind' /\ NumbersDone'
  BY DEF DoneInv, LayersAgree, PendingDone, Confirms, SeqBehind, Behind, NumbersDone, DoneUpTo
<1>2. RoundPending' /\ AnswerIsNext'
  BY DEF DoneInv, RoundPending, AnswerIsNext
<1>3. UpgradeWaits'
  BY DEF DoneInv, UpgradeWaits, DoneUpTo
<1>4. UpgradeRuns'
  BY DEF DoneInv, UpgradeRuns, DoneUpTo
<1>5. ConfigWaits'
  BY DEF DoneInv, RoundPending, ConfigWaits, DoneUpTo
<1> QED
  BY <1>1, <1>2, <1>3, <1>4, <1>5 DEF DoneInv

(* A new start of the script, with or without a reboot.                     *)
LEMMA FreshStep ==
  ASSUME TypeInv, DoneInv,
         action_sequence' = NONE, action_sequence_pending' = NONE,
         UNCHANGED <<flash, swfile, cfgfile, version, actions, seen, done>>,
         pc' \in {"sleep", "ready"},
         \/ staged' = staged /\ updating' = updating
         \/ staged' = flash /\ updating' = NONE
  PROVE  DoneInv'
<1>1. LayersAgree' /\ PendingDone' /\ SeqBehind'
  BY DEF DoneInv, LayersAgree, PendingDone, Confirms, SeqBehind, Behind, DoneUpTo
<1>2. NumbersDone' /\ RoundPending' /\ AnswerIsNext'
  BY DEF DoneInv, LayersAgree, NumbersDone, RoundPending, AnswerIsNext, DoneUpTo
<1>3. UpgradeWaits'
  BY DEF DoneInv, LayersAgree, UpgradeWaits, DoneUpTo
<1>4. UpgradeRuns'
  <2>1. CASE staged' = staged /\ updating' = updating
    BY <2>1 DEF DoneInv, UpgradeRuns, DoneUpTo
  <2>2. CASE updating' = NONE
    BY <2>2 DEF UpgradeRuns
  <2> QED
    BY <2>1, <2>2
<1>5. ConfigWaits'
  BY DEF DoneInv, ConfigWaits, DoneUpTo
<1> QED
  BY <1>1, <1>2, <1>3, <1>4, <1>5 DEF DoneInv

(* perform_software_update notes a number at most that of the upgrade.      *)
LEMMA UpgradeStarts ==
  ASSUME TypeInv, TypeInv', DoneInv, NEW o \in Options, NEW back,
         perform_software_update(o, back),
         o.seq = staged.seq, staged.pending = NONE, o.expected = NONE,
         UNCHANGED <<swfile, cfgfile, version, action_sequence, actions, seen, done>>,
         action_sequence_pending' \in {action_sequence_pending, NONE}
  PROVE  DoneInv'
<1> USE FieldTypes
<1> DEFINE n == Increased(ValueOf(action_sequence, ValueOf(o.seq, 0)))
<1>1. /\ staged' = [o EXCEPT !.pending = n] /\ flash' = staged'
      /\ updating' = swfile /\ pc' = "upgrade" /\ swfile # NONE
  BY DEF perform_software_update, Commit
<1>2. /\ action_sequence # NONE => action_sequence < swfile
      /\ staged.seq # NONE => staged.seq < swfile
      /\ DoneUpTo(swfile - 1)
      /\ cfgfile = NONE
  BY <1>1 DEF DoneInv, UpgradeWaits
<1>3. /\ n \in Nat /\ n >= 1 /\ n <= swfile
      /\ staged.seq # NONE => staged.seq <= n
  <2>1. \A k \in Nat : k < swfile => Increased(k) \in Nat /\ Increased(k) >= 1
                                     /\ Increased(k) <= swfile /\ Increased(k) >= k
    BY <1>1 DEF Increased
  <2>2. action_sequence # NONE /\ staged.seq # NONE => staged.seq <= action_sequence
    BY DEF DoneInv, SeqBehind
  <2>3. CASE action_sequence # NONE
    <3>1. n = Increased(action_sequence)
      BY <2>3 DEF ValueOf
    <3> HIDE DEF n
    <3>2. action_sequence \in Nat /\ action_sequence < swfile
      BY <1>2, <2>3
    <3>3. n \in Nat /\ n >= 1 /\ n <= swfile /\ n >= action_sequence
      BY <2>1, <3>1, <3>2
    <3> QED
      BY <2>2, <2>3, <3>2, <3>3
  <2>4. CASE action_sequence = NONE /\ staged.seq # NONE
    <3>1. n = Increased(staged.seq) /\ staged.seq \in Nat /\ staged.seq < swfile
      BY <1>2, <2>4 DEF ValueOf
    <3> HIDE DEF n
    <3> QED
      BY <2>1, <3>1
  <2>5. CASE action_sequence = NONE /\ staged.seq = NONE
    <3>1. n = Increased(0) /\ 0 < swfile
      BY <1>1, <2>5 DEF ValueOf
    <3> HIDE DEF n
    <3> QED
      BY <2>1, <2>5, <3>1
  <2> QED
    BY <2>3, <2>4, <2>5
<1> HIDE DEF n
<1>4. /\ staged'.pending = n /\ staged'.seq = staged.seq /\ staged'.expected = NONE
      /\ flash'.pending = n /\ flash'.seq = staged.seq /\ flash'.expected = NONE
      /\ n # NONE
  BY <1>1, <1>3 DEF Options
<1>5. LayersAgree' /\ RoundPending' /\ AnswerIsNext'
  BY <1>1, <1>4 DEF LayersAgree, RoundPending, AnswerIsNext
<1>6. PendingDone'
  <2>1. ~(staged'.expected = version') /\ ~(flash'.expected = version')
    BY <1>4
  <2> QED
    BY <2>1 DEF DoneInv, PendingDone, Confirms, DoneUpTo
<1>7. SeqBehind'
  BY <1>3, <1>4 DEF DoneInv, SeqBehind, Behind
<1>8. UpgradeWaits' /\ UpgradeRuns'
  BY <1>1, <1>2, <1>3, <1>4 DEF UpgradeWaits, UpgradeRuns, DoneUpTo
<1>9. NumbersDone' /\ ConfigWaits'
  BY <1>1, <1>2, <1>4 DEF DoneInv, NumbersDone, ConfigWaits, DoneUpTo
<1> QED
  BY <1>5, <1>6, <1>7, <1>8, <1>9 DEF DoneInv

(* Every step but the confirmation of an upgrade whose version does not run *)
(* keeps the copies of the number at or below what is done.                 *)
LEMMA DoneInvKept ==
  ASSUME TypeInv, TypeInv', DoneInv, ~misled', [Next]_vars
  PROVE  DoneInv'
<1> USE FieldTypes
<1>0. /\ LayersAgree /\ PendingDone /\ SeqBehind /\ RoundPending /\ UpgradeWaits /\ UpgradeRuns
      /\ NumbersDone /\ AnswerIsNext /\ ConfigWaits
  BY DEF DoneInv
<1>1. CASE SleepEnds \/ Ready \/ NotIdentified \/ WakeKills
  BY <1>1, QuietStep DEF SleepEnds, Ready, NotIdentified, WakeKills, Sleeping, script, uci, files,
                         system, cloud
<1>2. CASE RunConfig
  BY <1>2, QuietStep DEF RunConfig, script, uci, files, system, cloud
<1>3. CASE (\E reason \in Reasons : WakeUp(reason)) \/ UNCHANGED vars
  BY <1>3, QuietStep DEF WakeUp, vars, script, uci, files, system, cloud
<1>4. CASE WakeRestarts \/ Restart
  BY <1>4, FreshStep DEF WakeRestarts, Restart, Restarted, FreshScript, uci, files, system, cloud
<1>5. CASE Reboot \/ PowerCycle
  BY <1>5, FreshStep DEF Reboot, PowerCycle, Booted, FreshScript, files, cloud
<1>6. CASE RunUpdates
  <2>1. CASE swfile = NONE
    BY <1>6, <2>1, QuietStep DEF RunUpdates, uci, files, cloud
  <2>2. CASE swfile # NONE
    <3>1. /\ perform_software_update(staged, "late")
          /\ UNCHANGED <<swfile, cfgfile, version, action_sequence, actions, seen, done,
                         action_sequence_pending>>
      BY <1>6, <2>2 DEF RunUpdates, files, cloud
    <3>2. staged.pending = NONE /\ staged.expected = NONE
      BY <1>0, <1>6 DEF RunUpdates, RoundPending
    <3> QED
      BY <3>1, <3>2, UpgradeStarts DEF TypeInv, UciType
  <2> QED
    BY <2>1, <2>2
<1>7. CASE Dispatch
  <2>1. /\ pc = "identify" /\ action_sequence_pending' = staged.pending
        /\ UNCHANGED <<swfile, cfgfile, version, action_sequence, actions, seen, done, resp>>
    BY <1>7 DEF Dispatch, files
  <2>2. staged.pending # NONE => staged.expected = version
    BY <1>7, Zenon DEF Dispatch
  <2>3. /\ Reconciled \in Options
        /\ Reconciled.seq = staged.seq /\ Reconciled.pending = staged.pending
        /\ staged.pending # NONE => Reconciled = staged
        /\ staged.pending = NONE => Reconciled.expected = NONE
    <3>1. Reconciled \in Options
      BY ReconciledType DEF TypeInv
    <3> QED
      BY <2>2, <3>1 DEF Reconciled, TypeInv, UciType, Options
  <2>4. staged.pending # NONE => DoneUpTo(staged.pending)
    BY <1>0, <2>2 DEF PendingDone, Confirms
  <2>5. CASE perform_software_update(Reconciled, "sleep") /\ staged.pending = NONE
    BY <2>1, <2>3, <2>5, UpgradeStarts
  <2>6. ASSUME /\ pc' \in {"sleep", "report", "config"} /\ UNCHANGED updating
               /\ IF Reconciled # staged THEN Commit(Reconciled) ELSE UNCHANGED uci
               /\ pc' # "sleep" => staged.pending # NONE \/ swfile = NONE
               /\ pc' = "report" => cfgfile = NONE
               /\ pc' = "config" => cfgfile # NONE
        PROVE  DoneInv'
    <3>1. /\ staged'.seq = staged.seq /\ staged'.pending = staged.pending
          /\ flash'.seq = flash.seq
          /\ staged.pending # NONE => staged'.expected = staged.expected
          /\ staged.pending = NONE => staged'.expected = NONE
      BY <1>0, <2>3, <2>6 DEF Commit, uci, LayersAgree
    <3>2. \/ flash' = staged'
          \/ UNCHANGED <<staged, flash>>
      BY <2>6 DEF Commit, uci
    <3>3. updating = NONE
      BY <1>0, <2>2 DEF UpgradeRuns
    <3>4. LayersAgree'
      BY <1>0, <3>2 DEF LayersAgree
    <3>5. PendingDone'
      BY <1>0, <2>1, <2>4, <3>1, <3>2 DEF PendingDone, Confirms, DoneUpTo
    <3>6. SeqBehind'
      BY <1>0, <2>1, <3>1, <3>2 DEF SeqBehind, Behind
    <3>7. RoundPending' /\ UpgradeRuns' /\ AnswerIsNext'
      BY <2>1, <2>6, <3>1, <3>3 DEF RoundPending, UpgradeRuns, AnswerIsNext
    <3>8. UpgradeWaits'
      BY <1>0, <2>1, <2>6, <3>1 DEF UpgradeWaits, DoneUpTo
    <3>9. NumbersDone'
      BY <1>0, <2>1, <3>1 DEF NumbersDone, DoneUpTo
    <3>10. ConfigWaits'
      BY <1>0, <2>1, <2>6, <3>1 DEF ConfigWaits, DoneUpTo
    <3> QED
      BY <3>4, <3>5, <3>6, <3>7, <3>8, <3>9, <3>10 DEF DoneInv
  <2> QED
    BY <1>7, <2>5, <2>6 DEF Dispatch
<1>8. CASE ApplyConfig
  <2>1. /\ UNCHANGED <<staged, flash, swfile, cfgfile, version, action_sequence,
                       action_sequence_pending, updating, actions, seen, resp>>
        /\ done \subseteq done'
        /\ \/ pc = "config" /\ pc' = "configured"
           \/ pc = "lateconfig" /\ pc' = "lateconfigured"
           \/ pc' = "sleep"
        /\ pc \in {"config", "lateconfig"}
        /\ pc' # "sleep" => cfgfile \in done'
    BY <1>8 DEF ApplyConfig, script, uci, files, system, cloud
  <2>2. \A i \in Indices : i \in done => i \in done'
    BY <2>1
  <2>3. LayersAgree' /\ PendingDone' /\ SeqBehind' /\ NumbersDone'
    BY <1>0, <2>1, <2>2 DEF LayersAgree, PendingDone, Confirms, SeqBehind, Behind, NumbersDone,
                            DoneUpTo
  <2>4. RoundPending' /\ AnswerIsNext' /\ UpgradeRuns'
    BY <1>0, <2>1 DEF RoundPending, AnswerIsNext, UpgradeRuns
  <2>5. UpgradeWaits' /\ ConfigWaits'
    BY <1>0, <2>1, <2>2 DEF UpgradeWaits, ConfigWaits, DoneUpTo
  <2> QED
    BY <2>3, <2>4, <2>5 DEF DoneInv
<1>9. CASE perform_config_update
  <2> DEFINE n == action_sequence'
  <2>1. /\ staged' = [staged EXCEPT !.seq = n] /\ flash' = staged'
        /\ UNCHANGED <<swfile, cfgfile, version, action_sequence_pending, updating, actions, seen,
                       done>>
        /\ \/ pc = "configured" /\ pc' = "counted"
           \/ pc = "lateconfigured" /\ pc' = "latecounted"
        /\ n = Increased(ValueOf(action_sequence, 0))
    BY <1>9 DEF perform_config_update, Commit, files, system, cloud
  <2>2. /\ cfgfile \in Indices /\ cfgfile \in done /\ swfile = NONE /\ updating = NONE
        /\ DoneUpTo(cfgfile - 1)
        /\ action_sequence # NONE => action_sequence < cfgfile
        /\ staged.pending # NONE => action_sequence = NONE
    BY <1>0, <2>1 DEF ConfigWaits, UpgradeWaits, UpgradeRuns, TypeInv, Actions, ConfigStates
  <2>3. DoneUpTo(cfgfile)
    BY <2>2 DEF DoneUpTo
  <2>4. n \in Nat /\ n <= cfgfile /\ (action_sequence = NONE => n = 1)
    BY <2>1, <2>2 DEF Increased, ValueOf
  <2>5. DoneUpTo(n)
    BY <2>2, <2>3, <2>4 DEF DoneUpTo
  <2> HIDE DEF n
  <2>6. /\ staged'.seq = n /\ staged'.pending = staged.pending
        /\ staged'.expected = staged.expected /\ n # NONE
    BY <2>1, <2>4 DEF TypeInv, UciType, Options
  <2>7. LayersAgree' /\ SeqBehind'
    BY <1>0, <2>1, <2>2, <2>4, <2>6 DEF LayersAgree, SeqBehind, Behind, n
  <2>8. PendingDone'
    BY <1>0, <2>1, <2>6 DEF PendingDone, Confirms, DoneUpTo
  <2>9. RoundPending' /\ UpgradeWaits' /\ UpgradeRuns' /\ AnswerIsNext'
    BY <1>0, <2>1, <2>2, <2>6 DEF RoundPending, UpgradeWaits, UpgradeRuns, AnswerIsNext
  <2>10. NumbersDone'
    BY <1>0, <2>1, <2>5, <2>6 DEF NumbersDone, DoneUpTo, n
  <2>11. ConfigWaits'
    BY <1>0, <2>1, <2>2, <2>4, <2>6 DEF ConfigWaits, DoneUpTo, RoundPending, n
  <2> QED
    BY <2>7, <2>8, <2>9, <2>10, <2>11 DEF DoneInv
<1>10. CASE RemoveConfig
  <2>1. /\ UNCHANGED <<staged, flash, swfile, version, action_sequence,
                       action_sequence_pending, updating, actions, seen, done>>
        /\ cfgfile' = NONE
        /\ \/ pc = "counted" /\ pc' = "report"
           \/ pc = "latecounted" /\ pc' = "sleep"
    BY <1>10 DEF RemoveConfig, script, uci, system, cloud
  <2>2. swfile = NONE /\ updating = NONE
    BY <1>0, <2>1 DEF UpgradeWaits, UpgradeRuns, TypeInv, Actions, ConfigStates
  <2>3. LayersAgree' /\ PendingDone' /\ SeqBehind' /\ NumbersDone'
    BY <1>0, <2>1 DEF LayersAgree, PendingDone, Confirms, SeqBehind, Behind, NumbersDone, DoneUpTo
  <2>4. RoundPending' /\ AnswerIsNext' /\ UpgradeRuns' /\ UpgradeWaits' /\ ConfigWaits'
    BY <1>0, <2>1, <2>2 DEF RoundPending, AnswerIsNext, UpgradeRuns, UpgradeWaits, ConfigWaits
  <2> QED
    BY <2>3, <2>4 DEF DoneInv
<1>11. CASE Report
  <2>1. /\ UNCHANGED <<staged, flash, swfile, cfgfile, version, action_sequence_pending, updating,
                       actions, seen, done>>
        /\ pc = "report" /\ pc' \in {"poll", "sleep"}
        /\ action_sequence' = ValueOf(action_sequence_pending, ValueOf(staged.seq, 0))
    BY <1>11 DEF Report, uci, files, system
  <2>2. /\ cfgfile = NONE /\ updating = NONE
        /\ action_sequence_pending = staged.pending
        /\ action_sequence_pending = NONE => staged.expected = NONE /\ swfile = NONE
    BY <1>0, <2>1 DEF ConfigWaits, UpgradeRuns, RoundPending, UpgradeWaits
  <2>3. /\ action_sequence' \in Nat
        /\ staged.seq # NONE => staged.seq <= action_sequence'
    BY <1>0, <2>1, <2>2 DEF ValueOf, SeqBehind, Behind
  <2>4. DoneUpTo(action_sequence')
    BY <1>0, <2>1 DEF ValueOf, PendingDone, NumbersDone, DoneUpTo
  <2>5. LayersAgree' /\ PendingDone' /\ RoundPending' /\ AnswerIsNext' /\ UpgradeRuns'
    BY <1>0, <2>1, <2>2 DEF LayersAgree, PendingDone, Confirms, RoundPending, AnswerIsNext,
                            UpgradeRuns, DoneUpTo
  <2>6. SeqBehind' /\ NumbersDone'
    BY <1>0, <2>1, <2>3, <2>4 DEF SeqBehind, Behind, NumbersDone, DoneUpTo
  <2>7. UpgradeWaits' /\ ConfigWaits'
    BY <1>0, <2>1, <2>2 DEF UpgradeWaits, ConfigWaits, DoneUpTo
  <2> QED
    BY <2>5, <2>6, <2>7 DEF DoneInv
<1>12. CASE PollFails \/ PollAnswered
  <2>1. /\ UNCHANGED <<staged, flash, swfile, cfgfile, version, action_sequence,
                       action_sequence_pending, updating, actions, done>>
        /\ pc = "poll" /\ pc' \in {"sleep", "answer"} /\ action_sequence \in Nat
        /\ seen' = seen \/ seen' = action_sequence
        /\ pc' = "answer" => resp' = NONE \/ resp' = action_sequence + 1
    BY <1>12 DEF PollFails, PollAnswered, Hear, script, uci, files, system, cloud, TypeInv, Counts
  <2>2. DoneUpTo(seen')
    BY <1>0, <2>1 DEF NumbersDone
  <2>3. LayersAgree' /\ PendingDone' /\ SeqBehind' /\ NumbersDone'
    BY <1>0, <2>1, <2>2 DEF LayersAgree, PendingDone, Confirms, SeqBehind, Behind, NumbersDone,
                            DoneUpTo
  <2>4. RoundPending' /\ AnswerIsNext' /\ UpgradeRuns'
    BY <1>0, <2>1 DEF RoundPending, AnswerIsNext, UpgradeRuns
  <2>5. UpgradeWaits' /\ ConfigWaits'
    BY <1>0, <2>1 DEF UpgradeWaits, ConfigWaits, DoneUpTo
  <2> QED
    BY <2>3, <2>4, <2>5 DEF DoneInv
<1>13. ASSUME pc = "answer", Forget
       PROVE  /\ staged'.pending = NONE /\ staged'.expected = NONE
              /\ staged'.seq = staged.seq /\ flash' = flash
              /\ FileAfterForget = NONE /\ updating = NONE /\ cfgfile = NONE
              /\ action_sequence \in 0 .. MaxSeq
              /\ resp # NONE => resp \in Indices /\ resp = action_sequence + 1
  <2>1. /\ action_sequence_pending = staged.pending
        /\ action_sequence_pending = NONE => staged.expected = NONE /\ swfile = NONE
        /\ updating = NONE /\ cfgfile = NONE
        /\ resp # NONE => resp = action_sequence + 1
    BY <1>0, <1>13 DEF RoundPending, UpgradeWaits, UpgradeRuns, ConfigWaits, AnswerIsNext
  <2>2. action_sequence \in 0 .. MaxSeq
    BY <1>13 DEF TypeInv, Counts, Numbers
  <2> QED
    BY <1>13, <2>1, <2>2 DEF Forget, FileAfterForget, Stage, uci, TypeInv, UciType, Options
<1>14. CASE ResponseError
  <2>1. /\ staged'.pending = NONE /\ staged'.expected = NONE
        /\ staged'.seq = staged.seq /\ flash' = flash
        /\ updating = NONE /\ cfgfile = NONE
        /\ swfile' = NONE /\ pc' = "sleep"
        /\ UNCHANGED <<cfgfile, version, action_sequence, action_sequence_pending, updating,
                       actions, seen, done>>
    BY <1>13, <1>14 DEF ResponseError, script, system, cloud
  <2>2. LayersAgree' /\ PendingDone' /\ SeqBehind' /\ NumbersDone'
    BY <1>0, <2>1 DEF LayersAgree, PendingDone, Confirms, SeqBehind, Behind, NumbersDone, DoneUpTo
  <2>3. RoundPending' /\ AnswerIsNext' /\ UpgradeRuns' /\ UpgradeWaits' /\ ConfigWaits'
    BY <2>1 DEF RoundPending, AnswerIsNext, UpgradeRuns, UpgradeWaits, ConfigWaits
  <2> QED
    BY <2>2, <2>3 DEF DoneInv
<1>15. CASE handle_response
  <2> DEFINE kind == IF resp = NONE THEN "none" ELSE actions[resp]
  <2>1. /\ staged'.pending = NONE /\ staged'.expected = NONE
        /\ staged'.seq = staged.seq /\ flash' = flash
        /\ updating = NONE /\ cfgfile = NONE
        /\ action_sequence \in 0 .. MaxSeq
        /\ resp # NONE => resp \in Indices /\ resp = action_sequence + 1
    BY <1>13, <1>15 DEF handle_response
  <2>2. /\ UNCHANGED <<version, action_sequence_pending, updating, actions, seen, resp>>
        /\ pc' = "save"
        /\ swfile' = IF kind = "software" THEN resp ELSE NONE
        /\ cfgfile' = IF kind = "config" THEN resp ELSE NONE
        /\ done' = IF kind \in {"simple", "reboot"} THEN done \cup {resp} ELSE done
        /\ action_sequence' = IF kind \in {"simple", "reboot", "factory"}
                              THEN Increased(action_sequence) ELSE action_sequence
    BY <1>13, <1>15, <2>1 DEF handle_response, cloud
  <2>3. kind # "none" => resp # NONE
    OBVIOUS
  <2>4. kind = "factory" => actions[resp] = "factory"
    OBVIOUS
  <2>5. kind \in {"simple", "reboot", "factory"} => action_sequence' = resp
    BY <2>1, <2>2, <2>3 DEF Increased
  <2> HIDE DEF kind
  <2>6. /\ \A i \in Indices : i \in done => i \in done'
        /\ kind \in {"simple", "reboot"} => resp \in done'
    BY <2>2
  <2>7. DoneUpTo(action_sequence)
    BY <1>0, <2>1 DEF NumbersDone
  <2>8. DoneUpTo(action_sequence)'
    <3>1. CASE kind \in {"simple", "reboot", "factory"}
      <4>1. \A i \in Indices : i <= resp => i <= action_sequence \/ i = resp
        BY <2>1, <2>3, <3>1
      <4> QED
        BY <2>2, <2>4, <2>5, <2>6, <2>7, <3>1, <4>1 DEF DoneUpTo
    <3>2. CASE kind \notin {"simple", "reboot", "factory"}
      BY <2>2, <2>6, <2>7, <3>2 DEF DoneUpTo
    <3> QED
      BY <3>1, <3>2
  <2>9. /\ action_sequence' \in Nat /\ action_sequence <= action_sequence'
        /\ staged.seq # NONE => staged.seq <= action_sequence
    BY <1>0, <2>1, <2>2 DEF Increased, SeqBehind
  <2>10. LayersAgree' /\ PendingDone'
    BY <1>0, <2>1, <2>2, <2>6 DEF LayersAgree, PendingDone, Confirms, DoneUpTo
  <2>11. SeqBehind'
    BY <1>0, <2>1, <2>2, <2>9 DEF SeqBehind, Behind
  <2>12. NumbersDone'
    BY <1>0, <2>1, <2>2, <2>6, <2>8 DEF NumbersDone, DoneUpTo
  <2>13. RoundPending' /\ AnswerIsNext' /\ UpgradeRuns'
    BY <2>1, <2>2 DEF RoundPending, AnswerIsNext, UpgradeRuns
  <2>14. ASSUME kind \in {"software", "config"}
         PROVE  /\ action_sequence' = resp - 1 /\ DoneUpTo(resp - 1)' /\ resp # NONE
                /\ action_sequence' < resp /\ (staged.seq # NONE => staged.seq < resp)
    <3>1. resp # NONE /\ resp = action_sequence + 1 /\ action_sequence' = action_sequence
      BY <2>1, <2>2, <2>3, <2>14
    <3>2. action_sequence' = resp - 1 /\ resp' = resp
      BY <1>15, <2>1, <3>1 DEF handle_response
    <3> QED
      BY <2>1, <2>8, <2>9, <3>1, <3>2 DEF DoneUpTo
  <2>15. UpgradeWaits' /\ ConfigWaits'
    BY <2>1, <2>2, <2>14 DEF UpgradeWaits, ConfigWaits, DoneUpTo
  <2> QED
    BY <2>10, <2>11, <2>12, <2>13, <2>15 DEF DoneInv
<1>16. CASE Save
  <2>1. /\ UNCHANGED <<swfile, cfgfile, version, action_sequence, action_sequence_pending,
                       updating, actions, seen, done>>
        /\ pc = "save" /\ pc' = "after" /\ action_sequence \in Nat
    BY <1>16 DEF Save, script, files, system, cloud, TypeInv, Counts
  <2>2. staged.pending = NONE /\ staged.expected = NONE /\ updating = NONE
    BY <1>0, <2>1 DEF RoundPending, UpgradeRuns
  <2>3. /\ staged'.pending = NONE /\ staged'.expected = NONE
        /\ staged'.seq \in {staged.seq, action_sequence}
        /\ \/ UNCHANGED <<staged, flash>>
           \/ staged'.seq = action_sequence /\ flash' = staged'
    <3>1. CASE UNCHANGED uci
      BY <2>2, <3>1 DEF uci
    <3>2. CASE Commit([staged EXCEPT !.seq = action_sequence, !.uuid = TRUE])
      BY <2>2, <3>2 DEF Commit, TypeInv, UciType, Options
    <3> QED
      BY <1>16, <3>1, <3>2 DEF Save
  <2>4. LayersAgree' /\ PendingDone'
    BY <1>0, <2>1, <2>3 DEF LayersAgree, PendingDone, Confirms, DoneUpTo
  <2>5. SeqBehind'
    BY <1>0, <2>1, <2>3 DEF SeqBehind, Behind
  <2>6. NumbersDone'
    BY <1>0, <2>1, <2>3 DEF NumbersDone, DoneUpTo
  <2>7. RoundPending' /\ AnswerIsNext' /\ UpgradeRuns'
    BY <2>1, <2>2, <2>3 DEF RoundPending, AnswerIsNext, UpgradeRuns
  <2>8. UpgradeWaits' /\ ConfigWaits'
    BY <1>0, <2>1, <2>2, <2>3 DEF UpgradeWaits, ConfigWaits, DoneUpTo
  <2> QED
    BY <2>4, <2>5, <2>6, <2>7, <2>8 DEF DoneInv
<1>17. CASE UpgradeFails
  <2>1. /\ updating # NONE /\ updating' = NONE
        /\ UNCHANGED <<swfile, cfgfile, version, action_sequence, action_sequence_pending,
                       actions, seen, done, resp>>
    BY <1>17 DEF UpgradeFails, script, files, cloud
  <2>2. PICK e \in {staged.expected, updating} :
           IF pc = "upgrade"
           THEN Commit([[staged EXCEPT !.expected = e] EXCEPT !.pending = NONE]) /\ pc' = ret
           ELSE Commit([staged EXCEPT !.expected = e]) /\ UNCHANGED pc
    BY <1>17 DEF UpgradeFails
  <2>3. /\ pc \in {"upgrade", "sleep", "ready", "waitjson", "identify"}
        /\ DoneUpTo(updating - 1) /\ staged.pending # NONE /\ staged.pending <= updating
        /\ staged.expected = NONE
    BY <1>0, <2>1 DEF UpgradeRuns
  <2>4. version = updating => DoneUpTo(staged.pending)
    BY <1>0, <2>1, <2>3 DEF PendingDone, DoneUpTo
  <2>5. /\ staged'.seq = staged.seq /\ flash' = staged' /\ staged'.expected \in {NONE, updating}
        /\ IF pc = "upgrade" THEN staged'.pending = NONE ELSE staged'.pending = staged.pending
    BY <2>2, <2>3 DEF Commit, TypeInv, UciType, Options
  <2>6. IF pc = "upgrade" THEN pc' \in {"sleep", "late"} ELSE pc' = pc
    BY <2>2 DEF TypeInv, Words
  <2>7. LayersAgree' /\ SeqBehind' /\ RoundPending' /\ AnswerIsNext' /\ UpgradeRuns'
    BY <1>0, <2>1, <2>3, <2>5, <2>6 DEF LayersAgree, SeqBehind, Behind, RoundPending,
       AnswerIsNext, UpgradeRuns
  <2>8. PendingDone'
    BY <1>0, <2>1, <2>4, <2>5 DEF PendingDone, Confirms, DoneUpTo
  <2>9. NumbersDone'
    BY <1>0, <2>1, <2>5 DEF NumbersDone, DoneUpTo
  <2>10. UpgradeWaits' /\ ConfigWaits'
    BY <1>0, <2>1, <2>3, <2>5, <2>6 DEF UpgradeWaits, ConfigWaits, DoneUpTo
  <2> QED
    BY <2>7, <2>8, <2>9, <2>10 DEF DoneInv
<1>18. CASE UpgradeReboots
  <2>1. /\ updating # NONE /\ updating' = NONE /\ pc' = "sleep"
        /\ version' \in {updating, version}
        /\ done' = IF version' = updating THEN done \cup {updating} ELSE done
        /\ staged' = [staged EXCEPT !.expected = updating] /\ flash' = staged'
        /\ action_sequence' = NONE /\ action_sequence_pending' = NONE
        /\ UNCHANGED <<swfile, cfgfile, actions, seen>>
    BY <1>18 DEF UpgradeReboots, Booted, FreshScript, files, cloud
  <2>2. /\ DoneUpTo(updating - 1) /\ staged.pending # NONE /\ staged.pending <= updating
    BY <1>0, <2>1 DEF UpgradeRuns
  <2>3. /\ staged'.seq = staged.seq /\ staged'.pending = staged.pending
        /\ staged'.expected = updating
    BY <2>1 DEF TypeInv, UciType, Options
  <2>4. \A i \in Indices : i \in done => i \in done'
    BY <2>1
  <2>5. LayersAgree' /\ SeqBehind' /\ RoundPending' /\ AnswerIsNext' /\ UpgradeRuns'
    BY <1>0, <2>1, <2>3 DEF LayersAgree, SeqBehind, Behind, RoundPending, AnswerIsNext, UpgradeRuns
  <2>6. PendingDone'
    <3>1. version' = 0 \/ version' \in done'
      BY <1>0, <2>1 DEF PendingDone
    <3>2. version' = updating => DoneUpTo(staged.pending)'
      BY <2>1, <2>2, <2>3, <2>4 DEF DoneUpTo
    <3> QED
      BY <2>1, <2>3, <3>1, <3>2 DEF PendingDone, Confirms, DoneUpTo
  <2>7. NumbersDone'
    BY <1>0, <2>1, <2>3, <2>4 DEF NumbersDone, DoneUpTo
  <2>8. UpgradeWaits' /\ ConfigWaits'
    BY <1>0, <2>1, <2>3, <2>4 DEF UpgradeWaits, ConfigWaits, DoneUpTo
  <2> QED
    BY <2>5, <2>6, <2>7, <2>8 DEF DoneInv
<1> QED
  BY <1>1, <1>2, <1>3, <1>4, <1>5, <1>6, <1>7, <1>8, <1>9, <1>10, <1>11, <1>12, <1>14, <1>15,
     <1>16, <1>17, <1>18 DEF Next, Round, Upgrade, Wake

(* An upgrade that was confirmed without its version stays confirmed.       *)
LEMMA MisledStays ==
  ASSUME Flags, [Next]_vars, misled
  PROVE  misled'
<1> USE DEF vars, cloud
<1>1. CASE Round
  BY <1>1, Zenon DEF Round, SleepEnds, Ready, NotIdentified, Dispatch, ApplyConfig,
     perform_config_update, RemoveConfig, Report, PollFails, PollAnswered, Hear, handle_response,
     ResponseError, Save, RunUpdates, RunConfig
<1>2. CASE Upgrade \/ Reboot \/ Wake \/ Restart \/ PowerCycle \/ UNCHANGED vars
  BY <1>2, Zenon DEF Upgrade, Wake, UpgradeFails, UpgradeReboots, Reboot, WakeKills, WakeRestarts,
     Restart, PowerCycle
<1>3. CASE \E reason \in Reasons : WakeUp(reason)
  BY <1>3, Zenon DEF WakeUp
<1> QED
  BY <1>1, <1>2, <1>3 DEF Next

(* Whatever number has reached the cloud, the actions up to it are done,    *)
(* for any number of actions of any kind, any restarts, reboots and         *)
(* wake-ups, up to a round that confirms an upgrade whose version does not  *)
(* run.                                                                     *)
THEOREM ReportedWasDoneCorrect == Spec => []ReportedWasDone
<1> DEFINE Inv == ~misled => DoneInv
<1>1. Init => Inv
  BY CloudAssumption DEF Init, DoneInv, LayersAgree, PendingDone, Confirms, SeqBehind, Behind,
     RoundPending, UpgradeWaits, UpgradeRuns, NumbersDone, AnswerIsNext, ConfigWaits, DoneUpTo,
     NoOptions, Indices
<1>2. TypeInv /\ TypeInv' /\ Inv /\ [Next]_vars => Inv'
  BY DoneInvKept, MisledStays DEF TypeInv
<1>3. Inv => ReportedWasDone
  BY DEF DoneInv, NumbersDone, ReportedWasDone
<1> QED
  BY <1>1, <1>2, <1>3, TypeInvCorrect, PTL DEF Spec
=============================================================================
