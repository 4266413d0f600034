# Verification of the Speedway router software

TLA+ models of the repository's own software: a cellular router built on
OpenWrt with a Quectel modem. The models are written from the code under `src/`,
checked with TLC on small instances, and proved with TLAPS where a result
should hold for every size. `PROJECT.json` lists runs, mutants, findings,
hazards and theorems, and maps each definition to the lines it models.

Paths below are relative to `src/`; `cm/` stands for
`package/atel/quectel_cm/src/`.

## 1. Inventory

| Component | State | Operations | Talks to |
|---|---|---|---|
| QMI rendezvous, `cm/QMIThread.c`, `cm/QmiWwanCM.c` | `s_pRequest`, `s_pResponse`, transaction id counters, device handle, `wait_for_request_quit` | `QmiThreadSendQMITimeout`, `QmiThreadRecvQMI`, reader thread, quit sequence | modem (messages), dial loop (socket pair) |
| Dial loop, `cm/main.c` | attachment, connection status, call handle, address, link, back-off, alarm, two queues | start, check, stop, five device events | rendezvous (requests), udhcpc, init system |
| QMI proxy, `cm/quectel-qmi-proxy.c` | connections, client ids, queue of control requests | accept, hang-up, read, answer, indication, start, restart | several connection managers, modem |
| Cloud poll, `files/sbin/cloud-check.sh`, `wakeup-cloud.sh`, its service | script variables, staged and committed uci options, waiting upgrade and configuration | poll, answer, actions, upgrade, configuration, wake-up | cloud (HTTP), uci, reboot |
| GPS relay, `build/nextivity-files/speedway-gpsd/speedgpsd.c` | 16 hosts, 32 clients, serial port, last messages | accept, read a burst, send, reconnect | serial port, TCP/UDP peers, status files |
| Mode monitor, `files/sbin/awc-mode-monitor.sh`, `awc-set-mode.sh`, `passthrough.sh`, `files/lib/netifd/proto/qmi.sh` | flag files in `/tmp/nextivity`, uci, addresses and routes | switch mode, restart the connection, follow the modem's address | netifd, quectel-CM, dnsmasq |
| MBIM connection manager, `cm/mbim-cm.c` | command in progress, four states of the modem, two mutexes, interface | open, query, attach, connect, indications, shutdown | modem (messages), interface |
| GobiNet back end, `cm/GobiNetCM.c` | as the rendezvous, for another driver | same | modem |
| LCD interface, CGI handlers, status and Wi-Fi scripts, libraries | little of their own | display, print, configure | files, ubus |

What is hard in them:

* two threads, a mutex, a condition variable and two socket pairs in quectel-CM,
  with late answers, timeouts, signals and a modem that resets or is unplugged;
* a dial loop that asks the modem several questions in a row while the answers
  change, with events that are lost or late;
* a proxy that matches answers by order, while clients come and go;
* a shell script that can be restarted, and a device that can be rebooted,
  between any two commands, and that must not tell the cloud what it has not done;
* a relay in one thread whose reads and writes block, between peers that come, go
  and stop reading, and a line that loses bytes;
* three scripts that start and stop one connection manager and share files and an
  interface without a lock;
* an MBIM manager whose two threads write the same states without a lock.

What makes each of them correct: a caller gets the answer to its own request and
is never left waiting; link, address and call agree, and a lost call is dialled
again; an answer goes to the client that asked; the cloud is told of exactly
what was done, and hears of everything in the end; a damaged sentence or a failing
peer costs no other its data; there is one connection manager, and the connection
comes back.

## 2. Modules

| Module | Models | Composes |
|---|---|---|
| `QmiThread` | the two threads of quectel-CM and what they share | rendezvous, reader thread, signal handler, and the frame of `qmi_main` |
| `QmiCall` | what a call promises, without threads, locks and ids | abstract; `QmiThread` and `MbimCm` implement it |
| `QmiThreadProofs` | theorems about `QmiThread`, the refinement among them | |
| `QmiDial` | the dial loop and the modem's call | `qmi_main`, its requests, the modem |
| `QmiDialProofs` | theorems about `QmiDial` | |
| `CloudCheck` | the cloud poll | script, wake-up script, service, uci, cloud, upgrade |
| `CloudCheckProofs` | theorems about `CloudCheck` | |
| `QmiProxy` | the proxy | proxy loop, clients, modem |
| `QmiProxyProofs` | theorems about `QmiProxy` | |
| `GpsRelay` | the GPS relay | main loop, parser, clients, hosts, serial port, descriptors |
| `GpsRelayProofs` | theorems about `GpsRelay`, its parser included | |
| `ModeMonitor` | passthrough mode and the restarts of the connection | monitor, `passthrough.sh`, `qmi.sh`, hotplug, netifd, quectel-CM from outside |
| `ModeMonitorProofs` | theorems about `ModeMonitor` | |
| `MbimCm` | the MBIM connection manager | main thread, reader thread, signal handler, modem |
| `MbimCmProofs` | theorems about `MbimCm`, the refinement among them | |
| `MC...` | small instances for TLC | |

Names follow the code. A definition whose name ends in what it omits
(`cleanup_qmi_connectionKeepsIds`) and whose comment begins with "Mutant" is a
deliberately wrong version of the definition below it; it shows that a property
can fail, and nothing else uses it.

### QmiThread

`pc` is where the main thread is: between two requests, asking for `s_commandmutex`
(`lock`), registering and writing a request with the mutex held, waiting on the
condition variable (`wait`), woken (`signalled`) or timed out (`expired`) and about to
take the mutex again, in the poll of `qmi_main` or in the handling of what it found,
joining the reader thread, asleep during a modem reset, or ended. `tpc` is
where the reader thread is: polling, inside the write of an event with the mutex
held, or in one of the steps of its quit sequence. `QmiThreadRecvQMI` is one
step, because it runs with the mutex held, unless it writes an event to a
socket that may be full: that blocks, and is a step of its own. `SendBegin`
composes a request and registers it; `SendWritten`, `SendNoRoom` and
`SendFailed` are the outcomes of the write; `CondTimeout` and `CondSpurious` end
the wait; `SendReturn` and `SendTimedOut` are the code behind it.

`signals` and `events` are the two socket pairs `qmi_main` polls, and `revents` is
what the last poll found readable. The loop handles the signal socket first and
then the event socket, one message of each, and only of sockets that poll found
(main.c:575-590): a signal that arrives after the poll, or behind another one, is
not seen before the event is handled. `MainRestart` opens the device again after a
reset; `MainRestartFails` and `MainInitFails` are the error returns on that way.

A message is its client, its transaction id and the number of the call it
belongs to. The code never sees the last one: `is_response` compares the first
two. Transaction ids wrap at `MaxTid`. `Lag` is an assumption about the modem: it
answers or drops a request before `Lag` more have been sent, with `Lag <
MaxTid`. Without it, an answer that is 255 control requests late would be
taken for another one, and no code in the repository prevents it. `IndTids` is a
second one: `QMIThread.c:743` compares every message with the registered request,
indications too, and the modem is assumed to give these ids that no request has (0
in the runs; the code's counters start at 1).

### QmiDial

Every request to the modem is a step, and the modem may drop the call, change
its address, attach, detach, reset or disappear between any two of them. A
request ends "ok", "err" or "null": the last is a result of 0 without an
answer (QMIThread.c:120-146), which the callers take for success. Of the two
deadlines only the fact that they lie ahead is kept. The configuration is the one
`qmi.sh` starts: one IPv4 call, no `-l`, a raw-IP modem.

`calm` is a history variable: no disturbance and no missing answer since the
last check began. `LinkIsCurrent` speaks about those checks only, because between
a disturbance and the next check the loop cannot know.

### CloudCheck

uci has two layers, `staged` (what `uci get` sees) and `flash` (what survives a
reboot). The number of the last action carried out is in the script variable
`action_sequence`, in an option of each layer, and, with an upgrade under way, in
`action_sequence_pending`. The cloud's actions are "simple" (those that change options),
"reboot", "factory", "config" and "software". `done` records what was really carried out, and
`seen` the highest number the cloud was told. `misled` is a history variable: a round has
confirmed a pending upgrade although the version that runs is not the expected one.
All five kinds are in both runs. A configuration is applied, counted and its file removed
in three steps (`perform_config_update`, `RemoveConfig`), with a restart possible between
any two. The cloud, `update-check.sh` and
`jsontouci.sh` are not in the repository and are modelled from how the script
uses them.

### QmiProxy

The queue of control requests has its head at the modem. `sock[fd]` is what a
client has written and the proxy has not read: a read takes all of it, and more
than one request in it fails the length test and is dropped. `modem` holds the
control requests the modem has not answered, in order; it answers or drops
them, and it sends control messages nobody asked for. Descriptors are reused. An
`accept` that fails is stored as a connection with descriptor -1 (`NoFd`), which poll
never reports.

`orderly` is a history variable. It becomes FALSE when queue and modem
get out of step, for one of the reasons the code does not guard against:
a lost write, a request never answered, a control message unasked for (which makes
`recv_qmi` write the head again), a connection closed while its request is at the
modem or while it has several in the queue, and a request written while an answer to
`qmi_proxy_init` is due. The properties are about orderly states: they show
that nothing else breaks the matching, and section 6 says what happens after
each of these events.

### QmiCall

A call is new, then sent, then over. The modem holds requests, told apart by
identity; it answers, forgets or loses them. A call returns the answer to its own
request or none. `QmiThread` maps `pc` to the phase, `s_pResponse` to the reply and
everything on its way to or from the modem to what the modem holds; `MbimCm` does
the same with `stage` and `mbim_pResponse`. Both show that an answer that comes
after its call has returned never reaches a later one: with counters that wrap
in the first, with ids that start again at every open in the second, which
works because a command that fails ends the loop.

### GpsRelay

Text is abstracted to marks, so that a burst is a sequence of sentence starts and
ends, with a right checksum, one that is right and below 0x10 (`"*0"`), or a wrong
one: `"%2X"` prints a blank for the leading zero, so that `ChecksumPasses` refuses
the second as it does the third. `ParseStep` is one turn of `parseGPSBuffer`'s loop. The
kernel's table of descriptors (`fd`) hands out the lowest free number, as
`accept` and `socket` do, so that a number that was kept too long belongs to
somebody else. Times are kept as differences to `now`, which is read before the
burst is waited for. A write to a peer that does not read blocks: the action is
not enabled. `got` is a history variable: what this pass has written to.

### ModeMonitor

Each script has its own program counter (`mpc`, `qpc`) with a step between any two
commands that look at or change what others change too. quectel-CM is "none",
"dial" or "up" as the scripts see it, plus the processes that were told to end
and have not yet: `pidof` finds those as well. `quectel_cm_start` makes that test, and
`CmLaunched` is the launch, a step of its own behind two uci reads: in between processes
end, crash and are killed, and netifd may stop the setup. Switching the mode off (`MonitorOff`) and restarting the interface are
two steps as well. netifd (`ifdown`, `ifup`,
`proto_set_available`) is external and modelled from how the scripts use it:
a restart stops a setup script halfway. The tests made every 15 s and 5 s are
due or not due at each pass.

### MbimCm

`pc` is the command or the test of `mbim_main`, `stage` is where
`mbim_send_command` is. The reader thread takes both mutexes; the main thread's
handler takes `mbim_state_mutex`. `held` and `rx` are the commands at the modem and
what it has sent, in order. The modem starts in any state in which a call needs packet
service, that a network and that a SIM; it may have a call when it is opened, and keep it over a
lost open state. It may answer with a status and no information ("failed"), which
`mbim_check_err` lets pass (mbim-cm.c:1281-1286) and its callers ignore; these
answers count in `MaxChanges`. A NOT_OPENED error is shorter than the answer the
code reads, so the fields behind it have any value. `overtaken` is a history
variable: an indication was handled while an older answer waited to be used.
Ids come back after `MaxTid`, never as 0 (the code's counter would be 0 after 2^32
commands without a new open).

## 3. Runs

All runs finish within three minutes with two workers.

| Run | Checks | Bounds |
|---|---|---|
| `qmi_thread` | `TypeOK`, `AnswerBelongsToCall`, `RegisteredIsLive`, `NoOrphanWaiter`, `ImplementsQmiCall` | control client and one service, counters that wrap after 2, three service calls and one control call, one indication, two events in the socket |
| `qmi_thread_live` | `StopReleasesCaller`, `ShutdownCompletes`, `CallReturns` | one call per counter, two indications, an event socket that one event fills |
| `qmi_thread_signal_lost` | `SignalQuits`, violated | one call per counter, one indication, three events in the socket |
| `qmi_dial` | `TypeOK`, `LinkIsCurrent`, `DropNoticed`, `DialsAgain` | two addresses, one signal and one event waiting, a table of two delays, reboot after three dials |
| `qmi_dial_backoff` | `BackoffFromTable`, violated | the source's table and its reboot after five dials |
| `cloud` | `TypeOK`, `ReportedWasDone` | two actions of all five kinds, two restarts, one wake-up |
| `cloud_live` | `EverythingReported` | two actions of all five kinds, one restart |
| `cloud_skipped` | `NoActionSkipped`, violated | two actions, no restart |
| `proxy` | `TypeOK`, `AnswerIsForHead`, `IdHasOneOwner`, `QueueMoves` | two descriptors and accepts that fail, two client ids, four requests, two requests at the modem, one repeated initialization |
| `gps` | `TypeOK`, `ParsedBurst`, `DescriptorHasOneOwner`, `NoDescriptorLeak`, `FixReachesClients`, `BacklogMoves`, `HostServed` | three clients for two slots, an internal and a TCP host, three bursts, two faults |
| `monitor` | `TypeOK`, `OneManager`, `NoteRemoved`, `ConnectionComesBack` | two mobile and two LAN addresses, two changes, one respawn |
| `mbim` | `TypeOK`, `LinkFollowsCall`, `ImplementsQmiCall`, `HangupEnds`, `Redials` | three ids, one change that nobody asked for, every answer to a connect |

Why the bounds are enough:

* `qmi_thread`: three calls with counters of width 2 are the least number with
  which an id is used again while answers of earlier calls are still due. The
  theorems remove the bound altogether.
* `qmi_thread_live`: one event fills the socket, so that every second indication, and
  the reader thread's own DISCONNECTED, finds it full at some step of the main thread.
  Where that holds a thread for ever the properties say so: `[]ReaderBlocked` and
  `[]HoldsMutex` are their only exceptions; without them TLC finds the blocked write
  (section 6).
* `qmi_dial`: two addresses tell a stale one from the current one; a signal and an
  event waiting together let a check overtake the event of the same drop; two delays and
  `LongWords = 2` reach the end of the table, the words behind it, and the last delay.
* `cloud`: two actions with two restarts reach an action, a restart before its
  commit, its repetition and a later action. An upgrade is confirmed by its pending number
  whether or not it has started (section 6). That confirmation is the one exception of
  `ReportedWasDone`, and the only way to the second half of `EverythingReported`
  without all actions done.
* `proxy`: two clients, of which one can close and its descriptor be reused
  while the other waits, and four requests, so that three can be queued and one
  follow after a close. `AnswerIsForHead` is also proved without bounds.
* `gps`: more clients than slots, so that one is refused and takes the place of one
  that failed; two faults, so that a peer fails while another is full or a
  descriptor is being reused. The long burst has a sentence without end, a damaged
  one and more sentences than the array (cut to two) takes.
* `monitor`: two changes are a lost modem or a crash while a setup, a
  restart or a change of address is under way. Two addresses of each kind tell a stale
  one from the current one.
* `mbim`: timeouts, refused connects and failing writes are not counted as
  changes, so one change meets each of them at every step. The invariants
  and the refinement also hold with two changes (10 million states;
  too large for the liveness properties).

The three violations are disagreements between the code and what its own
comments or messages say; PROJECT.json quotes them under "findings".

1. A SIGTERM during a modem reset, or whose message is still unread when the loop comes
   to the reset, is lost (`main.c:767`).
2. The back-off reads behind its table (`main.c:646`). To get there, calls must
   come up after their dial timed out: that clears `CheckSimFail`, which would
   otherwise reboot the modem after five failures, but not `SetupCallFail`.
3. An upgrade that does not start, a failed poll and a second attempt make the
   device report one action more than it was given (`cloud-check.sh:586`).

## 4. Fairness

* `QmiThread`: `SchedulerFairness` says that both threads run. A step that needs
  nothing from the other thread is weakly fair (`MainGoesOn`, and the reader's control
  socket and quit sequence). One that needs the mutex (`MainLocks`, `ThreadTick`,
  `ThreadRelease`) is strongly fair, because the mutex is taken and released again and
  again; the mutex of the C library is not strictly fair, but both holders leave it for
  long waits in poll and in the condition variable. Nothing is assumed of the modem, of
  spurious wake-ups or of signals. The timeout of a wait is assumed only in
  `CallReturns` and for `SignalQuits`; `StopReleasesCaller` and `ShutdownCompletes`
  hold without it.
* `QmiDial`: the loop runs and time passes. Of the modem: a status query is
  answered now and then (strong fairness: a modem that never answers cannot be
  served by any loop), and the environment comes to rest. The latter is needed
  because the loop's own check is started by 15 s of silence on its queues
  (`poll` with a timeout), which an endless stream of events prevents.
* `CloudCheck`: the script keeps running; polls, configurations, upgrades, and the
  handling and the saving of each answer succeed time and again (strong
  fairness), never always. Without the success of an upgrade the device would rightly
  try for ever; without that of each answer a "reboot" that always comes before the commit
  would be repeated for ever (`reboot` returns at once and the
  system takes its time to go down, so the script usually gets as far as the commit).
* `QmiProxy`: the loop reads what is there, the modem answers the request it has
  (`ModemDrops` is the exception, and leaves the orderly states), and main goes
  on. Clients are not fair: they need not write, read or close.
* `GpsRelay`: the process runs, the clock advances, the receiver sends a burst with a
  fix now and then, and peers that do not read do so in the end: the code's writes
  have no timeout, so with a peer that never reads nothing can be promised.
* `ModeMonitor`: scripts run, their periodic checks come round, processes told to
  end do, the modem comes back, and quectel-CM connects if it is left alone
  often enough (`qmi.sh` kills it after 20 s without an address).
* `MbimCm`: both threads run and waits end at their timeouts. The reader's steps
  are strongly fair, because the main thread sleeps at least a second between
  two uses of a mutex. The modem may leave commands unanswered; it does not
  refuse connections and attachments for ever, and answers without information are
  bounded by `MaxChanges`.

## 5. Proofs

The constants are arbitrary, within the named assumptions of the modules. Every
invariant and both refinements that a passing run checks are also theorems. The
inductive invariants below were first given to TLC as invariants on the
instances of the runs.

`QmiThreadProofs`, for every set of service clients, counter width, lag below
that width, set of ids for indications outside of the counters' range, and bound:

* `TypeCorrect`, `AnswerCorrect`, `RegisteredCorrect`, `NoOrphanCorrect`: the four
  invariants of run `qmi_thread`.
* `Refinement`: `QmiThread` implements `QmiCall`. Lemmas `CallerRefines`,
  `ReaderRefines` and `MainRefines` map every step of the main thread, the reader
  thread and the frame of `qmi_main` to a step of the abstract call or to a stutter; the
  answer step needs `TidInv` and `SlotInv`, which say that what is accepted and stored
  belongs to the last call.
* The inductive invariant is `TypeOK /\ TidInv /\ SlotInv /\ QuitInv`.
  `AnswerBelongsToCall` is not inductive: nothing in it keeps an old answer from
  matching a new request. `TidInv` says that each request at the modem lies in
  the window of the last `Lag` calls, so that its distance in transaction ids is its distance in
  calls, up to one turn of the counter. Lemma `WindowIsUnambiguous` concludes that an
  answer `is_response` accepts is the answer; `IndAssumption` concludes the same of
  indications, which it never accepts. `SlotInv` says that only the last
  call is ever registered or stored, and `QuitInv` relates the quit sequence to
  the device handle that a new call tests.

`QmiProxyProofs`, for every set of descriptors and client ids and any bounds:

* `TypeCorrect`, `AnswerIsForHeadCorrect` and `IdHasOneOwnerCorrect`: its three
  invariants.
* The inductive invariant of the first two adds to `AnswerIsForHead` what an answer and a close
  need: every queued request, not only the head, belongs to an open connection
  (`QueueOpen`), only a server has a queue (`QueueServed`), and unread requests
  name the connection they were written to (`SockOwn`). Lemma `RemoveAtFacts`
  says what is left of the queue when a message is removed, and `SenderIsReal` that
  nothing comes from a connection whose accept failed.
* `IdHasOneOwner` needs a second one, `IdInv`: the modem forgets an id when it works on a
  release, whoever holds the id by then. So a connection with a release on its
  way still has the id (`ReleasesOwned`), which holds because no id is
  released by two requests that are on their way (`ReleasedOnce`), and because answers that come
  while the queue is empty are those of `qmi_proxy_init` (`OnlyLate`).

`QmiDialProofs`, for every table of delays, number of addresses and length of the
queues: `TypeCorrect` and `LinkIsCurrentCorrect`. `LinkIsCurrent` speaks about the
time between two rounds only. `CalmInv` carries it through a round: from the step
that has compared the addresses on, the link is up with the call's
address at every place where the loop can be while it is calm, and a dial is never calm.

`CloudCheckProofs`, for any number of actions, restarts, reboots and wake-ups:

* `TypeCorrect`. `TypeOK` needs that a configuration is applied only while its file is there.
* `ReportedWasDoneCorrect`, for all kinds of actions, upgrades included, up to the round
  that sets `misled`. The exception cannot be dropped: section 6 shows an upgrade that did
  not start and is reported as done. `DoneInv` says that every copy of the number (the
  script's, the staged one, the one in flash and the reported one) is safe to report,
  whichever of them a restart or a reboot brings back (`NumbersDone`, `LayersAgree`); that a
  pending number is safe once the version expected with it runs (`PendingDone`); that no
  round gets past an upgrade that runs or waits (`UpgradeRuns`, `UpgradeWaits`), so that it
  stays the next action after all that is done; and the same of a configuration that
  waits, because nothing is polled for in the meantime (`ConfigWaits`).

`GpsRelayProofs`, for any number of clients, slots and hosts, bursts of any length
and any steps of the clock:

* `TypeCorrect`, `OneOwnerCorrect`, `NoLeakCorrect`, `FixReachesClientsCorrect` and
  `ParsedBurstCorrect`: its five invariants.
* `SockInv` is `DescriptorHasOneOwner` and `NoDescriptorLeak` together: each
  needs the other, since a descriptor is handed out because none of the
  tables has it. Lemma `FreeDescriptor` shows by counting that there
  always is one. `ServedInv` is `FixReachesClients` for the slots the loop has passed.
* `ParsedBurst` is about the number of whole sentences before a place, where whole means a
  right checksum of 0x10 or more; those below are dropped, and the theorem says that this
  costs no other its place. `FoundInv` restates it
  without `Min` and `Max`; lemmas `ParseOutcome` and `ParseStepTypes` say what one
  turn takes and that it passes over no start, and `RankGrows` that one more sentence behind
  the others leaves their ranks alone.

`ModeMonitorProofs`, for any addresses and any number of changes, restarts and lost
signals: `TypeCorrect` and `OneManagerCorrect`. `OneManager` is not inductive: the launch
does not look again whether a process is there. It needs `NoneAtLaunch`: between
`pidof` and the launch no process appears, because only a setup launches one, netifd runs one
setup at a time, and everything else moves a process or ends one.

`MbimCmProofs`, for every counter of at least three ids, all answers to a connect and any
number of changes of the modem:

* `TypeCorrect`, `LinkFollowsCallCorrect` and `Refinement` (`MbimCm` implements `QmiCall`).
* The heart of the invariant is `OutInv`. Ids start from 1 again with every open, so an id does not
  tell old answers from new ones. It does not have to: the command
  in progress is the only one that is out, because one that fails ends the loop. After
  the loop there are at most two more, and three ids in a row differ.
  `ResponseIsCall` concludes that the answer `mbim_recv_command` accepts is the
  answer; `CommandRefines`, `ReaderRefines` and `OthersStutter` map the steps.
* `LinkFollowsCall` needs `LinkInv`, about all that is on its way: what the modem tells of a
  call only falls, from "going" to "up" to "down", until the next connect or open
  (`Falls`); what the threads have noted is never below what is still to come, unless a
  connect was carried out since (`Noted`, `Settled`: an answer without information leaves
  the state that was noted before); an address on its way belongs to a call that is up or whose end is
  behind it in the queue (`Addressing`); and an interface with an address belongs to
  a call that is up or whose end is on its way (`Addressed`).

Only model-checked: the liveness properties (`StopReleasesCaller`,
`ShutdownCompletes`, `CallReturns`, `DropNoticed`, `DialsAgain`, `EverythingReported`,
`QueueMoves`, `BacklogMoves`, `HostServed`, `NoteRemoved`, `ConnectionComesBack`, `HangupEnds`,
`Redials`), because the prover handles neither fairness nor ENABLED. The
properties of the three runs that expect a violation do not hold, so there is nothing
to prove about them.

## 6. What the models show beside the properties

These are behaviours of the code which the models contain, or which were met
while reading it. Some contradict a comment of the code, which is quoted; the passing
properties except them by name where they would meet them.

Dialling:

* `qmidevice_send_event_to_main` writes a blocking socket with `s_commandmutex` held
  (main.c:197, QMIThread.c:751-762). Once the socket is full of events the main
  thread has not read, a main thread in a call cannot return from it, not at its
  timeout either, and the SIG_EVENT_STOP of line 318 ("main may be wating qmi response")
  is never read. The kernel's socket takes a few hundred events; the model's, one.

* A result of 0 without an answer is taken for success (QMIThread.c:120-146).
* `requestSetupDataCall` returns a code read from an answer it has freed
  (QMIThread.c:2519); the model lets it return either value.
* `CheckSimFail` counts queued starts and may reboot a modem whose call has just
  come up (main.c:599).
* A modem reset marks the link down without stopping udhcpc (main.c:767 ff.).
* `PSAttachedState` is uninitialised when the first `requestRegistrationState`
  fails, stale when a later one fails, and 0 when only its second request fails;
  nothing asks again until the next event.
* A restarted process that finds the old call up brings the link up without an
  address query.
* A failed address query stops a good call (main.c:670).
* A check that overtakes the event of a drop dials at once; the event then
  meets a call that is up again (main.c:751).

Cloud:

* A UUID is lost when the query after its assignment fails; every later first
  query is answered 403 (cloud-check.sh:1205-1209).
* A report is taken back after an answer that could not be carried out (1372).
* An upgrade that did not start is reported as done (1065, 1110).
* An upgrade is installed in the round that receives it although
  `auto_firmware` is off (1434; compare 1076).
* A wake-up that has to restart the script loses its reason (wakeup-cloud.sh:40).
* The factory reset tests `noaction` the wrong way round (1359): it is never done
  outside of a dry run.
* A configuration that is still waiting when the script starts sets the number of
  actions carried out to 1: `perform_config_update` adds 1 to a variable that is unset
  in the first round (611; compare 575-577).
* `messasge_err` (1002) is not a command; with `sh -e` it ends the script.

Proxy:

* The answer to the request of a departed client goes to the next one in the
  queue, with the client id it carries.
* A control message that is not an answer makes the proxy write the head again,
  and the second answer is taken for that of the next request.
* Further messages of a closed connection stay in the queue: the head is then
  not written, and the queue waits until a control message arrives.
* Requests that arrive in one read are dropped.
* Client ids of a closed connection are never released at the modem.
* The indication that revokes client ids is looked for among answers only, so
  `modem_reset_flag` is never set.
* The server is started although all repetitions of `qmi_proxy_init` failed,
  while the comment in main asks for success.
* The package's Makefile builds the proxy and does not install it (line 42 is
  commented out).

GPS relay:

* After a read error it says that it is reopening the port (speedgpsd.c:1862), but the
  loop at 1840 is never left: it goes on reading the failed file without a pause, and
  serves nobody. `HostServed` excepts this case; without the exception TLC
  finds it at once.
* `now` is read before the read of a burst, which may block for long: rates and
  retries are measured from then.
* `"%2X"` (1381, "Check the checksum value") prints checksums below 0x10 with a blank
  instead of the zero: such sentences are dropped, 16 of the 128 possible values.
  `updateChecksumStr` writes the same with `"%02X"` (455).
* Clients get the newest GGA sentence only, although line 1923 says all data.
* A TAIP host counts as served when there was no fix, and an internal datagram that
  nobody received counts as sent (649-654).
* A peer that does not read stops all others; accepting and reconnecting also
  wait while the receiver is silent.
* The number of hosts in the settings is not bounded (1698).

Mode monitor:

* Line 126 says that passthrough is reloaded when "the modem has got new IP", but the
  address it compares, `bridge_ipv4`, is written by `passthrough.sh` alone: a new
  address is never noticed, and the mode stays on for the old one. When the LAN
  address changes as well, `mobile_ip` stays the old one and the mode is switched off
  and on for ever.
* The APN is compared with the monitor's own first read (line 22), not with the one
  quectel-CM was started with: one that is set between that start and the
  first read, or set and set back around a restart, is never used.
* `passthrough.sh` returning 1 ends the monitor, whose restart clears
  `passthrough_is_switched`: a later LAN change can then hand the spare LAN address of
  wwan0 to the client as if it were the mobile one. procd gives up after five such ends.
* A process on its way out is found by `pidof` and none is started; the 15 s
  check repairs it.
* The hotplug script's `proto_set_available 1` may come before the one with 0 of a
  setup that found no modem: the interface stays unavailable, its note stays, and
  a monitor that starts then waits for ever in a loop without a sleep (lines 12-16).
* Nothing sets the driver's `bridge_mode`.

MBIM:

* An answer that is used after a later indication undoes it: the state of the
  call is wrong until the next indication, and nobody redials.
* A modem that has a call when it is opened, or keeps one over a lost open state, answers
  the query with "Activated": the loop waits, and sets no address while that call lasts
  (1732-1746). The same follows when the modem refuses the address query of a call
  that is up (1555). `Redials` excepts both by name (`CallWithoutAddress`).
* A connect that is answered "Activating" is neither tried again nor
  followed by an address, although line 1748 says "retry call mbim_set_connect 30 seconds
  later". `Redials` excepts this too.
* A change that comes between the decision to sleep and the sleep does not wake
  the loop; it is acted on after up to 24 hours.
* A modem that loses its open state while connected is not noticed until another
  command is sent.
* The signal handler locks a mutex the main thread may hold, and hangs.
* `pthread_kill` and `pthread_join` use `read_tid` after the thread may have set it
  to 0; and a signal that comes while the thread is not in poll does not end it.
* The error NOT_OPENED has 16 bytes; `InformationBufferLength` is read behind them.

## 7. What is not modelled

Within the modelled parts: the IPv6 branch and the change between PAP and CHAP
of the dial loop, its start-up requests, what udhcpc does to interfaces; the
modem and configuration reports of the cloud poll, the status file, the length
of sleeps; in the proxy, service messages (routed without state), SIGINT, the
limit of 64 polled connections, the search for the device; in the relay, the
texts, the status files and the thread that answers on the status socket; in the
mode monitor, routes other than the default one, name servers, LEDs, Wi-Fi and
`awc-set-mode.sh`, which reboots; in the MBIM manager, IPv6, options and the
commands that change the interface.

Left out altogether, with reasons in PROJECT.json: the GobiNet back end (not used
on this device, and close to the reader thread of `QmiThread`), bridge helpers,
device search, DHCP start, LCD interface, CGI handlers, status, Wi-Fi and reset
scripts, libraries, LuCI, and OpenWrt itself.

## 8. Plan

Done: the rendezvous, the dial loop, the cloud poll, the proxy, the GPS relay, the mode
monitor and the MBIM manager, with proofs of all their invariants and of the two
refinements of `QmiCall`.

Next, in this order:

1. `QmiDial` with the IPv6 call and the authentication change.
2. `failover.sh` with the mode monitor, and the proxy against an abstract channel per
   client.
