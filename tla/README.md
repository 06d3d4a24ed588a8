# Coding Pet: TLA+ models and proofs

Coding Pet shows one desktop pet per running coding agent. A daemon watches agent processes and
tmux panes, keeps a registry of sessions, writes it to `state.json`, raises alerts, and
streams changes to a widget over a Unix socket. This directory holds TLA+ modules of the daemon's
logic, the TLC runs that check them and theorems that TLAPS proves about them. Paths below are
relative to the repository; `coding_pet/` stands for `src/coding_pet/`.

## The system

| Component | State it keeps | Operations | Talks to | What makes it correct |
|---|---|---|---|---|
| `daemon/session_registry.py` | sessions by id, subscribers | upsert, mark_read, remove, list, get | awaits every subscriber of a change | a change is seen by all subscribers, the caller gets control back |
| `daemon/manager.py` | monitor tasks, control channels, cleanup timers, states last seen, alert times | react to a change, start/stop a monitor, restore, route an action | registry, state store, notifier, monitors | memory and timers follow the registry; alerts are news and spaced; completed pets go, after their window |
| `state_store.py` | `state.json` | atomic write in a thread, restore | manager | the file is the last registry; restored sessions are inactive |
| `daemon/monitor.py`, `daemon/app.py` | loop position, stall flag | read lines, stall, exit, orderly stop | process, registry | a live session is watched; a stop ends the process; an exit is reported once |
| `daemon/tmux_monitor.py`, `tmux/` | known sessions, previous snapshots | poll panes, send input | tmux, registry, manager's channels, transcripts | pane alive if and only if session live, in the end; no update of another writer is lost |
| `daemon/action_router.py` | none | validate and dispatch an action | registry, manager's channels | an action is answered once, with what really happened |
| `hooks.py`, `daemon/runtime.py` | start-up and shutdown phase | hook event, start, stop | all of the above | restore before serve; last snapshot before exit |
| `ipc/server.py` | connected writers | snapshot, broadcast, requests | registry, clients | a client's copy converges to the registry; a change returns whatever clients do |
| `gui/app.py`, `gui/widget.py`, `gui/detail_popup.py` | pets, last action result, transcripts | apply a daemon message, open a popup, ask | IPC | pets are the sessions of the daemon |
| `transcripts/store.py`, `tmux/capture.py` | SQLite table | append, prune, recent; what a snapshot adds | tmux monitor, IPC | no output twice, none lost, the newest kept |
| `cli.py`: clients | none | send an action, run a widget | IPC | a command ends, with what happened |
| `cli.py`: evidence | a directory of reports | bundle, collect, check | the host, tmux, the daemon | what the bundle says the check says |
| `cli.py`: pets, `gui/theme.py` | staging directory, pets root, `service.env`, QA directory | download, import, select, report | Petdex, the file system | the selected pet is there, reports are true |
| `classifiers/`, `daemon/classifier.py` | none | state of a snapshot or line | monitors | the latest signal wins |
| `agents/`, `config.py`, `logging.py`, `gui/preview.py` | none | tables, parsing, formatting, drawing | | out of scope |

### What is hard here

Everything in the daemon runs on one asyncio loop, so code between two awaits is atomic and what
goes wrong goes wrong across awaits:

* a change of the registry is `await`ed through `asyncio.gather` over its subscribers. Each is a
  task of its own in the loop's FIFO, and the manager's handler then suspends twice more (the
  thread that writes the file, the notifier). Handlers of two changes overlap, and after each
  await rest on a message that may be old;
* cancellation. A cancelled task raises at the suspension it happens to be in; a gather it
  waits for is cancelled with it, and so are subscriber tasks that have not begun;
* threads. A file write whose waiter was cancelled still happens, later;
* crashes. SIGTERM has no handler. The restore itself writes the file it restores from;
* copies held over an await (tmux polls, tmux input, a transcript that is listed) and time-outs that race
  with the event they wait for (process stop, stall, clients);
* back-pressure. A write to a client never waits, a drain does while that client's buffer is full; who
  waits, and who overtakes whom when it is woken, depends on clients that may never read again;
* commands that write several files, fail or are interrupted between two of them or within one, and
  are run again over what they left.

`PROJECT.json` lists each hazard at its line, with the properties that cover it.

## The modules

### SessionModel

The shared vocabulary from `models.py`: attention states, their priority, the alert states and
the action tuples.

### MonitorManager

The core: registry, manager, state file, broadcast and the life of the daemon's process.

| Variable | In the code |
|---|---|
| `registry` | `SessionRegistry._sessions`; of a status: state, live, last_event_at |
| `ready` | the subscriber tasks of gathers that have not run, in the loop's FIFO order |
| `call` | per writer, the gather it awaits: how far the handler got, whether the broadcast is due, the snapshot handed to the thread |
| `orphanWrites` | writes going on in threads though their task was cancelled |
| `disk` | `state.json` |
| `cleanup`, `lastSeen`, `lastNotifiedAt`, `completedNotified` | the manager's dictionaries of the same meaning |
| `view` | what a client connected since start-up has been sent |
| `mode`, `image`, `skipped` | where `DaemonRuntime.start`/`stop` and `restore_from_store` are |
| `alertedAt`, `owed` | history, for the properties only |
| `filed`, `recalled`, `crossed` | history: whether the file, and the memory of each session, has been told the registry's last change, an older one after it, or lost it by a cancellation; alerts that met their like at the notifier |

A **writer** is any task that changes the registry: a process monitor, the tmux poll, a client's
task with a hook event or an action. Each has one change in flight. The cleanup task of a session
is an owner of changes too, so it can be cancelled while it waits for its own removal. The
order in which the two subscribers of a change enter the FIFO is the iteration order of a Python
set of bound methods: fixed within a process, either way round, chosen at `Start`.

`HandleUpdated` and `HandleRemoved` run a handler up to its file write, `WriteSnapshot` is the
thread, `ReactToUpdated` the code from there to the notifier, `Notified` what follows it;
`Broadcast` is the other subscriber. `RemoveCompleted` is the end of a cleanup task's sleep.
`Crash` may come at any step; `BeginStop`, `SaveLast`, `SavedLast`, `Exit` are the orderly
shutdown. `Upsert` takes any state and liveness a writer may report: the modules below say which.

### ProcessMonitor

One process-launched session with the processes launched for it in turn (`Launch`), the `MonitorTask` of each and
the manager's `start_session`/`stop_session`. `monitor[r].phase` is the suspension where the monitor is, so that
`Unwound` can say what a cancellation does there: inside the `try` it leads to terminate, wait, kill, wait, mark;
in the first upsert, or in the wait for the exit in `finally`, nothing handles it and the run is "dropped".
`MayBreak` says what the reader's task holds then: once it has ended, with the end of the output or an error, it
holds an exception, which the stop awaits after the process has ended and does not catch (`StopBreaksOff`); the run
is "unmarked", and the exception is raised once more in whoever awaits the monitor (`StopReturns`, which then
does not begin the next run). Whether a line has a state, when the process ends, who keeps its pipe open and
how long a time-out is, are choices of the environment. `process.wait()` may or may not return before the pipe
closes: asyncio's minor versions differ, and both are allowed.

### TmuxMonitor

The sessions found in tmux. `poll` is where `poll_once` is, with the status it read (`copy`) and
the state it found; `request` is where the input of each client is, from the router through
the thread that pastes to the upsert of the copy; `channel` and `known` are the manager's control
channels and `_known_tmux_sessions`. A poll reads a status (`ReadStatus`), captures (`Capture`, or
`CaptureFails` when the pane has closed since the listing), upserts (`UpsertMatched`) and only then
registers the channel; after the last pane it retires what it knew and did not list
(`MarkDisappeared`) and, if nothing raised, remembers what it listed (`Finish`). `PollFails` ends a poll at
any await with the exception that `run` swallows. Others write meanwhile: hooks and overrides
(`Restate`), `hide_pet` and the timed removal (`Hide`), an orderly restart. Panes change as
tmux lets them: the server exits with the last pane, and without it a listing fails, which leaves
the poll where it was. Whether a capture has new output is not tracked: no property tells it apart.

### SessionMirror and Dashboard

`Dashboard` is the IPC server with its clients: widgets that stay and commands that ask once. `ready` is the event
loop's queue, as far as it holds broadcasts: those of new changes and those that were woken; `waits` are the
broadcasts that wait at each full connection. A broadcast (`Cast`) knows whether it has `begun`, the connections
`left` to it and those it found `dead`; `stream` is what a client has not read, `paused` the connections over
the high-water mark (counted in messages; asyncio counts bytes), `task` is where `_handle_client` is for
each connection. The loop takes the first of `ready` (`CastStep`) and runs it up to the first connection that
is full, or to its end (`GoesOn`). A client that reads wakes everyone who waits for it, in the order in which they
began to, and they go to the *end* of `ready` (`Wake`), behind broadcasts that have not begun; so a newer
one may overtake an older one with connections left. `order` gives each connection its place when a set of them
is iterated; a connection that is added may change all places (`Connect`), as a set that grows may. A request is
served as `SessionActionRouter` does (`Serve`), input to an agent suspends (`Sent`), and a change made by a
client suspends its task until all have been told (`Publish`, `Reply`). A widget applies messages as
`apply_daemon_message` does (`Applied`), may be clicked (`OpenPopup`, `Submit`), close (`Quit`) or leave asyncio for
Qt (`Freeze`, which is what `widget_run` does as soon as it has its first message). A command's life is `Greet`,
`Await`, `TimeOut`; the time-out is one of each message, not of the command, so every broadcast it reads gives
it five more seconds. `news` is history: of the last change of each session, whether a widget was told it, and
whether an older one was written to it after that ("late").

`SessionMirror` is what this amounts to for a widget: its copy only ever holds, of each session, what the
registry once held, and while it is linked it catches up, if the registry ever rests. `WidgetsMirror` says that
`Dashboard` implements it, liveness included, with what the widget was last told (`heard`) as the copy; a widget that
was told an older change after the newest is not linked until the session changes again.

### Files, EvidenceReports and Evidence

`Files` says what a file is whose writing may break off. `EvidenceReports` has no state: it is each report that
`evidence-bundle` makes, as a function of the *probe* it was made of (the host's troubles, the options, the
configuration), and each part of `target-evidence-check`, as the set of errors it finds. A report keeps the
facts it could establish. Some of what the check asks of a report no bundle looks for: the machine, the kernel's
release, absolute paths, the redaction and the limit of the transcript, and more (`BundleMisses`). They are
troubles like the others. `Evidence` is the directory under both commands that write it: `StartBundle`,
`MakeReports` (three groups, between which the host may be set up anew or the command interrupted),
`WriteReport` per file and `WriteSummary`; `StartCollection`, `Verify` per agent and action, `WriteEntries`,
`Merge`. Either may be given a relative directory. `HostChanges` lets troubles of the host come and go, also while it
is looked at. `Interrupt` comes at any step and may tear the file being written.

### PetLibrary

The staging directory (`staged`: archive and sidecar of each slug), the installed pets (`library`),
`service.env` (`settings`) and a QA directory (`qa`). Each command is the steps between
its writes: `StartDownload`, `ReplaceZip`, `WriteSidecar`; `StartBatch` with the `Preflight`, or
`StartImport`, then `Clear` and `Copy` per package; `StartSelect` by name or `StartSelectPath` by the path of a
manifest, which may lie outside the pets root and name any pet, then `WriteSettings`; `StartQa`,
`Validate`, `Render`, `Summarize`. `ImportFails` and `RenderFails` are the errors the code handles, `BreakOff`
is an interruption.

### Transcripts

One tmux session's transcript: `Look`, `CaptureOutput`, `StoreRow`, `TellRow`, `Prune`, `RecordSnapshot` are the
suspensions of `_upsert_matched_pane`; `TakeInput`, `StoreRow`, `TellRow`, `Pasted` those of `_send_input`;
`OpenTranscript`, `ListRows`, `SendRows` those of a transcript request. `NewOutput` is
`new_output_from_snapshot`. `view` counts how often the client shows each row. Lines are numbers in the order of
printing, so no two are alike: what equal lines do to the overlap is not modelled. Rows have distinct
times, one per poll, input or complaint.

### HostFiles

`HostFiles` puts the three side by side. They share no file, so a behaviour belongs to one of them and
the others rest; the composition's one type invariant shows that nothing is written where something else
belongs. `MCHostFiles` gives it pairs of agents and packages.

### Mutants

Beside a definition there may be a *mutant* of it, named so in its comment: the definition as a
plausible bug would have it. `PROJECT.json` says which property then fails.

## The runs

All runs have `CHECK_DEADLOCK FALSE`: the daemon may idle for ever, and clock and inputs are bounded.

| Run | Question | Instance |
|---|---|---|
| `manager_overlap` | What do widget, file, memory, timers and alerts say when two writers overlap in every way? | 1 session, 2 writers, 4 changes, retention and cooldown 1, 1 crash anywhere |
| `manager_liveness` | Do changes return and timers remove? Is a restart quiet? | 1 session, 1 writer, 2 changes, orderly stop and restart |
| `manager_lost_removal` | Does a timed removal reach the widget? No. | 1 session, 2 changes |
| `manager_restart_twice` | Do sessions survive two crashes? No. | 2 sessions, 2 changes, 2 crashes |
| `manager_pet_stays` | Is a completed inactive session removed in the end? No. | 1 session, 2 completions |
| `process_stop` | Overlap of monitors, orderly stop, exit | 2 launches, 1 line, 1 hook |
| `process_exited_stays` | Can an exited session be hidden? No. | 1 launch |
| `tmux_poll` | Do sessions follow their panes, and channels and answers the sessions, while polls, input, failures and a restart overlap? | 2 panes, 1 input, 2 pane changes, 1 failure or restart |
| `tmux_gone_stays` | Is every session without agent inactive in the end? No. | 1 pane |
| `dashboard_clients` | Does a widget to which nothing is on its way show what the registry holds? | 1 session, 1 widget, 1 command, buffers of 1, 1 click, reports without end |
| `dashboard_liveness` | Do widgets mirror the registry, changes return and commands end, whatever connections do? | the same without a click, under fairness |
| `host_files` | Are evidence, pets, settings and transcripts what reports and clients say of them, after whatever failed? | 2 troubles and 3 commands; 2 pets, 4 packages, 2 slugs, 4 commands, 2 mishaps; 3 lines, 4 instants, 1 input, 1 request, 1 fault |

### Bounds, and why they are enough

Overlap needs two changes of the same session in flight; four in all let others land between a handler's two
suspensions, and raise two alerts for one state: a first state, the alert, back, and the alert state again. One
session suffices there because handlers touch other sessions only through the snapshot; `manager_restart_twice`
has two, and the theorems any number. In `manager_overlap` the clock has one tick and retention and cooldown are
one: before and at the end of both. It was also run by hand with three states, two ticks and an orderly stop
(11.7 million states), with the same result. Every exception that its properties make is reached (an alert that
a stop cancels in that second instance). Writers report only up to `LastEvent`, so the clock always gets past
the last window. Two launches show a monitor against its successor; a third would only repeat that. In
`tmux_poll` two panes let the failure of one end a poll that has already dealt with the other, and let the
server go on or exit; two changes close both, or start an agent and end it; one failure, at any await, or one
restart. In the two runs of `Dashboard` a buffer of one message is full after every second one, so every
broadcast can be made to wait, be overtaken and be woken; widget and command are each other's slow neighbour, in
either order. `MaxFlight` is one: others than clients make a change only while no broadcast is in the queue or
waits, but without end, and the changes of clients come on top. That is enough for the overtaking that makes a
widget late. With more in flight a frozen widget could hold up ever more broadcasts, which is why `CommandEnds`
promises nothing then unless the reports end. Two sessions add nothing: a message is about one. In `host_files`
two troubles let a command be interrupted on a troubled host, or a trouble come and go, or an action fail after
one came; three commands are a collection between two bundles, in any order. Four pet commands are a download,
an import, a selection and the import that hits it; two packages of a pet differ in edition and one is unsound.
A window of two of three lines lets a screen continue, overlap in part or not at all; four instants are three
polls and an input. `"failed"` from the screen and `"running"` from an input are the two states a disappearing
pane treats differently.

### Fairness

The loop is FIFO and asyncio runs every ready task, so the head of `ready` is weakly fair, and so are the
resumption of a handler, a thread's write, the notifier's return and the passing of time. Timers are weakly fair
once their delay is over. Nothing is assumed of writers, crashes or shutdowns. In `ProcessMonitor` the monitor's
own steps and time-outs are fair, a killed process ends, and its exit is seen once its pipe is closed. A process
owes nothing else: it may ignore SIGTERM, run for ever, or leave a child that holds the pipe. In `TmuxMonitor`
the poll loop and the threads of inputs go on; clients, panes, failures and restarts owe nothing. In `Dashboard`
the loop runs broadcasts and the tasks of connections, an agent answers an input, a command reads or times out,
and a widget whose loop runs reads. Users and frozen widgets owe nothing; so `ChangesReturn` and `Linked` except
the time while a widget is frozen with its socket open. `ChangesReturn` needs no end of the reports. Nor does
`CommandEnds`, unless a widget is frozen: the command reads on until its answer is there, however often its
time-out begins anew. A command that waits behind a frozen widget gets no answer; then it ends by its time-out,
if the reports end. What may hold it up before it waits for a message is not modelled: the `drain` in
`IpcClient.send` has no time-out, but one request of ordinary length does not fill the buffer. `HostFiles` has
safety properties only.

### What the failing runs show

* `manager_lost_removal`: `_handle_registry_message` cancels the cleanup task whose
  `registry.remove` it is serving (`manager.py:167`). When the handler comes first in the FIFO, the
  cancelled gather drops the broadcast of `session_removed`; the pet stays on screen until the
  next full snapshot.
* `manager_restart_twice`: each upsert of the restore rewrites the file with the sessions restored
  so far (`manager.py:151`). A crash there loses the others.
* `manager_pet_stays`: a session completed again while its timer runs keeps the old timer
  (`manager.py:220`), which then sees another `last_event_at` and gives up.
* `process_exited_stays`: nothing unregisters the control channel of a process that ended by
  itself (`manager.py:111`).
* `tmux_gone_stays`: `list_panes` raises when there is no server (`tmux_monitor.py:106`), so once the
  last pane has closed nothing marks its session. The same property also fails, while a server
  runs, for two other reasons: a poll that ends with an exception does not add to the known
  sessions what it upserted (`tmux_monitor.py:117`), so a pane it found first and that ends before
  the next poll is never compared; and an input that ends after its session was retired writes back its
  live copy (`tmux_monitor.py:361`).

Also met while modelling, and not a run: a dashboard input recorded between a poll's read and its upsert is
overwritten by the poll; a session is live, and can be hidden, between the upsert that finds it and the
registration of its channel. With two writers the older of two snapshots may be the one left on disk, the manager
may remember the older of two states, and an alert may be raised twice within the cooldown: `SnapshotIsLatest`,
`MemoryMatchesRegistry` and `AlertSpacing` name exactly when (`filed`, `recalled`, `crossed`). `ExitIsReported` needs
the pipe closed: with a child holding it, the monitor spins and the session stays live. `LiveIsWatched` names the
stops that leave a live session without a monitor: at the first upsert, in the wait for the exit, and after the end
of the output, when the process runs on (`monitor.py:106`); the last also keeps the next process from being
watched, as `stop_session` raises.

From the runs of the clients and the files, where the properties that hold name the exception:

* A broadcast that waited at one client may reach the next after a newer one (`ipc/server.py:171`), and the
  widget keeps the older status until the session changes again (`QuietMirror`, "late").
* `widget-run` mirrors nothing after its first message, as `asyncio.run` cancels the listening task before Qt's
  loop starts (`cli.py:924`), and its open, unread socket stops every change once its buffer is
  full. `docs/architecture/coding-pet.md:92` promises incremental updates.
* No collected directory passes `target-evidence-check`: the collection's entries lack `schema_version` and
  `profile` (`cli.py:2389`), which the check demands (`cli.py:3635`). `UntroubledPasses` says that this is all
  that is wrong.
* The check raises `UnboundLocalError` where the summary of the backends cannot be read and a backend report can
  (`cli.py:4672`).
* A bundle writes `summary.json` anew and forgets that a collection failed (`MarkedByLast`); the runbook runs them
  in that order.
* A transcript that is listed while a row is stored loses that row or shows it twice (`ViewFollows`).
* `BundleMisses` in `Evidence` lists the troubles that a bundle says ok to and the check refuses, among them the
  wrong machine or kernel, a glibc newer than 2.28, relative paths, a transcript that is not redacted, a hook
  check that was skipped and a relative output directory. A transcript switched on between two reports is the
  other way (`Watched`).
* The hook smoke is satisfied by the row of an earlier smoke (`CheckIsExact`, the case `unstored`); an install smoke
  that hangs ends the bundle with nothing written (`Raises`).
* A failed or interrupted `import --replace` leaves the selected pet gone or half copied, and an interrupted
  `set-pet` an empty `service.env` (`SelectionHolds`, `hurt`). `set-pet` with a path selects a pet that discovery need
  not list (`settings.path`).
* Output whose append fails is lost, and more than the last lines are lost where nothing joins (`missed`); a
  restart may store the last lines again.

## What is proved

`MonitorManagerProofs` proves, for every set of sessions and writers, every retention,
cooldown and bound, from the module's named assumptions (owners are distinct, reported states are
attention states, bounds are naturals, `None` is no status, time or call):

* `TypeCorrect`: `Spec => []TypeOK`. `TypeOK` is not inductive. A turn of the FIFO updates the call
  of its owner, which must therefore still wait. `QueueOK` says so: a handler's turn belongs
  to a call whose handler is still ready, about the same session and status; a broadcast's
  turn to a call whose broadcast is due; no owner has two live turns of a kind. `CleanupOK` adds
  that a cleanup task with a call in flight is in its removal, so a second removal cannot
  start on top of it. Cancellation is where this could break: `CancelKeepsLoop` shows that it drops
  exactly the turns of the calls it clears.
* `CleanupOnlyAfterCompletion`: `Spec => []CleanupFollowsCompletion`.
* `RemovalWaitsForRetention`: `Spec => RetentionHonoured`. Both follow from
  `CleanupTransitions`, which says all that a step can do to a cleanup task.
* `RestoringIsQuiet`: `Spec => []RestoreIsQuiet`. Nothing of an earlier process is left when the daemon
  starts (`DownInv`); while it restores, the boot task alone handles changes, each the first of its
  session (`RestoreInv`), so none looks like news.

`MirrorProofs`, on top of it, proves `WidgetFollowsRegistry`: `Spec => []MirrorInSync`, for any
number of writers. Its argument is about *words*: what the widget shows of a session, then the broadcasts about
it in the FIFO. The last word is the registry's entry, but for a removal that was cancelled unsaid
(`LastWordAgrees`); and since only a session's own timer is cancelled, and that only ever says the removal of
what was completed and inactive (`OwnTurns`, `RemovalFollowsCompletion`), the word before is then such a
status. This is the exception that `manager_lost_removal` shows to be real.

`OverlapProofs`, on top of it too, proves what the file, the memory and the alerts keep of the registry, for any
number of writers, whatever overlaps, and through crashes, restarts and stops. The three properties are not
true without exceptions, and the history variables make the exceptions exact: `filed` and `recalled` follow the
registry's last change until it is told, and then whether something older is told after it.

* `FileFollowsRegistry`: `Spec => []SnapshotIsLatest`. While a change is due somebody carries it (`FilePending`): a
  handler that has not listed the sessions yet, or a snapshot, in a thread or in a waiting task, that
  holds what the registry holds; or there is more to restore (`FileInv`). So when nothing is in flight nothing is due.
* `MemoryFollowsRegistry`: `Spec => []MemoryMatchesRegistry`, with a handler in flight for every session whose
  change is due. The removal by a cleanup task is the only change that can be cancelled while the daemon is up.
* `AlertsAreSpaced`: `Spec => AlertSpacing`. An alert that was raised is remembered, or with the notifier, or it
  is one of those that met (`crossed`).

`TmuxMonitorProofs` proves, for any panes, clients, screens and bounds:

* `TypeCorrect`. What makes it inductive is `PollHolds` and `RequestHolds`: where a step
  uses the pane, the copy or the state that a poll or an input holds, an earlier one has set it.
* `InactiveIsDismissable`: `Spec => []InactiveHasNoChannel`. The invariant is about the upsert
  before the channel as well (`Reachable`), and about the copies: an input is admitted only from a live
  copy (`CopyIsLive`), so writing it back late never makes a session with a channel inactive.
* `AnswersAreTrue`: `Spec => []AnswerIsTrue`, from how far each phase of an input has got.

`ProcessMonitorProofs` proves, for any number of processes, lines and hook events, all the safety properties of
`ProcessMonitor` from one invariant: the manager holds the one monitor that is under way or waits for it, and
what it will begin next has never run (`Held`); the session is of the run that is under way, or of one that a
stop left unmarked (`Followed`); only an orderly stop signals a process, and it never comes to report an exit
(`Signals`). Hence `TypeCorrect`, `MonitorsNeverOverlap` (`OneMonitor`), `LiveSessionIsWatched`
(`LiveIsWatched`), `StoppedIsNotCompleted` (`StopIsNotCompletion`) and the action property `HiddenStays`
(`HiddenStaysHidden`). `None` is assumed to be no run.

`DashboardProofs` proves, for any finite set of clients, any sessions, water marks, bounds and order of the
connections:

* `TypeCorrect`. A task that sends, has made a change or answers has its request (`TaskHolds`).
* `QuietWidgetsAgree`: `Spec => []QuietMirror`. Where a broadcast is, and behind which others, plays no part: the
  newest change of a session is what the registry holds (`CastsInv`), a widget that listens is among the writers
  (`Served`), and as long as it has not been told that change, some broadcast has it left (`Owed`). Once it was
  told, and nothing older after that, the last word on its way about the session, or else what it has heard, is the
  registry's (`Told`). Its pets differ from what it has heard as its own clicks and answers say (`Unasked`,
  `PetsFollow`).
* `WidgetsLearnThePast`: the initial states of `Dashboard` are those of `SessionMirror` and each of its steps is one
  of the mirror or a stutter, the safety half of `WidgetsMirror`. Whatever is on its way to a widget, the registry
  once held (`Held`).

`EvidenceProofs` and `HostFilesProofs` prove every property of `host_files`. A step of `HostFiles` belongs to
one part, so each invariant is about one. `EvidenceProofs`, for any agents, actions, troubles, options and
number of commands:

* `EvidenceTypeCorrect`: `Spec => []EvidenceTypeOK`, the evidence's part of `TypeOK`.
* `CheckReadsReports`: `Spec => []CheckIsExact`. A report on disk was made of a probe, and `EvidenceTypeOK`
  keeps which; what each kind of report tells of its probe, and so what the check finds in it, is a lemma per
  kind.
* `BundlesForetellTheCheck`: `Spec => []BundleForetells`. A bundle's reports are made of its own probes, under its
  options, each of the host as it was then, and from its first file on it is not whole until its summary is
  written (`Bundling`). What a whole bundle's summary says is then what `Failed` says of the probes that its own
  files tell (`Foretold`).
* `UntroubledEvidencePasses`: `Spec => []UntroubledPasses`, from what a collection has verified so far and what
  it left (`Collecting`, `Collected`).
* `MarkIsOfTheLastCommand`: `Spec => []MarkedByLast`. The failures that a bundle finds are
  never the mark that a merge adds (`BundleIsUnmarked`), and neither write loses the other's fields (`DirShape`).

`HostFilesProofs`, for any pets, slugs and packages:

* `LibraryTypeCorrect`: `Spec => []LibraryTypeOK`, the pet commands' part of `TypeOK`.
* `SidecarsAreWitnesses`: `Spec => []SidecarsVouch`. The archive whose sidecar is about to be
  written is in its place (`VouchInv`): one command runs at a time.
* `SelectionIsKept`: `Spec => []SelectionHolds`. Unless by a path, the lines that a selection is about to write name
  a pet that is listed still (`Selecting`), and the import that removes a pet is the one that will copy it
  back (`ClearedForCopy`): taking its own destination away does not change where a source goes, because only
  staged archives come in batches (`Importing`).
* `ImportsReportTruly`: `Spec => []ReportsAreTrue`. While an import runs its sources split
  into those finished and those to come, all of different pets (`SourcesApart`); a pet of neither is as it
  was, and one that was there is only touched with `--replace` (`SaidSoFar`). The QA bundle's part is `QaInv`.

and, for any window, tail, number of rows kept and listed, and bounds, from `TranscriptInv`:

* `OutputStoredOnce`: `Spec => []OutputOnce`. A pane holds its lines in the order of printing, and no row stored
  or about to be has a line after the last of the snapshot before (`Ordered`). The lines after the longest
  overlap come after that line (`AfterOverlap`, `CaptureTells`), so they are new. Rows and the tasks that have
  yet to store one hold different times, and the monitor's is later than any output (`Timed`).
* `NothingElseIsMissed`: `Spec => []NothingElseMissed`. Not only the recorded snapshot is accounted for but each
  that may be recorded later: the one before, the one in the poll and the router's copy in the input, with the
  row that is about to be stored (`Accounted`).
* `ClientsFollow`: `Spec => []ViewFollows`. A listing holds the newest rows of those that were there, even when
  rows came and went since (`Listed`): no step makes a row one of the newest again (`NewestStay`), pruning
  included, because all that is newer than a row that stays has stayed (`NewestOfNewest`). The client shows a
  row as often as it was told of it and a listing had it (`Followed`), twice at most, which is why
  `TranscriptTypeOK` can bound `view` by 2.
* `TranscriptTypeCorrect`, and with it `TypeCorrect`: `Spec => []TypeOK`, for the whole of `HostFiles`.

They rest on the named assumptions of `Files`, `EvidenceReports`, `Evidence`, `PetLibrary` and `Transcripts`: no
package, report, probe or list of entries is `Absent` or `Torn`, no command or task is `Idle`, no list of lines
is `Absent`, there are finitely many slugs, a pet's id is neither a slug, a path in the model, nor the bundled
theme, and sizes are positive.

Every safety property that a passing run checks is thus proved. Model-checked only:

* everything under fairness, which this prover cannot reason about (it has neither `ENABLED` nor the proof rules
  for `WF_`): `CallsReturn`, `ArmedCleanupRemoves`, `StopEnds`, `StopEndsProcess`, `ExitIsReported`,
  `AgentAppears`, `GoneIsRetired`, `ChangesReturn`, `CommandEnds`, and the liveness half of `WidgetsMirror`.

## Not modelled, and the plan

Next, worth proving: what the algorithms promise beyond the invariants, above all that the rows of a transcript
joined together are what the pane printed, when nothing failed; that one crash at any step forgets no session
when writers do not overlap; and the safety half of the liveness properties, that a call that has not returned
always has a step that brings it nearer.

Not modelled, and why:

* `classifiers/` and `daemon/classifier.py`: regular expressions over text; the monitors take any state they may
  answer.
* `agents/`: tables of commands and control texts. `config.py`, `logging.py`: parsing and format.
* `gui/preview.py`, drawing, layout and animation in `gui/`: pixels. A pet package is sound or not; the atlas
  is not looked into.
* Commands of `cli.py` that only print, and the single checks that write one file of their own; redaction and
  the SQL of the transcript store; `scripts/`.
* `IpcServer.start`/`stop` (a stop may wait for ever for a client that does not read), pings and malformed
  messages in `Dashboard`; the widget's offline snapshot of `state.json`.
* `set-pet` with a `--pets-root` of its own: one root stands for all.
* Quarantine of a damaged `state.json`: the daemon's own writes are atomic, so only another program
  can damage it. Titles, summaries and capabilities of a status: no property tells them apart.
