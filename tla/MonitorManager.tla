--------------------------- MODULE MonitorManager ---------------------------
(***************************************************************************)
(* The daemon's core: the session registry, the manager that listens to    *)
(* it, the snapshot file, and the broadcast to a connected widget.         *)
(*                                                                         *)
(* A writer (monitor task, tmux poll, hook or IPC client task) changes the *)
(* registry and waits for asyncio.gather over the two subscribers of the   *)
(* change: MonitorManager._handle_registry_message and IpcServer.broadcast.*)
(* Each subscriber is a task: it waits its turn in the event loop's FIFO   *)
(* `ready`, and the handler then suspends twice, on the thread that writes *)
(* the snapshot and on the notifier.  So several handlers overlap, and     *)
(* what one of them does last may rest on an old message.                  *)
(*                                                                         *)
(* One asyncio task runs at a time, so a step below is a run of code       *)
(* between two suspension points.  The registry's asyncio.Lock is released *)
(* before anything is awaited and never blocks a step.                     *)
(***************************************************************************)
EXTENDS SessionModel, Sequences, FiniteSets

CONSTANTS
    Sessions,       \* session identifiers
    Writers,        \* tasks that upsert, one call in flight each
    Boot,           \* the task that restores the snapshot at start-up
    None,           \* no session, no task, no time
    ReportedStates, \* the attention states writers report
    Retention,      \* completed_retention, or None when it is not set
    Cooldown,       \* notification_cooldown
    LastEvent,      \* bound: writers report up to this time
    MaxReports,     \* bound: registry changes writers make
    MaxTime,        \* bound: the clock stops here
    MaxCrashes,     \* bound: crashes
    MaxStops        \* bound: orderly shutdowns

Owners == Writers \cup Sessions \cup {Boot}   \* a session's own cleanup task owns its removal
Times  == 0 .. MaxTime

ASSUME OwnersAssumption ==
    /\ Writers \cap Sessions = {}
    /\ Boot \notin Writers \cup Sessions
ASSUME StatesAssumption == ReportedStates \subseteq AttentionState
ASSUME TimeAssumption ==
    /\ MaxTime \in Nat /\ LastEvent \in Nat /\ LastEvent <= MaxTime /\ MaxReports \in Nat
    /\ Cooldown \in Nat /\ MaxCrashes \in Nat /\ MaxStops \in Nat
    /\ Retention \in Nat \/ Retention = None

\* What the core reads of a SessionStatus: state, live and last_event_at.
Status   == [state : AttentionState, live : BOOLEAN, at : Times]
Snapshot == [Sessions -> Status \cup {None}]
Empty    == [s \in Sessions |-> None]

\* A subscriber task in the loop's FIFO, carrying the message it was created with.
Turn == [task : {"handler", "broadcast", "cancelled"}, owner : Owners,
         session : Sessions, status : Status \cup {None}]

\* A writer's pending gather: where the handler is, whether the broadcast is due.
Call == [session : Sessions, status : Status \cup {None},
         handler : {"ready", "writing", "written", "notifying", "done"},
         broadcast : BOOLEAN, payload : Snapshot, since : Times]

ASSUME NoneAssumption == None \notin Status /\ None \notin Times /\ None \notin Call

CleanupTask == [phase : {"none", "sleeping", "removing"}, completedAt : Times]
NoTask      == [phase |-> "none", completedAt |-> 0]

VARIABLES
    registry,          \* SessionRegistry._sessions
    now,               \* the wall clock
    ready,             \* the loop's FIFO of subscriber tasks not yet run
    call,              \* per owner, the registry change it is waiting for
    orphanWrites,      \* snapshots in threads whose waiting task was cancelled
    disk,              \* state.json
    cleanup,           \* _completed_cleanup_tasks
    lastSeen,          \* _last_seen_states
    lastNotifiedAt,    \* _last_notified_at
    completedNotified, \* _completed_notified
    alertedAt,         \* history: when an alert of this kind was last raised
    view,              \* what a client connected since start-up has been sent
    mode,              \* phase of the process
    image,             \* statuses still to restore, or the snapshot being written
    skipped,           \* skipped_stale_completed
    handlerFirst,      \* iteration order of the subscriber set in this process
    reports, crashes, stops, \* how many so far
    owed,              \* history: sessions saved to disk and not removed since
    filed,             \* history: has the file been told what the registry holds?
    recalled,          \* history: has the manager's memory, of each session?
    crossed            \* history: alerts that met their like in the notifier, or were cancelled there

loop   == <<ready, call, orphanWrites>>
memory == <<lastSeen, lastNotifiedAt, completedNotified, alertedAt>>
file   == <<disk, owed>>
life   == <<mode, image, skipped, handlerFirst, crashes, stops>>
news   == <<filed, recalled, crossed>>
vars   == <<registry, now, reports, loop, file, cleanup, memory, view, life, news>>

\* Of the registry's last change: on its way; told; told, and an older one after
\* it; or cancelled on its way.
News == {"due", "told", "late", "lost"}

AlertKey == Sessions \X AlertStates

-----------------------------------------------------------------------------
(* Helpers *)

InactiveCompleted(status) == status.state = "completed" /\ ~status.live

\* _completed_cleanup_delay(completed_at) is zero.
Elapsed(completedAt) == now >= completedAt + Retention

RetentionExpired(status) ==
    /\ Retention # None
    /\ InactiveCompleted(status)
    /\ Elapsed(status.at)

\* The daemon serves clients, and its writers run, in these phases.
Serving == mode \in {"up", "stopping", "saving", "closing"}

Idle(o) == call[o] = None

\* The registry's entry of s is set, which is news for the file and the memory.
Register(s, entry) ==
    /\ registry' = [registry EXCEPT ![s] = entry]
    /\ filed' = "due" /\ recalled' = [recalled EXCEPT ![s] = "due"]
    /\ UNCHANGED crossed

\* The news once the file, or the memory, is given what the registry holds or not.
Given(state, current) ==
    IF current THEN "told" ELSE IF state = "told" THEN "late" ELSE state

Cancelled(state) == IF state = "due" THEN "lost" ELSE state

\* Mutant of Turns: a removal reaches the manager only.
TurnsWithoutRemoval(o, s, status) ==
    LET handler   == [task |-> "handler", owner |-> o, session |-> s, status |-> status]
    IN  IF ~Serving \/ status = None THEN <<handler>>
        ELSE <<handler, [handler EXCEPT !.task = "broadcast"]>>

\* gather() over the subscribers: create their tasks, wait for both.
Turns(o, s, status) ==
    LET handler   == [task |-> "handler", owner |-> o, session |-> s, status |-> status]
        broadcast == [handler EXCEPT !.task = "broadcast"]
    IN  IF ~Serving THEN <<handler>>
        ELSE IF handlerFirst THEN <<handler, broadcast>> ELSE <<broadcast, handler>>

Notify(o, s, status) ==
    /\ ready' = ready \o Turns(o, s, status)
    /\ call' = [call EXCEPT ![o] =
                   [session |-> s, status |-> status, handler |-> "ready",
                    broadcast |-> Serving, payload |-> Empty, since |-> 0]]
    /\ UNCHANGED orphanWrites

\* Mutant of Settle: the gather of a removal is never resolved.
SettleUpdates(c) == IF c.handler = "done" /\ ~c.broadcast /\ c.status # None THEN None ELSE c

\* The gather of c returns once both of its tasks are over.
Settle(c) == IF c.handler = "done" /\ ~c.broadcast THEN None ELSE c

\* A cancelled task keeps its turn in the FIFO and does nothing with it.
DropTurns(q, owners) ==
    [i \in DOMAIN q |-> IF q[i].owner \in owners
                        THEN [q[i] EXCEPT !.task = "cancelled"] ELSE q[i]]

\* The handler of c has not written its snapshot yet.
Unwritten(c) == c # None /\ c.handler \in {"ready", "writing"}

\* Cancelling owners cancels their gather and its subscriber tasks.  A write
\* not yet picked up by a thread is dropped, one in a thread runs on.
CancelCalls(owners, calls, q) ==
    /\ ready' = DropTurns(q, owners)
    /\ call' = [o \in Owners |-> IF o \in owners THEN None ELSE calls[o]]
    /\ \E running \in SUBSET {calls[o].payload : o \in {p \in owners :
                                  calls[p] # None /\ calls[p].handler = "writing"}} :
          /\ orphanWrites' = orphanWrites \cup running
          /\ filed' = IF \E o \in owners : Unwritten(calls[o]) /\ calls[o].payload \notin running
                      THEN Cancelled(filed) ELSE filed

\* Mutant of CleanupOwner: the task is forgotten but not cancelled.
ForgottenOwner(s) == {}

\* _cancel_completed_cleanup: the task of s is cancelled wherever it waits.
CleanupOwner(s) == IF cleanup[s].phase = "removing" THEN {s} ELSE {}

-----------------------------------------------------------------------------
(* Writers *)

MayReport(w) ==
    /\ Serving /\ Idle(w)
    /\ now <= LastEvent /\ reports < MaxReports
    /\ reports' = reports + 1

\* SessionRegistry.upsert by any of the writers.
Upsert(w, s) ==
    /\ MayReport(w)
    /\ \E state \in ReportedStates, live \in BOOLEAN :
          LET status == [state |-> state, live |-> live, at |-> now]
          IN  Register(s, status) /\ Notify(w, s, status)
    /\ UNCHANGED <<now, file, cleanup, memory, view, life>>

\* SessionRegistry.mark_read: the same status, sent again.
MarkRead(w, s) ==
    /\ MayReport(w)
    /\ registry[s] # None
    /\ Notify(w, s, registry[s])
    /\ UNCHANGED <<registry, now, file, cleanup, memory, view, life, news>>

\* SessionRegistry.remove, on behalf of hide_pet.
Remove(w, s) ==
    /\ MayReport(w)
    /\ registry[s] # None
    /\ Register(s, None)
    /\ owed' = owed \ {s}
    /\ Notify(w, s, None)
    /\ UNCHANGED <<now, disk, cleanup, memory, view, life>>

-----------------------------------------------------------------------------
(* Subscriber tasks *)

Turned == ready # <<>>
Front  == Head(ready)

\* IpcServer.broadcast: the message is written to the client.
Broadcast ==
    /\ Turned /\ Front.task = "broadcast"
    /\ view' = [view EXCEPT ![Front.session] = Front.status]
    /\ ready' = Tail(ready)
    /\ call' = [call EXCEPT ![Front.owner] = Settle([@ EXCEPT !.broadcast = FALSE])]
    /\ UNCHANGED <<registry, now, reports, orphanWrites, file, cleanup, memory, life, news>>

SkipCancelled ==
    /\ Turned /\ Front.task = "cancelled"
    /\ ready' = Tail(ready)
    /\ UNCHANGED <<registry, now, reports, call, orphanWrites, file, cleanup, memory, view, life, news>>

\* A session_updated message: list the sessions and hand them to a thread.
HandleUpdated ==
    /\ Turned /\ Front.task = "handler" /\ Front.status # None
    /\ ready' = Tail(ready)
    /\ call' = [call EXCEPT ![Front.owner].handler = "writing",
                            ![Front.owner].payload = registry]
    /\ UNCHANGED <<registry, now, reports, orphanWrites, file, cleanup, memory, view, life, news>>

\* Mutant of Forget: the state last seen of a removed session stays.
ForgetAlertOnly(s) ==
    /\ completedNotified' = completedNotified \ {s}
    /\ UNCHANGED lastSeen

\* The manager's memory of a removed session.  Its alert times stay.
Forget(s) ==
    /\ lastSeen' = [lastSeen EXCEPT ![s] = None]
    /\ completedNotified' = completedNotified \ {s}

\* A session_removed message first drops the manager's memory of the session.
\* When the removal is the cleanup task's own, that cancels the very task that
\* waits for this handler: the handler itself and a broadcast still in the FIFO.
HandleRemoved ==
    LET s == Front.session
        o == Front.owner
        calls == [call EXCEPT ![o].handler = "writing", ![o].payload = registry]
    IN  /\ Turned /\ Front.task = "handler" /\ Front.status = None
        /\ cleanup' = [cleanup EXCEPT ![s] = NoTask]
        /\ Forget(s)
        /\ recalled' = [recalled EXCEPT ![s] = Given(@, registry[s] = None)]
        /\ CancelCalls(CleanupOwner(s), calls, Tail(ready))
        /\ UNCHANGED <<registry, now, reports, file, lastNotifiedAt, alertedAt, crossed, view, life>>

\* _write_text_atomic: one rename puts the new snapshot in place of the old.
Replace(snapshot) ==
    /\ disk' = snapshot
    /\ owed' = owed \cup {s \in Sessions : snapshot[s] # None /\ registry[s] # None}
    /\ filed' = Given(filed, snapshot = registry) /\ UNCHANGED <<recalled, crossed>>

\* The thread replaces state.json.
WriteSnapshot(o) ==
    /\ ~Idle(o) /\ call[o].handler = "writing"
    /\ Replace(call[o].payload)
    /\ call' = [call EXCEPT ![o].handler = "written", ![o].payload = Empty]
    /\ UNCHANGED <<registry, now, reports, ready, orphanWrites, cleanup, memory, view, life>>

WriteOrphan ==
    /\ \E snapshot \in orphanWrites :
          /\ Replace(snapshot)
          /\ orphanWrites' = orphanWrites \ {snapshot}
    /\ UNCHANGED <<registry, now, reports, ready, call, cleanup, memory, view, life>>

\* The written session_removed message has nothing left to do.
FinishRemoved(o) ==
    /\ ~Idle(o) /\ call[o].handler = "written" /\ call[o].status = None
    /\ call' = [call EXCEPT ![o] = Settle([@ EXCEPT !.handler = "done"])]
    /\ UNCHANGED <<registry, now, reports, ready, orphanWrites, file, cleanup, memory, view, life, news>>

\* The alert of c, of this session and state, is with the notifier.
Alerting(c) == c # None /\ c.handler = "notifying"
AlertingOf(c, key) == Alerting(c) /\ key = <<c.session, c.status.state>>

\* Mutant of Alerts: no cooldown.
AlertsAtOnce(s, status) ==
    /\ lastSeen[s] # None /\ lastSeen[s] # status.state
    /\ status.state \in AlertStates
    /\ ~(status.state = "completed" /\ s \in completedNotified)

\* Is status news to alert about?  Compared with the state last handled.
Alerts(s, status) ==
    /\ lastSeen[s] # None /\ lastSeen[s] # status.state
    /\ status.state \in AlertStates
    /\ ~(status.state = "completed" /\ s \in completedNotified)
    /\ \/ lastNotifiedAt[<<s, status.state>>] = None
       \/ now - lastNotifiedAt[<<s, status.state>>] >= Cooldown

\* Mutant of UpdateCompletedCleanup: a session that goes on keeps its timer.
KeepCleanup(s, status, calls) ==
    /\ cleanup' = IF Retention # None /\ InactiveCompleted(status) /\ cleanup[s].phase = "none"
                  THEN [cleanup EXCEPT ![s] = [phase |-> "sleeping", completedAt |-> status.at]]
                  ELSE cleanup
    /\ call' = calls
    /\ UNCHANGED <<ready, orphanWrites, filed>>

\* _update_completed_cleanup: (re)schedule or cancel the cleanup task of s.
UpdateCompletedCleanup(s, status, calls) ==
    IF Retention # None /\ InactiveCompleted(status)
    THEN /\ cleanup' = [cleanup EXCEPT ![s] =
                           IF @.phase = "none"
                           THEN [phase |-> "sleeping", completedAt |-> status.at] ELSE @]
         /\ call' = calls
         /\ UNCHANGED <<ready, orphanWrites, filed>>
    ELSE /\ cleanup' = [cleanup EXCEPT ![s] = NoTask]
         /\ CancelCalls(CleanupOwner(s), calls, ready)

\* The memory's news once the handler of c has set the state last seen of its
\* session, and cancelled the removal of that, if it was yet to be handled.
Remembered(c, cancels) ==
    LET s == c.session
    IN  [recalled EXCEPT ![s] =
            Given(IF cancels /\ \E o \in CleanupOwner(s) : call[o].handler = "ready"
                  THEN Cancelled(@) ELSE @,
                  registry[s] # None /\ registry[s].state = c.status.state)]

\* The rest of _handle_registry_message, up to the await of the notifier.
ReactToUpdated(o) ==
    /\ ~Idle(o) /\ call[o].handler = "written" /\ call[o].status # None
    /\ LET s      == call[o].session
           status == call[o].status
           key    == <<s, status.state>>
           alert  == Alerts(s, status)
           next   == IF alert THEN [call[o] EXCEPT !.handler = "notifying", !.since = now]
                              ELSE Settle([call[o] EXCEPT !.handler = "done"])
       IN  /\ UpdateCompletedCleanup(s, status, [call EXCEPT ![o] = next])
           /\ lastSeen' = [lastSeen EXCEPT ![s] = status.state]
           /\ recalled' = Remembered(call[o], ~(Retention # None /\ InactiveCompleted(status)))
           /\ alertedAt' = IF alert THEN [alertedAt EXCEPT ![key] = now] ELSE alertedAt
           /\ crossed' = IF alert /\ \E p \in Owners : AlertingOf(call[p], key)
                         THEN crossed \cup {key} ELSE crossed
    /\ UNCHANGED <<registry, now, reports, file, lastNotifiedAt, completedNotified, view, life>>

\* The notifier returns; only now is the alert remembered.
Notified(o) ==
    /\ ~Idle(o) /\ call[o].handler = "notifying"
    /\ LET s     == call[o].session
           state == call[o].status.state
       IN  /\ lastNotifiedAt' = [lastNotifiedAt EXCEPT ![<<s, state>>] = call[o].since]
           /\ completedNotified' = IF state = "completed" THEN completedNotified \cup {s}
                                                           ELSE completedNotified
    /\ call' = [call EXCEPT ![o] = Settle([@ EXCEPT !.handler = "done"])]
    /\ UNCHANGED <<registry, now, reports, ready, orphanWrites, file, cleanup,
                   lastSeen, alertedAt, view, life, news>>

-----------------------------------------------------------------------------
(* The cleanup task of a session *)

\* Mutants of StillCompleted: any completion will do; expiry is tested again, off by one.
AnyCompletion(s) == registry[s] # None /\ InactiveCompleted(registry[s])
LateCompletion(s) == AnyCompletion(s) /\ now > registry[s].at + Retention

\* The registry still shows the completion the task of s was armed for.
StillCompleted(s) ==
    /\ registry[s] # None
    /\ InactiveCompleted(registry[s])
    /\ registry[s].at = cleanup[s].completedAt

\* The sleep is over: remove the session if it is still the one that completed.
RemoveCompleted(s) ==
    /\ cleanup[s].phase = "sleeping" /\ Elapsed(cleanup[s].completedAt)
    /\ IF StillCompleted(s)
       THEN /\ Register(s, None)
            /\ owed' = owed \ {s}
            /\ cleanup' = [cleanup EXCEPT ![s].phase = "removing"]
            /\ Notify(s, s, None)
       ELSE /\ cleanup' = [cleanup EXCEPT ![s] = NoTask]
            /\ UNCHANGED <<registry, owed, loop, news>>
    /\ UNCHANGED <<now, reports, disk, memory, view, life>>

Tick ==
    /\ now < MaxTime
    /\ now' = now + 1
    /\ UNCHANGED <<registry, reports, loop, file, cleanup, memory, view, life, news>>

-----------------------------------------------------------------------------
(* Process life: start-up with restore, shutdown, crash *)

\* Everything in memory goes; the file stays, the client keeps what it was shown.
Halt ==
    /\ registry' = Empty /\ ready' = <<>> /\ orphanWrites' = {}
    /\ call' = [o \in Owners |-> None]
    /\ cleanup' = [s \in Sessions |-> NoTask]
    /\ lastSeen' = [s \in Sessions |-> None]
    /\ lastNotifiedAt' = [k \in AlertKey |-> None]
    /\ alertedAt' = [k \in AlertKey |-> None]
    /\ completedNotified' = {}
    /\ mode' = "down" /\ image' = Empty /\ skipped' = FALSE
    /\ filed' = (IF disk = Empty THEN "told" ELSE "due")
    /\ recalled' = [s \in Sessions |-> "told"] /\ crossed' = {}
    /\ UNCHANGED <<now, reports, file, view, handlerFirst>>

\* SIGTERM (no handler is installed), SIGKILL or a crash of the host.
Crash ==
    /\ mode # "down" /\ crashes < MaxCrashes
    /\ crashes' = crashes + 1
    /\ Halt
    /\ UNCHANGED stops

RestoredAsSaved(status) == status       \* mutant of Restored: live sessions stay live

\* restore_sessions makes every status inactive.
Restored(status) == [status EXCEPT !.live = FALSE]

\* The daemon starts and reads the file.
Start ==
    /\ mode = "down"
    /\ mode' = "restoring"
    /\ image' = [s \in Sessions |-> IF disk[s] = None THEN None
                                    ELSE Restored(disk[s])]
    /\ handlerFirst' \in BOOLEAN
    /\ UNCHANGED <<registry, now, reports, loop, file, cleanup, memory, view, skipped, crashes, stops, news>>

\* One round of the loop of restore_from_store.
RestoreOne(s) ==
    /\ mode = "restoring" /\ Idle(Boot) /\ image[s] # None
    /\ image' = [image EXCEPT ![s] = None]
    /\ skipped' = (skipped \/ RetentionExpired(image[s]))
    /\ owed' = IF RetentionExpired(image[s]) THEN owed \ {s} ELSE owed
    /\ IF RetentionExpired(image[s]) \/ registry[s] # None
       THEN UNCHANGED <<registry, loop, news>>
       ELSE /\ Register(s, image[s])
            /\ Notify(Boot, s, image[s])
    /\ UNCHANGED <<now, reports, disk, cleanup, memory, view, mode, handlerFirst, crashes, stops>>

\* Skipped sessions leave the file by one more write before serving starts.
PruneSnapshot ==
    /\ mode = "restoring" /\ Idle(Boot) /\ image = Empty /\ skipped
    /\ mode' = "pruning" /\ image' = registry
    /\ UNCHANGED <<registry, now, reports, loop, file, cleanup, memory, view,
                   skipped, handlerFirst, crashes, stops, news>>

\* The IPC server starts and a client connects: it is sent a full snapshot.
Serve ==
    /\ mode' = "up" /\ image' = Empty /\ skipped' = FALSE
    /\ view' = registry

\* Mutant of StartServing: the server does not wait for the restore to finish.
ServeAtOnce ==
    /\ mode = "restoring" /\ Idle(Boot)
    /\ Serve
    /\ UNCHANGED <<registry, now, reports, loop, file, cleanup, memory, handlerFirst, crashes, stops, news>>

StartServing ==
    /\ mode = "restoring" /\ Idle(Boot) /\ image = Empty /\ ~skipped
    /\ Serve
    /\ UNCHANGED <<registry, now, reports, loop, file, cleanup, memory, handlerFirst, crashes, stops, news>>

PruneDone ==
    /\ mode = "pruning"
    /\ Replace(image)
    /\ Serve
    /\ UNCHANGED <<registry, now, reports, loop, cleanup, memory, handlerFirst, crashes, stops>>

\* DaemonRuntime.stop: the poll and the monitors (some of the writers) and all
\* cleanup tasks are cancelled, then the sessions are listed and written.
BeginStop ==
    /\ mode = "up" /\ stops < MaxStops
    /\ mode' = "stopping" /\ stops' = stops + 1
    /\ cleanup' = [s \in Sessions |-> NoTask]
    /\ \E stopped \in SUBSET Writers :
          /\ CancelCalls(stopped \cup Sessions, call, ready)
          /\ crossed' = crossed \cup {key \in AlertKey : \E o \in stopped : AlertingOf(call[o], key)}
    /\ UNCHANGED <<registry, now, reports, file, memory, recalled, view, image, skipped, handlerFirst, crashes>>

SaveLast ==
    /\ mode = "stopping"
    /\ mode' = "saving" /\ image' = registry
    /\ UNCHANGED <<registry, now, reports, loop, file, cleanup, memory, view,
                   skipped, handlerFirst, crashes, stops, news>>

SavedLast ==
    /\ mode = "saving"
    /\ Replace(image)
    /\ mode' = "closing" /\ image' = Empty
    /\ UNCHANGED <<registry, now, reports, loop, cleanup, memory, view,
                   skipped, handlerFirst, crashes, stops>>

Exit ==
    /\ mode = "closing"
    /\ Halt
    /\ UNCHANGED <<crashes, stops>>

-----------------------------------------------------------------------------
Init ==
    /\ registry = Empty /\ now = 0
    /\ ready = <<>> /\ call = [o \in Owners |-> None] /\ orphanWrites = {}
    /\ disk = Empty
    /\ cleanup = [s \in Sessions |-> NoTask]
    /\ lastSeen = [s \in Sessions |-> None]
    /\ lastNotifiedAt = [k \in AlertKey |-> None]
    /\ alertedAt = [k \in AlertKey |-> None]
    /\ completedNotified = {}
    /\ view = Empty
    /\ mode = "down" /\ image = Empty /\ skipped = FALSE
    /\ handlerFirst \in BOOLEAN
    /\ reports = 0 /\ crashes = 0 /\ stops = 0 /\ owed = {}
    /\ filed = "told" /\ recalled = [s \in Sessions |-> "told"] /\ crossed = {}

Environment ==
    \/ \E w \in Writers, s \in Sessions : Upsert(w, s) \/ MarkRead(w, s) \/ Remove(w, s)
    \/ Crash \/ BeginStop

Loop ==
    \/ Broadcast \/ SkipCancelled \/ HandleUpdated \/ HandleRemoved

Resume(o) == FinishRemoved(o) \/ ReactToUpdated(o) \/ Notified(o)

Lifecycle ==
    \/ Start \/ \E s \in Sessions : RestoreOne(s)
    \/ PruneSnapshot \/ PruneDone \/ StartServing \/ SaveLast \/ SavedLast \/ Exit

Next ==
    \/ Environment \/ Loop \/ Lifecycle \/ WriteOrphan \/ Tick
    \/ \E o \in Owners : WriteSnapshot(o) \/ Resume(o)
    \/ \E s \in Sessions : RemoveCompleted(s)

Spec == Init /\ [][Next]_vars

\* The loop runs its ready tasks, threads and the notifier come back, sleeps
\* end and time passes.  Writers, crashes and shutdowns owe nothing.
Fairness ==
    /\ WF_vars(Loop) /\ WF_vars(Lifecycle) /\ WF_vars(WriteOrphan) /\ WF_vars(Tick)
    /\ \A o \in Owners : WF_vars(WriteSnapshot(o)) /\ WF_vars(Resume(o))
    /\ \A s \in Sessions : WF_vars(RemoveCompleted(s))

FairSpec == Spec /\ Fairness
-----------------------------------------------------------------------------
(* Properties *)

\* The types of the variables; and a call of a session is the removal that its
\* cleanup task waits for.
TypeOK ==
    /\ \A s \in Sessions : ~Idle(s) => cleanup[s].phase = "removing"
    /\ registry \in Snapshot /\ disk \in Snapshot /\ view \in Snapshot /\ image \in Snapshot
    /\ now \in Times
    /\ ready \in Seq(Turn)
    /\ call \in [Owners -> Call \cup {None}]
    /\ orphanWrites \subseteq Snapshot
    /\ cleanup \in [Sessions -> CleanupTask]
    /\ lastSeen \in [Sessions -> AttentionState \cup {None}]
    /\ lastNotifiedAt \in [AlertKey -> Times \cup {None}]
    /\ alertedAt \in [AlertKey -> Times \cup {None}]
    /\ completedNotified \subseteq Sessions /\ owed \subseteq Sessions
    /\ mode \in {"down", "restoring", "pruning", "up", "stopping", "saving", "closing"}
    /\ skipped \in BOOLEAN /\ handlerFirst \in BOOLEAN
    /\ filed \in News /\ recalled \in [Sessions -> News] /\ crossed \subseteq AlertKey
    /\ reports \in 0 .. MaxReports /\ crashes \in 0 .. MaxCrashes /\ stops \in 0 .. MaxStops

BroadcastDue(s) == \E i \in DOMAIN ready :
                      ready[i].task = "broadcast" /\ ready[i].session = s

\* However many changes overlap, once no broadcast about a session is due the
\* widget shows what the registry holds.  The one exception the code leaves is
\* a completed, inactive session whose removal was never broadcast.
MirrorInSync ==
    mode = "up" =>
        \A s \in Sessions :
            BroadcastDue(s) \/ view[s] = registry[s]
            \/ (registry[s] = None /\ InactiveCompleted(view[s]))

\* Without the exception: a removed session leaves the widget too.
MirrorShowsRemoval ==
    mode = "up" => \A s \in Sessions : BroadcastDue(s) \/ view[s] = registry[s]

Quiet == mode = "up" /\ (\A o \in Owners : Idle(o)) /\ orphanWrites = {}

\* However writers, threads and cleanup tasks overlap, when nothing is in flight
\* the file holds the sessions of the registry, unless the thread of an older
\* snapshot ended after that of the newest, or the newest was a removal's and its
\* task was cancelled.
SnapshotIsLatest == Quiet /\ filed \notin {"late", "lost"} => disk = registry

Seen(entry) == IF entry = None THEN None ELSE entry.state

\* When nothing is in flight the manager remembers of every session the state
\* the registry has, unless the handler of an older change ended after that of the
\* newest, or the newest was a removal that was cancelled before its handler ran.
MemoryMatchesRegistry ==
    Quiet => \A s \in Sessions :
        recalled[s] \notin {"late", "lost"} => lastSeen[s] = Seen(registry[s])

\* A cleanup task only ever runs for a session the manager last saw completed.
CleanupFollowsCompletion ==
    \A s \in Sessions : cleanup[s].phase # "none" => lastSeen[s] = "completed"

\* The sessions a restart restores stay inactive and raise no alert, until
\* the daemon serves again.
RestoreIsQuiet ==
    mode \in {"restoring", "pruning"} =>
        /\ \A s \in Sessions : registry[s] # None => ~registry[s].live
        /\ \A o \in Owners : ~Alerting(call[o])

\* A session once saved and never removed is there again after any restart.
RestartForgetsNothing ==
    mode = "up" => \A s \in owed : registry[s] # None

\* The retention timer removes a session only when it is completed, inactive
\* and has been so for the whole retention window.
RetentionHonoured ==
    [][\A s \in Sessions :
          cleanup[s].phase = "sleeping" /\ cleanup'[s].phase = "removing" =>
              RetentionExpired(registry[s])]_vars

\* An alert of the same session and state is raised within the cooldown only
\* after two of them were with the notifier at once, or an orderly stop cancelled
\* one there.
AlertSpacing ==
    [][\A o \in Owners :
          (~Alerting(call[o]) /\ Alerting(call[o]')) =>
              LET key == <<call'[o].session, call'[o].status.state>>
              IN  alertedAt[key] = None \/ now - alertedAt[key] >= Cooldown \/ key \in crossed']_vars

\* Every change of the registry returns to the task that made it.
CallsReturn == \A o \in Owners : ~Idle(o) ~> Idle(o)

CompletedSince(s, t) ==
    registry[s] # None /\ InactiveCompleted(registry[s]) /\ registry[s].at = t

\* A cleanup task armed for the completion the registry shows removes the
\* session, unless the session changes first.
ArmedCleanupRemoves ==
    \A s \in Sessions, t \in Times :
        (cleanup[s] = [phase |-> "sleeping", completedAt |-> t] /\ CompletedSince(s, t))
            ~> ~CompletedSince(s, t)

\* Completed inactive sessions are removed in the end.
CompletedIsRemoved ==
    \A s \in Sessions : []<>~(registry[s] # None /\ InactiveCompleted(registry[s]))

=============================================================================
