--------------------------- MODULE ProcessMonitor ---------------------------
(***************************************************************************)
(* One process-launched session: the processes launched for it one after   *)
(* the other, the MonitorTask that watches each of them, and the manager's *)
(* start_session and stop_session, which cancel the old monitor before a   *)
(* new one begins.                                                         *)
(*                                                                         *)
(* A step is a run of code between two suspensions.  A cancellation finds  *)
(* the monitor at the suspension where it waits, and what the monitor then *)
(* still does depends on which one it is.                                  *)
(***************************************************************************)
EXTENDS SessionModel

CONSTANTS
    None,        \* no run, no session, no state
    LineStates,  \* the states OutputClassifier gives to a line of output
    MaxStarts,   \* bound: processes launched for the session
    MaxLines,    \* bound: lines the monitors read
    MaxHooks     \* bound: hook events on the session

Runs == 1 .. MaxStarts

ASSUME BoundsAssumption == MaxStarts \in Nat /\ MaxLines \in Nat /\ MaxHooks \in Nat
ASSUME LineAssumption == LineStates \subseteq AttentionState /\ None \notin AttentionState
ASSUME NoneAssumption == None \notin Runs

Status  == [run : Runs, state : AttentionState, live : BOOLEAN,
            reason : {"none", "exited", "monitor_stopped"}]
Process == [phase : {"unborn", "running", "exited"},
            pipe : {"open", "closed"}, signal : {"none", "terminate", "kill"}]

\* Where a monitor is suspended.  "waiting": in asyncio.wait.  "applying",
\* "reporting", "marking": in an upsert.  "exiting": in finally, on the exit.
Waits == {"new", "starting", "waiting", "applying", "exiting", "reporting",
          "cancelling", "terminating", "killing", "marking"}

\* How it ended.  "dropped": by a cancellation at a suspension where nothing
\* handles it.  With an exception of its reader: "crashed", once the exit was
\* reported, or "unmarked", when it was stopped and its stop broke off.
Raised  == {"crashed", "unmarked"}
Ended   == {"done", "cancelled", "dropped"} \cup Raised
Monitor == [phase : {"unborn"} \cup Waits \cup Ended, eof : BOOLEAN, stalled : BOOLEAN,
            exitSeen : BOOLEAN, broken : BOOLEAN]

VARIABLES
    process,  \* the processes
    monitor,  \* their MonitorTasks
    session,  \* the registry's entry
    task,     \* _tasks: the run whose monitor is registered
    channel,  \* _action_handlers: the run whose stdin takes actions
    stopping, \* the run stop_session waits for
    next,     \* the run start_session will begin once it has waited
    starts, lines, hooks  \* how many so far

manager == <<task, channel, stopping, next>>
counts  == <<starts, lines, hooks>>
vars    == <<process, monitor, session, manager, counts>>

-----------------------------------------------------------------------------
(* The manager *)

Over(r)  == monitor[r].phase \in Ended
Exited(r) == process[r].phase = "exited"

\* has_live_session
HasLiveSession == (task # None /\ ~Over(task)) \/ channel # None

\* start_session after its stop_session: the monitor's task is created and the
\* control channel registered.
Create(r) ==
    /\ monitor' = [monitor EXCEPT ![r].phase = "new"]
    /\ task' = r /\ channel' = r
    /\ stopping' = None /\ next' = None

NothingMore == task' = None /\ channel' = None /\ stopping' = None /\ next' = None

\* Mutant of Unwound: the wait for the exit is shielded from the cancellation.
UnwoundButExit(phase) ==
    CASE phase \in {"waiting", "applying"} -> "cancelling"
      [] phase \in {"new", "starting"}     -> "dropped"
      [] OTHER                             -> phase

\* Where a cancellation takes a monitor: only the suspensions inside the try
\* are followed by the orderly stop of the process.
Unwound(phase) ==
    CASE phase \in {"waiting", "applying"}       -> "cancelling"
      [] phase = "reporting"                     -> "cancelled"
      [] phase \in {"new", "starting", "exiting"} -> "dropped"
      [] OTHER                                   -> phase

\* What next_line_task holds when monitor m is cancelled: an exception once the
\* output was finished, perhaps one the loop has not looked at yet, but none
\* while it handles a line.
MayBreak(m) ==
    CASE m.eof /\ Unwound(m.phase) = "cancelling" -> {TRUE}
      [] ~m.eof /\ (m.phase = "waiting" \/ (m.phase = "applying" /\ m.stalled)) -> BOOLEAN
      [] OTHER -> {m.broken}

\* Mutant of StopSession: the cancelled monitor is not awaited.
StopWithoutWait(r) ==
    IF r # None
    THEN /\ task' = r /\ channel' = r /\ stopping' = None /\ next' = None
         /\ monitor' = [q \in Runs |->
                IF q = r THEN [monitor[q] EXCEPT !.phase = "new"]
                ELSE IF q = task THEN [monitor[q] EXCEPT !.phase = Unwound(@)] ELSE monitor[q]]
    ELSE NothingMore /\ UNCHANGED monitor

\* stop_session, then the start of r if there is one.  A monitor that ended
\* with an exception raises it here, and r is not begun.
StopSession(r) ==
    IF task # None /\ ~Over(task)
    THEN /\ \E broken \in MayBreak(monitor[task]) :
              monitor' = [monitor EXCEPT ![task].phase = Unwound(@), ![task].broken = broken]
         /\ task' = None /\ channel' = None
         /\ stopping' = task /\ next' = r
    ELSE IF r = None \/ (task # None /\ monitor[task].phase \in Raised)
    THEN NothingMore /\ UNCHANGED monitor
    ELSE Create(r)

\* monitor_command: launch a process, then start_session.
Launch(r) ==
    /\ stopping = None /\ r = starts + 1
    /\ starts' = r
    /\ process' = [process EXCEPT ![r].phase = "running", ![r].pipe = "open"]
    /\ StopSession(r)
    /\ UNCHANGED <<session, lines, hooks>>

\* stop_session by stop_all_sessions, at the daemon's shutdown.
Stop ==
    /\ stopping = None /\ task # None
    /\ StopSession(None)
    /\ UNCHANGED <<process, session, counts>>

\* The awaited monitor is over.  An exception it ended with is raised here too.
StopReturns ==
    /\ stopping # None /\ Over(stopping)
    /\ IF next = None \/ monitor[stopping].phase \in Raised THEN NothingMore /\ UNCHANGED monitor ELSE Create(next)
    /\ UNCHANGED <<process, session, counts>>

-----------------------------------------------------------------------------
(* A monitor, MonitorTask.run *)

Goes(r, phase) == monitor' = [monitor EXCEPT ![r].phase = phase]

\* build_initial_status and its upsert.
Begin(r) ==
    /\ monitor[r].phase = "new"
    /\ session' = [run |-> r, state |-> "running", live |-> TRUE, reason |-> "none"]
    /\ Goes(r, "starting")
    /\ UNCHANGED <<process, manager, counts>>

\* An upsert returns.
Upserted(r) ==
    /\ \/ monitor[r].phase \in {"starting", "applying"} /\ Goes(r, "waiting")
       \/ monitor[r].phase = "reporting" /\ Goes(r, IF monitor[r].broken THEN "crashed" ELSE "done")
       \/ monitor[r].phase = "marking" /\ Goes(r, "cancelled")
    /\ UNCHANGED <<process, session, manager, counts>>

\* Mutant of ApplyState: an event's missing state is written too.
ApplyNoState(state) ==
    session' = IF session = None THEN None ELSE [session EXCEPT !.state = None]

\* _apply_event of a state change: nothing for a session that was removed.
ApplyState(state) ==
    session' = IF session = None THEN None ELSE [session EXCEPT !.state = state]

\* A line: classify_line gives it a state, or nothing when it is blank.
ReadLine(r) ==
    /\ monitor[r].phase = "waiting" /\ ~monitor[r].eof
    /\ process[r].pipe = "open" /\ lines < MaxLines
    /\ lines' = lines + 1
    /\ \/ /\ monitor' = [monitor EXCEPT ![r].stalled = FALSE]
          /\ UNCHANGED session
       \/ \E state \in LineStates :
             /\ ApplyState(state)
             /\ monitor' = [monitor EXCEPT ![r].stalled = FALSE, ![r].phase = "applying"]
    /\ UNCHANGED <<process, manager, starts, hooks>>

ReadEof(r) ==
    /\ monitor[r].phase = "waiting" /\ ~monitor[r].eof /\ process[r].pipe = "closed"
    /\ monitor' = [monitor EXCEPT ![r].eof = TRUE]
    /\ UNCHANGED <<process, session, manager, counts>>

\* The reader raises (a line over the stream's limit): the loop is left.
ReaderFails(r) ==
    /\ monitor[r].phase = "waiting" /\ ~monitor[r].eof /\ process[r].pipe = "open"
    /\ monitor' = [monitor EXCEPT ![r].phase = "exiting", ![r].broken = TRUE]
    /\ UNCHANGED <<process, session, manager, counts>>

\* asyncio.wait times out: no line for the stall timeout, no exit.
Stall(r) ==
    /\ monitor[r].phase = "waiting" /\ ~monitor[r].stalled /\ ~monitor[r].exitSeen
    /\ ApplyState("stalled")
    /\ monitor' = [monitor EXCEPT ![r].stalled = TRUE, ![r].phase = "applying"]
    /\ UNCHANGED <<process, manager, counts>>

\* process.wait() returns: while a child holds the pipe open, not in every
\* version of asyncio.
SeeExit(r) ==
    /\ monitor[r].phase \in {"waiting", "exiting", "terminating", "killing"}
    /\ ~monitor[r].exitSeen /\ Exited(r)
    /\ monitor' = [monitor EXCEPT ![r].exitSeen = TRUE]
    /\ UNCHANGED <<process, session, manager, counts>>

\* The loop ends when the output is finished and the exit was seen, not before.
LeaveLoop(r) ==
    /\ monitor[r].phase = "waiting" /\ monitor[r].eof /\ monitor[r].exitSeen
    /\ Goes(r, "exiting")
    /\ UNCHANGED <<process, session, manager, counts>>

\* Mutant of ReportExit: the exit is not reported.
ReportNoExit(r) ==
    /\ monitor[r].phase = "exiting" /\ monitor[r].exitSeen
    /\ Goes(r, "reporting")
    /\ UNCHANGED <<process, session, manager, counts>>

\* finally: the exit code, chosen here, makes the session completed or failed,
\* and inactive.
ReportExit(r) ==
    /\ monitor[r].phase = "exiting" /\ monitor[r].exitSeen
    /\ \E state \in {"completed", "failed"} :
          session' = IF session = None THEN None
                     ELSE [session EXCEPT !.state = state, !.live = FALSE, !.reason = "exited"]
    /\ Goes(r, "reporting")
    /\ UNCHANGED <<process, manager, counts>>

\* The signal reaches a process that still runs.
Signalled(r, signal) ==
    process' = IF Exited(r) THEN process ELSE [process EXCEPT ![r].signal = signal]

\* _stop_process_after_cancel: terminate, and wait for the exit.
Terminate(r) ==
    /\ monitor[r].phase = "cancelling"
    /\ Signalled(r, "terminate")
    /\ Goes(r, "terminating")
    /\ UNCHANGED <<session, manager, counts>>

\* Mutant of TerminateTimeout: no kill follows.
TerminateTimeoutGivesUp(r) ==
    /\ monitor[r].phase = "terminating" /\ ~monitor[r].exitSeen
    /\ Goes(r, "killing")
    /\ UNCHANGED <<process, session, manager, counts>>

TerminateTimeout(r) ==
    /\ monitor[r].phase = "terminating" /\ ~monitor[r].exitSeen
    /\ Signalled(r, "kill")
    /\ Goes(r, "killing")
    /\ UNCHANGED <<session, manager, counts>>

\* Mutants of Stopped: the session stays live; its exit is reported; a hidden
\* session comes back.
StoppedLive(s, r) == IF s = None THEN None ELSE [s EXCEPT !.reason = "monitor_stopped"]
StoppedAsExit(s, r) == IF s = None THEN None
                       ELSE [s EXCEPT !.live = FALSE, !.state = "completed", !.reason = "exited"]
StoppedAgain(s, r) == [run |-> r, state |-> IF s = None THEN "running" ELSE s.state,
                       live |-> FALSE, reason |-> "monitor_stopped"]

\* The status _mark_monitor_stopped writes over s.
Stopped(s, r) == IF s = None THEN None
                 ELSE [s EXCEPT !.live = FALSE, !.reason = "monitor_stopped"]

\* The exit is seen, or the wait after the kill times out.
ProcessAwaited(r) ==
    \/ monitor[r].phase = "terminating" /\ monitor[r].exitSeen
    \/ monitor[r].phase = "killing"

MarkStopped(r) ==
    /\ ProcessAwaited(r) /\ ~monitor[r].broken
    /\ session' = Stopped(session, r)
    /\ Goes(r, "marking")
    /\ UNCHANGED <<process, manager, counts>>

\* next_line_task is awaited first: an exception that it holds, the end of the
\* output too, breaks off the stop, and the session is not marked.
StopBreaksOff(r) ==
    /\ ProcessAwaited(r) /\ monitor[r].broken
    /\ Goes(r, "unmarked")
    /\ UNCHANGED <<process, session, manager, counts>>

-----------------------------------------------------------------------------
(* The process, and the other writers of the session *)

\* The process ends.  A kill cannot be ignored.
Exit(r) ==
    /\ process[r].phase = "running"
    /\ process' = [process EXCEPT ![r].phase = "exited"]
    /\ UNCHANGED <<monitor, session, manager, counts>>

\* The last holder of the pipe closes it: the process or a child it left.
ClosePipe(r) ==
    /\ process[r].phase # "unborn" /\ process[r].pipe = "open"
    /\ process' = [process EXCEPT ![r].pipe = "closed"]
    /\ UNCHANGED <<monitor, session, manager, counts>>

\* A hook event for the session, status_for_hook_event: it stays live or not.
Hook ==
    /\ session # None /\ hooks < MaxHooks
    /\ hooks' = hooks + 1
    /\ \E state \in LineStates : session' = [session EXCEPT !.state = state, !.reason = "none"]
    /\ UNCHANGED <<process, monitor, manager, starts, lines>>

\* hide_pet, accepted when has_live_session is false.
Hide ==
    /\ session # None /\ ~HasLiveSession
    /\ session' = None
    /\ UNCHANGED <<process, monitor, manager, counts>>

-----------------------------------------------------------------------------
Init ==
    /\ process = [r \in Runs |-> [phase |-> "unborn", pipe |-> "closed", signal |-> "none"]]
    /\ monitor = [r \in Runs |-> [phase |-> "unborn", eof |-> FALSE, stalled |-> FALSE,
                                  exitSeen |-> FALSE, broken |-> FALSE]]
    /\ session = None /\ task = None /\ channel = None /\ stopping = None /\ next = None
    /\ starts = 0 /\ lines = 0 /\ hooks = 0

\* What a monitor does of itself once it may.
Proceed(r) ==
    \/ Begin(r) \/ Upserted(r) \/ ReadEof(r) \/ LeaveLoop(r) \/ ReportExit(r)
    \/ Terminate(r) \/ TerminateTimeout(r) \/ MarkStopped(r) \/ StopBreaksOff(r)

Next ==
    \/ Stop \/ StopReturns \/ Hook \/ Hide
    \/ \E r \in Runs : \/ Launch(r) \/ Proceed(r) \/ SeeExit(r)
                       \/ ReadLine(r) \/ ReaderFails(r) \/ Stall(r)
                       \/ Exit(r) \/ ClosePipe(r)

Spec == Init /\ [][Next]_vars

\* The event loop runs what is ready and time-outs expire.  A killed process
\* ends; the exit of a process whose pipe is closed is seen.  Nothing else is
\* promised of a process: it may run, write, or keep its pipe, for ever.
Fairness ==
    /\ WF_vars(StopReturns)
    /\ \A r \in Runs :
          /\ WF_vars(Proceed(r))
          /\ WF_vars(SeeExit(r) /\ process[r].pipe = "closed")
          /\ WF_vars(Exit(r) /\ process[r].signal = "kill")

FairSpec == Spec /\ Fairness

-----------------------------------------------------------------------------
(* Properties *)

TypeOK ==
    /\ process \in [Runs -> Process]
    /\ monitor \in [Runs -> Monitor]
    /\ session \in Status \cup {None}
    /\ task \in Runs \cup {None} /\ channel \in Runs \cup {None}
    /\ stopping \in Runs \cup {None} /\ next \in Runs \cup {None}
    /\ starts \in 0 .. MaxStarts /\ lines \in 0 .. MaxLines /\ hooks \in 0 .. MaxHooks

\* At most one monitor of the session is under way: start_session begins a new
\* one only after the old one has said its last word.
OneMonitor ==
    \A r, q \in Runs : monitor[r].phase \in Waits /\ monitor[q].phase \in Waits => r = q

\* A live session has a monitor that will end it, or had one that was stopped:
\* at its first upsert or in its wait for the exit, where nothing handles it, or
\* with a reader that had nothing more to read, whose stop breaks off.  A monitor
\* that is left to itself always leaves its session inactive.
LiveIsWatched ==
    session # None /\ session.live =>
        \/ monitor[session.run].phase \in Waits
        \/ monitor[session.run].phase \in {"dropped", "unmarked"} /\ task # session.run

\* A process stopped by the daemon is never reported as having completed.
StopIsNotCompletion ==
    session # None /\ session.reason = "exited" => process[session.run].signal = "none"

\* A session hidden while its monitor winds down comes back only with a new run.
HiddenStaysHidden ==
    [][session = None /\ session' # None => monitor[session'.run].phase = "new"]_vars

\* stop_session returns, whatever its monitor was waiting for.
StopEnds == stopping # None ~> stopping = None

\* The orderly stop of a monitor ends its process, by a kill at last.
StopEndsProcess == \A r \in Runs : monitor[r].phase = "cancelling" ~> Exited(r)

\* The end of a process whose output is closed ends its monitor, and leaves the
\* session of that run inactive unless a stop came first and was not handled.
ExitIsReported ==
    \A r \in Runs : (monitor[r].phase = "waiting" /\ Exited(r) /\ process[r].pipe = "closed")
        ~> (/\ Over(r)
            /\ \/ session = None \/ session.run # r \/ ~session.live
               \/ monitor[r].phase \in {"dropped", "unmarked"})

\* An inactive session whose monitor is over can be dismissed.
InactiveIsDismissable ==
    session # None /\ ~session.live /\ Over(session.run) /\ stopping = None => ~HasLiveSession

=============================================================================
