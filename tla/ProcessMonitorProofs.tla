------------------------- MODULE ProcessMonitorProofs -------------------------
(***************************************************************************)
(* Invariants of ProcessMonitor for every number of processes, lines and   *)
(* hook events.  All of them follow from one: the manager knows of the one *)
(* monitor that is under way, and the session is of its run.               *)
(***************************************************************************)
EXTENDS ProcessMonitor, TLAPS

Phase(r) == monitor[r].phase

\* The manager holds the monitor that is under way, or waits for it; what it
\* will begin then has never run.
Held ==
    /\ \A r \in Runs : Phase(r) \in Waits => r \in {task, stopping}
    /\ stopping # None => task = None
    /\ stopping = None => next = None
    /\ next # None => Phase(next) = "unborn" /\ next <= starts
    /\ \A r \in Runs : r > starts => Phase(r) = "unborn"

\* A monitor that is being stopped, or was.
StopPhases == {"cancelling", "terminating", "killing", "marking", "dropped", "cancelled", "unmarked"}

\* The manager gives up a monitor in the step that cancels it.
Registered == task # None => Phase(task) \notin StopPhases

\* The phases of the monitor of a live session.
LivePhases == (Waits \ {"reporting", "marking"}) \cup {"dropped", "unmarked"}

\* The session is of a run that has begun, and of the one under way that has;
\* it is live only while that has not said its last word.
Followed ==
    session # None =>
        /\ Phase(session.run) \notin {"unborn", "new"}
        /\ \A r \in Runs : Phase(r) \in Waits \ {"new"} => r = session.run
        /\ session.live => Phase(session.run) \in LivePhases

\* Only the orderly stop signals a process, and it never comes to report the
\* exit; nor does a monitor that has reported it come to stop the process.
Signals ==
    /\ \A r \in Runs : process[r].signal # "none" =>
          Phase(r) \in {"terminating", "killing", "marking", "cancelled", "unmarked"}
    /\ session # None /\ session.reason = "exited" =>
          /\ Phase(session.run) \in {"reporting"} \cup Ended
          /\ process[session.run].signal = "none"

IInv == TypeOK /\ Held /\ Registered /\ Followed /\ Signals

-----------------------------------------------------------------------------
(* Operators *)

\* A cancellation leaves a monitor in a phase of its own.
LEMMA UnwoundType == \A phase \in {"unborn"} \cup Waits \cup Ended :
                         Unwound(phase) \in {"unborn"} \cup Waits \cup Ended
BY DEF Unwound, Waits, Ended, Raised

LEMMA UnwoundWaits == \A phase \in {"unborn"} \cup Waits \cup Ended :
                          /\ Unwound(phase) = "unborn" <=> phase = "unborn"
                          /\ Unwound(phase) \in Waits => phase \in Waits
BY DEF Unwound, Waits, Ended, Raised

-----------------------------------------------------------------------------
(* Types *)

LEMMA InitTypeOK == Init => TypeOK
<1> SUFFICES ASSUME Init PROVE TypeOK
  OBVIOUS
<1>1. process \in [Runs -> Process]
  BY DEF Init, Process
<1>2. monitor \in [Runs -> Monitor]
  BY DEF Init, Monitor
<1>3. QED
  BY <1>1, <1>2, BoundsAssumption DEF Init, TypeOK

\* One monitor's next record, whatever its phase.
LEMMA PhaseType ==
    ASSUME monitor \in [Runs -> Monitor], NEW r \in Runs,
           NEW phase \in {"unborn"} \cup Waits \cup Ended
    PROVE  [monitor EXCEPT ![r].phase = phase] \in [Runs -> Monitor]
BY DEF Monitor

LEMMA StalledType ==
    ASSUME monitor \in [Runs -> Monitor], NEW r \in Runs
    PROVE  /\ [monitor EXCEPT ![r].stalled = FALSE] \in [Runs -> Monitor]
           /\ \A b \in BOOLEAN : [monitor EXCEPT ![r].stalled = b, ![r].phase = "applying"]
                                    \in [Runs -> Monitor]
<1>1. monitor[r] \in Monitor /\ "applying" \in Waits
  BY DEF Waits
<1>2. \A b \in BOOLEAN : [monitor[r] EXCEPT !.stalled = b] \in Monitor
  BY <1>1 DEF Monitor
<1>3. \A b \in BOOLEAN : [[monitor[r] EXCEPT !.stalled = b] EXCEPT !.phase = "applying"] \in Monitor
  BY <1>1, <1>2 DEF Monitor
<1>4. QED
  BY <1>2, <1>3

LEMMA StopSessionType ==
    ASSUME TypeOK, NEW r \in Runs \cup {None}, StopSession(r)
    PROVE  /\ monitor' \in [Runs -> Monitor]
           /\ task' \in Runs \cup {None} /\ channel' \in Runs \cup {None}
           /\ stopping' \in Runs \cup {None} /\ next' \in Runs \cup {None}
<1>1. CASE task # None /\ ~Over(task)
  <2>1. task \in Runs
    BY <1>1 DEF TypeOK
  <2>2. monitor[task].phase \in {"unborn"} \cup Waits \cup Ended
    BY <2>1 DEF TypeOK, Monitor
  <2>3. Unwound(monitor[task].phase) \in {"unborn"} \cup Waits \cup Ended
    BY <2>2, UnwoundType
  <2>4. PICK b \in MayBreak(monitor[task]) :
            monitor' = [monitor EXCEPT ![task].phase = Unwound(@), ![task].broken = b]
    BY <1>1 DEF StopSession
  <2>5. monitor' \in [Runs -> Monitor]
    <3>1. monitor[task] \in Monitor /\ b \in BOOLEAN
      BY <2>1, <2>4 DEF TypeOK, MayBreak, Monitor
    <3>2. [monitor[task] EXCEPT !.phase = Unwound(monitor[task].phase), !.broken = b] \in Monitor
      BY <2>3, <3>1 DEF Monitor
    <3>3. monitor' = [monitor EXCEPT ![task] =
                         [monitor[task] EXCEPT !.phase = Unwound(monitor[task].phase), !.broken = b]]
      BY <2>1, <2>4 DEF TypeOK
    <3>4. QED
      BY <2>1, <3>2, <3>3 DEF TypeOK
  <2>6. QED
    BY <1>1, <2>1, <2>5 DEF StopSession
<1>2. CASE ~(task # None /\ ~Over(task)) /\ (r = None \/ (task # None /\ monitor[task].phase \in Raised))
  BY <1>2 DEF StopSession, NothingMore, TypeOK
<1>3. CASE ~(task # None /\ ~Over(task)) /\ ~(r = None \/ (task # None /\ monitor[task].phase \in Raised))
  BY <1>3, PhaseType DEF StopSession, Create, TypeOK, Waits
<1>4. QED
  BY <1>1, <1>2, <1>3

LEMMA TypeManager == ASSUME TypeOK, Stop \/ StopReturns \/ (\E r \in Runs : Launch(r)) PROVE TypeOK'
<1>1. CASE Stop
  BY <1>1, StopSessionType DEF Stop, TypeOK, counts
<1>2. CASE StopReturns
  <2>1. CASE next = None \/ monitor[stopping].phase \in Raised
    BY <1>2, <2>1 DEF StopReturns, NothingMore, TypeOK, counts
  <2>2. CASE ~(next = None \/ monitor[stopping].phase \in Raised)
    <3>1. next \in Runs /\ Create(next)
      BY <1>2, <2>2 DEF StopReturns, TypeOK
    <3>2. monitor' \in [Runs -> Monitor]
      BY <3>1, PhaseType DEF Create, TypeOK, Waits
    <3>3. QED
      BY <1>2, <3>1, <3>2 DEF StopReturns, Create, TypeOK, counts
  <2>3. QED
    BY <2>1, <2>2
<1>3. ASSUME NEW r \in Runs, Launch(r) PROVE TypeOK'
  <2>1. process' \in [Runs -> Process]
    BY <1>3 DEF Launch, TypeOK, Process
  <2>2. starts' \in 0 .. MaxStarts
    BY <1>3, BoundsAssumption DEF Launch, Runs
  <2>3. QED
    BY <1>3, <2>1, <2>2, StopSessionType DEF Launch, TypeOK
<1>4. QED
  BY <1>1, <1>2, <1>3

LEMMA TypeSession == ASSUME TypeOK, Hook \/ Hide PROVE TypeOK'
<1>1. CASE Hook
  <2>1. session' \in Status \cup {None}
    BY <1>1, LineAssumption DEF Hook, TypeOK, Status
  <2>2. hooks' \in 0 .. MaxHooks
    <3>1. hooks \in 0 .. MaxHooks /\ hooks < MaxHooks /\ hooks' = hooks + 1
      BY <1>1 DEF Hook, TypeOK
    <3>2. QED
      BY <3>1, BoundsAssumption
  <2>3. QED
    BY <1>1, <2>1, <2>2 DEF Hook, TypeOK, manager
<1>2. CASE Hide
  BY <1>2 DEF Hide, TypeOK, manager, counts
<1>3. QED
  BY <1>1, <1>2

LEMMA ApplyStateType ==
    ASSUME TypeOK, NEW state \in AttentionState, ApplyState(state)
    PROVE  session' \in Status \cup {None}
BY DEF ApplyState, TypeOK, Status

LEMMA TypeProceed == ASSUME TypeOK, NEW r \in Runs, Proceed(r) PROVE TypeOK'
<1> USE DEF TypeOK, Goes, manager, counts
<1>1. CASE Begin(r)
  BY <1>1, PhaseType DEF Begin, Waits, Status, AttentionState
<1>2. CASE Upserted(r)
  <2>1. PICK phase \in Waits \cup Ended : monitor' = [monitor EXCEPT ![r].phase = phase]
    BY <1>2 DEF Upserted, Waits, Ended, Raised
  <2>2. monitor' \in [Runs -> Monitor]
    BY <2>1, PhaseType
  <2>3. UNCHANGED <<process, session, manager, counts>>
    BY <1>2 DEF Upserted
  <2>4. QED
    BY <2>2, <2>3
<1>3. CASE ReadEof(r)
  <2>1. monitor' \in [Runs -> Monitor]
    BY <1>3 DEF ReadEof, Monitor
  <2>2. QED
    BY <1>3, <2>1 DEF ReadEof
<1>4. CASE LeaveLoop(r)
  BY <1>4, PhaseType DEF LeaveLoop, Waits
<1>5. CASE ReportExit(r)
  <2>1. session' \in Status \cup {None}
    BY <1>5 DEF ReportExit, Status, AttentionState
  <2>2. QED
    BY <1>5, <2>1, PhaseType DEF ReportExit, Waits
<1>6. CASE Terminate(r)
  <2>1. process' \in [Runs -> Process]
    BY <1>6 DEF Terminate, Signalled, Process
  <2>2. QED
    BY <1>6, <2>1, PhaseType DEF Terminate, Waits
<1>7. CASE TerminateTimeout(r)
  <2>1. process' \in [Runs -> Process]
    BY <1>7 DEF TerminateTimeout, Signalled, Process
  <2>2. QED
    BY <1>7, <2>1, PhaseType DEF TerminateTimeout, Waits
<1>8. CASE MarkStopped(r)
  <2>1. session' \in Status \cup {None}
    BY <1>8 DEF MarkStopped, Stopped, Status
  <2>2. QED
    BY <1>8, <2>1, PhaseType DEF MarkStopped, Waits
<1>9. CASE StopBreaksOff(r)
  BY <1>9, PhaseType DEF StopBreaksOff, Ended, Raised
<1>10. QED
  BY <1>1, <1>2, <1>3, <1>4, <1>5, <1>6, <1>7, <1>8, <1>9 DEF Proceed

LEMMA TypeProcess ==
    ASSUME TypeOK, NEW r \in Runs,
           SeeExit(r) \/ ReadLine(r) \/ ReaderFails(r) \/ Stall(r) \/ Exit(r) \/ ClosePipe(r)
    PROVE  TypeOK'
<1>1. CASE SeeExit(r)
  BY <1>1 DEF SeeExit, TypeOK, Monitor, manager, counts
<1>2. CASE ReadLine(r)
  <2>1. monitor' \in [Runs -> Monitor]
    <3>1. \/ monitor' = [monitor EXCEPT ![r].stalled = FALSE]
          \/ monitor' = [monitor EXCEPT ![r].stalled = FALSE, ![r].phase = "applying"]
      BY <1>2 DEF ReadLine
    <3>2. QED
      BY <3>1, StalledType DEF TypeOK
  <2>2. session' \in Status \cup {None}
    BY <1>2, LineAssumption, ApplyStateType DEF ReadLine, TypeOK
  <2>3. lines' \in 0 .. MaxLines
    <3>1. lines \in 0 .. MaxLines /\ lines < MaxLines /\ lines' = lines + 1
      BY <1>2 DEF ReadLine, TypeOK
    <3>2. QED
      BY <3>1, BoundsAssumption
  <2>4. QED
    BY <1>2, <2>1, <2>2, <2>3 DEF ReadLine, TypeOK, manager
<1>3. CASE ReaderFails(r)
  BY <1>3 DEF ReaderFails, TypeOK, Monitor, Waits, manager, counts
<1>4. CASE Stall(r)
  <2>1. monitor' \in [Runs -> Monitor]
    BY <1>4, StalledType DEF Stall, TypeOK
  <2>2. session' \in Status \cup {None}
    BY <1>4, ApplyStateType DEF Stall, AttentionState
  <2>3. QED
    BY <1>4, <2>1, <2>2 DEF Stall, TypeOK, manager, counts
<1>5. CASE Exit(r)
  <2>1. process' \in [Runs -> Process]
    BY <1>5 DEF Exit, TypeOK, Process
  <2>2. QED
    BY <1>5, <2>1 DEF Exit, TypeOK, manager, counts
<1>6. CASE ClosePipe(r)
  <2>1. process' \in [Runs -> Process]
    BY <1>6 DEF ClosePipe, TypeOK, Process
  <2>2. QED
    BY <1>6, <2>1 DEF ClosePipe, TypeOK, manager, counts
<1>7. QED
  BY <1>1, <1>2, <1>3, <1>4, <1>5, <1>6

LEMMA NextTypeOK == TypeOK /\ [Next]_vars => TypeOK'
<1> SUFFICES ASSUME TypeOK, [Next]_vars PROVE TypeOK'
  OBVIOUS
<1>1. CASE Next
  BY <1>1, TypeManager, TypeSession, TypeProceed, TypeProcess DEF Next
<1>2. CASE UNCHANGED vars
  BY <1>2 DEF vars, manager, counts, TypeOK
<1>3. QED
  BY <1>1, <1>2

\* Processes, monitors and the session stay what they are typed to be.
THEOREM TypeCorrect == Spec => []TypeOK
<1>1. QED
  BY InitTypeOK, NextTypeOK, PTL DEF Spec

-----------------------------------------------------------------------------
(* What the steps do to the phases *)

\* A monitor's own step changes the phase of that monitor alone.
LEMMA OthersKeepPhase ==
    ASSUME TypeOK, NEW r \in Runs,
           \/ Proceed(r) \/ SeeExit(r) \/ ReadLine(r) \/ ReaderFails(r) \/ Stall(r)
           \/ Exit(r) \/ ClosePipe(r)
    PROVE  \A q \in Runs \ {r} : Phase(q)' = Phase(q)
BY DEF TypeOK, Phase, Goes, Proceed, Begin, Upserted, ReadEof, LeaveLoop, ReportExit, Terminate,
       TerminateTimeout, MarkStopped, StopBreaksOff, SeeExit, ReadLine, ReaderFails, Stall, Exit, ClosePipe

\* It is a step of a monitor that is under way, or leaves its phase alone.
LEMMA OwnPhase ==
    ASSUME TypeOK, NEW r \in Runs,
           \/ Proceed(r) \/ SeeExit(r) \/ ReadLine(r) \/ ReaderFails(r) \/ Stall(r)
           \/ Exit(r) \/ ClosePipe(r)
    PROVE  /\ Phase(r)' = Phase(r) \/ Phase(r) \in Waits
           /\ UNCHANGED <<task, channel, stopping, next, starts>>
<1>1. CASE Proceed(r)
  BY <1>1 DEF Phase, Goes, Proceed, Begin, Upserted, ReadEof, LeaveLoop, ReportExit, Terminate,
              TerminateTimeout, MarkStopped, StopBreaksOff, ProcessAwaited, Waits, manager, counts
<1>2. CASE SeeExit(r) \/ ReadLine(r) \/ ReaderFails(r) \/ Stall(r) \/ Exit(r) \/ ClosePipe(r)
  BY <1>2 DEF TypeOK, Phase, SeeExit, ReadLine, ReaderFails, Stall, Exit, ClosePipe, Waits, manager, counts
<1>3. QED
  BY <1>1, <1>2

\* What stop_session does before the start of r, by the three ways it goes.
LEMMA StopSessionCases ==
    ASSUME TypeOK, NEW r \in Runs \cup {None}, StopSession(r)
    PROVE  \/ /\ task \in Runs /\ ~Over(task)
              /\ monitor'[task].phase = Unwound(Phase(task))
              /\ \A q \in Runs \ {task} : Phase(q)' = Phase(q)
              /\ task' = None /\ stopping' = task /\ next' = r
           \/ /\ task # None => Over(task)
              /\ task' = None /\ stopping' = None /\ next' = None
              /\ \A q \in Runs : Phase(q)' = Phase(q)
           \/ /\ task # None => Over(task)
              /\ r \in Runs /\ Phase(r)' = "new"
              /\ \A q \in Runs \ {r} : Phase(q)' = Phase(q)
              /\ task' = r /\ stopping' = None /\ next' = None
<1>1. CASE task # None /\ ~Over(task)
  <2>1. task \in Runs /\ task' = None /\ stopping' = task /\ next' = r
    BY <1>1 DEF StopSession, TypeOK
  <2>2. PICK b \in MayBreak(monitor[task]) :
            monitor' = [monitor EXCEPT ![task].phase = Unwound(@), ![task].broken = b]
    BY <1>1 DEF StopSession
  <2>3. monitor'[task].phase = Unwound(Phase(task)) /\ \A q \in Runs \ {task} : Phase(q)' = Phase(q)
    BY <2>1, <2>2 DEF TypeOK, Phase, Monitor
  <2>4. QED
    BY <1>1, <2>1, <2>3
<1>2. CASE ~(task # None /\ ~Over(task)) /\ (r = None \/ (task # None /\ monitor[task].phase \in Raised))
  BY <1>2 DEF StopSession, NothingMore, Phase
<1>3. CASE ~(task # None /\ ~Over(task)) /\ ~(r = None \/ (task # None /\ monitor[task].phase \in Raised))
  BY <1>3 DEF StopSession, Create, TypeOK, Phase, Monitor
<1>4. QED
  BY <1>1, <1>2, <1>3

\* And once it has waited.
LEMMA StopReturnsCases ==
    ASSUME TypeOK, StopReturns
    PROVE  /\ stopping \in Runs /\ Over(stopping)
           /\ \/ /\ task' = None /\ stopping' = None /\ next' = None
                 /\ \A q \in Runs : Phase(q)' = Phase(q)
              \/ /\ next \in Runs /\ monitor'[next].phase = "new"
                 /\ \A q \in Runs \ {next} : Phase(q)' = Phase(q)
                 /\ task' = next /\ stopping' = None /\ next' = None
<1>1. stopping \in Runs /\ Over(stopping)
  BY DEF StopReturns, TypeOK
<1>2. CASE next = None \/ monitor[stopping].phase \in Raised
  BY <1>1, <1>2 DEF StopReturns, NothingMore, Phase
<1>3. CASE ~(next = None \/ monitor[stopping].phase \in Raised)
  BY <1>1, <1>3 DEF StopReturns, Create, TypeOK, Phase, Monitor
<1>4. QED
  BY <1>1, <1>2, <1>3

LEMMA PhaseIsOne == ASSUME TypeOK PROVE \A r \in Runs : monitor[r].phase \in {"unborn"} \cup Waits \cup Ended
BY DEF TypeOK, Monitor

LEMMA NewWaits == "new" \in Waits /\ "unborn" \notin Waits /\ "new" # "unborn"
BY DEF Waits

\* An ended monitor waits for nothing.
LEMMA OverWaitsNot == \A r \in Runs : Over(r) => Phase(r) \notin Waits
BY DEF Over, Phase, Ended, Raised, Waits

-----------------------------------------------------------------------------
(* Held *)

LEMMA HeldStep == ASSUME TypeOK, Held, [Next]_vars PROVE Held'
<1>1. CASE Stop
  <2>1. stopping = None /\ next = None /\ starts' = starts /\ StopSession(None)
    BY <1>1 DEF Stop, Held, counts
  <2>2. CASE task # None => Over(task)
    <3>1. task' = None /\ stopping' = None /\ next' = None /\ \A q \in Runs : Phase(q)' = Phase(q)
      BY <2>1, <2>2, StopSessionCases, NoneAssumption
    <3>2. QED
      BY <2>1, <2>2, <3>1, OverWaitsNot, NoneAssumption DEF Held, Phase, TypeOK
  <2>3. CASE ~(task # None => Over(task))
    <3>1. /\ task \in Runs /\ monitor'[task].phase = Unwound(Phase(task))
          /\ \A q \in Runs \ {task} : Phase(q)' = Phase(q)
          /\ task' = None /\ stopping' = task /\ next' = None
      BY <2>1, <2>3, StopSessionCases
    <3>2. QED
      BY <2>1, <3>1, UnwoundWaits, PhaseIsOne, NoneAssumption DEF Held, Phase, TypeOK
  <2>4. QED
    BY <2>2, <2>3
<1>2. CASE StopReturns
  <2>1. starts' = starts
    BY <1>2 DEF StopReturns, counts
  <2>2. stopping \in Runs /\ Over(stopping) /\ task = None /\ \A q \in Runs : Phase(q) \notin Waits
    BY <1>2, StopReturnsCases, OverWaitsNot, NoneAssumption DEF Held
  <2>3. CASE next = None \/ monitor[stopping].phase \in Raised
    <3>1. task' = None /\ stopping' = None /\ next' = None /\ \A q \in Runs : Phase(q)' = Phase(q)
      BY <1>2, <2>3 DEF StopReturns, NothingMore, Phase
    <3>2. QED
      BY <2>1, <2>2, <3>1 DEF Held, Phase
  <2>4. CASE ~(next = None \/ monitor[stopping].phase \in Raised)
    <3>1. /\ next \in Runs /\ monitor'[next].phase = "new"
          /\ \A q \in Runs \ {next} : Phase(q)' = Phase(q)
          /\ task' = next /\ stopping' = None /\ next' = None
      BY <1>2, <2>4, StopReturnsCases, NoneAssumption DEF StopReturns, Create
    <3>2. ~(next > starts)
      BY <2>4, <3>1 DEF Held, TypeOK, Runs
    <3>3. QED
      BY <2>1, <2>2, <3>1, <3>2 DEF Held, Phase
  <2>5. QED
    BY <2>3, <2>4
<1>3. CASE Hook \/ Hide
  BY <1>3 DEF Hook, Hide, manager, counts, Held, Phase
<1>4. ASSUME NEW r \in Runs, Launch(r) PROVE Held'
  <2>1. /\ stopping = None /\ next = None /\ r = starts + 1 /\ starts' = r /\ starts \in Nat
        /\ StopSession(r)
    BY <1>4, BoundsAssumption DEF Launch, Held, TypeOK
  <2>2. Phase(r) = "unborn" /\ r > starts /\ \A q \in Runs : q > r => q > starts /\ q # r
    BY <2>1 DEF Held, Runs
  <2>3. QED
    BY <2>1, <2>2, StopSessionCases, OverWaitsNot, NewWaits, UnwoundWaits, PhaseIsOne, NoneAssumption DEF Held, Phase, TypeOK
<1>5. ASSUME NEW r \in Runs,
             \/ Proceed(r) \/ SeeExit(r) \/ ReadLine(r) \/ ReaderFails(r) \/ Stall(r)
             \/ Exit(r) \/ ClosePipe(r)
      PROVE  Held'
  <2>1. \A q \in Runs : Phase(q)' = Phase(q) \/ (q = r /\ Phase(q) \in Waits)
    BY <1>5, OthersKeepPhase, OwnPhase
  <2>2. "unborn" \notin Waits
    BY DEF Waits
  <2>3. UNCHANGED <<task, stopping, next, starts>>
    BY <1>5, OwnPhase
  <2>4. QED
    BY <2>1, <2>2, <2>3 DEF Held, TypeOK
<1>6. CASE UNCHANGED vars
  BY <1>6 DEF vars, manager, counts, Held, Phase
<1>7. QED
  BY <1>1, <1>2, <1>3, <1>4, <1>5, <1>6 DEF Next

\* A monitor of its own accord never comes to be stopped.
LEMMA RegisteredStep == ASSUME TypeOK, Held, Registered, [Next]_vars PROVE Registered'
<1> USE DEF Registered, Phase
<1>1. CASE Stop
  <2>1. task' = None
    BY <1>1, StopSessionCases DEF Stop
  <2>2. QED
    BY <2>1
<1>2. CASE StopReturns
  BY <1>2, StopReturnsCases DEF StopPhases
<1>3. CASE Hook \/ Hide
  BY <1>3 DEF Hook, Hide, manager, counts
<1>4. ASSUME NEW r \in Runs, Launch(r) PROVE Registered'
  <2>1. StopSession(r)
    BY <1>4 DEF Launch
  <2>2. QED
    BY <2>1, StopSessionCases DEF StopPhases
<1>5. ASSUME NEW r \in Runs,
             \/ Proceed(r) \/ SeeExit(r) \/ ReadLine(r) \/ ReaderFails(r) \/ Stall(r)
             \/ Exit(r) \/ ClosePipe(r)
      PROVE  Registered'
  <2>1. \A q \in Runs \ {r} : Phase(q)' = Phase(q)
    BY <1>5, OthersKeepPhase
  <2>2. task' = task
    BY <1>5, OwnPhase
  <2>3. monitor[r].phase \notin StopPhases => monitor'[r].phase \notin StopPhases
    <3>1. CASE Proceed(r)
      BY <3>1 DEF TypeOK, Monitor, Goes, Proceed, Begin, Upserted, ReadEof, LeaveLoop, ReportExit, Terminate,
                  TerminateTimeout, MarkStopped, StopBreaksOff, ProcessAwaited, StopPhases
    <3>2. CASE SeeExit(r) \/ ReadLine(r) \/ ReaderFails(r) \/ Stall(r) \/ Exit(r) \/ ClosePipe(r)
      BY <3>2 DEF TypeOK, Monitor, SeeExit, ReadLine, ReaderFails, Stall, Exit, ClosePipe, StopPhases
    <3>3. QED
      BY <1>5, <3>1, <3>2
  <2>4. QED
    BY <2>1, <2>2, <2>3 DEF TypeOK
<1>6. CASE UNCHANGED vars
  BY <1>6 DEF vars, manager
<1>7. QED
  BY <1>1, <1>2, <1>3, <1>4, <1>5, <1>6 DEF Next

LEMMA InitIInv == Init => IInv
<1> SUFFICES ASSUME Init PROVE IInv
  OBVIOUS
<1>1. TypeOK
  BY InitTypeOK
<1>2. Held
  BY NoneAssumption DEF Init, Held, Phase, Waits
<1>3. Followed
  BY DEF Init, Followed
<1>4. Signals
  BY DEF Init, Signals
<1>5. Registered
  BY DEF Init, Registered
<1>6. QED
  BY <1>1, <1>2, <1>3, <1>4, <1>5 DEF IInv

-----------------------------------------------------------------------------
(* Followed and Signals, by the kinds of steps *)

ManagerStep == Stop \/ StopReturns \/ \E r \in Runs : Launch(r)

\* The manager cancels a monitor or begins one that never ran, and leaves the
\* session and the signals alone.
LEMMA ManagerPhases ==
    ASSUME TypeOK, Held, ManagerStep
    PROVE  /\ session' = session
           /\ \A q \in Runs : process'[q].signal = process[q].signal
           /\ \A q \in Runs : \/ Phase(q)' = Phase(q)
                              \/ Phase(q) \notin Ended /\ Phase(q)' = Unwound(Phase(q))
                              \/ Phase(q) = "unborn" /\ Phase(q)' = "new"
<1>1. CASE Stop
  <2>1. StopSession(None) /\ session' = session /\ process' = process
    BY <1>1 DEF Stop
  <2>2. QED
    BY <2>1, StopSessionCases, NoneAssumption DEF Over, Phase
<1>2. CASE StopReturns
  <2>1. session' = session /\ process' = process
    BY <1>2 DEF StopReturns
  <2>2. next \in Runs => Phase(next) = "unborn"
    BY NoneAssumption DEF Held
  <2>3. QED
    BY <1>2, <2>1, <2>2, StopReturnsCases DEF Phase
<1>3. ASSUME NEW r \in Runs, Launch(r)
      PROVE  /\ session' = session
             /\ \A q \in Runs : process'[q].signal = process[q].signal
             /\ \A q \in Runs : \/ Phase(q)' = Phase(q)
                                \/ Phase(q) \notin Ended /\ Phase(q)' = Unwound(Phase(q))
                                \/ Phase(q) = "unborn" /\ Phase(q)' = "new"
  <2>1. StopSession(r) /\ session' = session /\ r > starts
    BY <1>3, BoundsAssumption DEF Launch, TypeOK
  <2>2. \A q \in Runs : process'[q].signal = process[q].signal
    BY <1>3 DEF Launch, TypeOK, Process
  <2>3. Phase(r) = "unborn"
    BY <2>1 DEF Held
  <2>4. QED
    BY <2>1, <2>2, <2>3, StopSessionCases DEF Over, Phase
<1>4. QED
  BY <1>1, <1>2, <1>3 DEF ManagerStep

\* What a cancellation does not do: begin a monitor, or bring one that has said
\* its last word, or one that stops its process, back.
LEMMA UnwoundKeeps ==
    \A phase \in ({"unborn"} \cup Waits) :
        /\ phase \notin {"unborn", "new"} => Unwound(phase) \notin {"unborn", "new"}
        /\ Unwound(phase) \in Waits \ {"new"} => phase \in Waits \ {"new"}
        /\ phase \in (Waits \ {"reporting", "marking"}) => Unwound(phase) \in LivePhases
        /\ phase \in {"terminating", "killing", "marking"} => Unwound(phase) = phase
        /\ phase = "reporting" => Unwound(phase) \in Ended
BY DEF Unwound, Waits, Ended, Raised, LivePhases

LEMMA FollowedManager == ASSUME TypeOK, Held, Followed, ManagerStep PROVE Followed'
<1>1. SUFFICES ASSUME session' # None
      PROVE  /\ Phase(session.run)' \notin {"unborn", "new"}
             /\ \A r \in Runs : Phase(r)' \in Waits \ {"new"} => r = session.run
             /\ session.live => Phase(session.run)' \in LivePhases
  BY ManagerPhases DEF Followed, Phase
<1>2. session' = session /\ session # None /\ session.run \in Runs
  BY <1>1, ManagerPhases DEF TypeOK, Status
<1>3. \A q \in Runs : \/ monitor'[q].phase = Phase(q)
                      \/ Phase(q) \in ({"unborn"} \cup Waits) /\ monitor'[q].phase = Unwound(Phase(q))
                      \/ Phase(q) = "unborn" /\ monitor'[q].phase = "new"
  BY ManagerPhases, PhaseIsOne DEF Phase
<1>4. /\ Phase(session.run) \notin {"unborn", "new"}
      /\ \A r \in Runs : Phase(r) \in Waits \ {"new"} => r = session.run
      /\ session.live => Phase(session.run) \in LivePhases
  BY <1>2 DEF Followed
<1>5. monitor'[session.run].phase \notin {"unborn", "new"}
  <2>1. \/ monitor'[session.run].phase = Phase(session.run)
        \/ /\ Phase(session.run) \in ({"unborn"} \cup Waits)
           /\ monitor'[session.run].phase = Unwound(Phase(session.run))
    BY <1>2, <1>3, <1>4
  <2>2. Phase(session.run) \in ({"unborn"} \cup Waits) => Unwound(Phase(session.run)) \notin {"unborn", "new"}
    BY <1>4, UnwoundKeeps
  <2>3. QED
    BY <1>4, <2>1, <2>2
<1>6. \A r \in Runs : monitor'[r].phase \in Waits \ {"new"} => r = session.run
  BY <1>3, <1>4, UnwoundKeeps
<1>7. session.live => monitor'[session.run].phase \in LivePhases
  <2>1. SUFFICES ASSUME session.live
        PROVE  monitor'[session.run].phase \in LivePhases
    OBVIOUS
  <2>2. Phase(session.run) \in LivePhases
    BY <1>4, <2>1
  <2>3. CASE Phase(session.run) \in {"dropped", "unmarked"}
    <3>1. Phase(session.run) \notin ({"unborn"} \cup Waits)
      BY <2>3 DEF Waits
    <3>2. monitor'[session.run].phase = Phase(session.run)
      BY <1>2, <1>3, <1>4, <3>1
    <3>3. QED
      BY <2>3, <3>2 DEF LivePhases
  <2>4. CASE Phase(session.run) \notin {"dropped", "unmarked"}
    <3>1. Phase(session.run) \in (Waits \ {"reporting", "marking"})
      BY <2>2, <2>4 DEF LivePhases
    <3>2. Unwound(Phase(session.run)) \in LivePhases
      BY <3>1, UnwoundKeeps
    <3>3. QED
      BY <1>2, <1>3, <1>4, <2>2, <3>1, <3>2
  <2>5. QED
    BY <2>3, <2>4
<1>8. QED
  BY <1>2, <1>5, <1>6, <1>7 DEF Phase

LEMMA SignalsManager == ASSUME TypeOK, Held, Signals, ManagerStep PROVE Signals'
<1>1. \A q \in Runs : \/ monitor'[q].phase = Phase(q)
                      \/ Phase(q) \in ({"unborn"} \cup Waits) /\ monitor'[q].phase = Unwound(Phase(q))
                      \/ Phase(q) = "unborn" /\ monitor'[q].phase = "new"
  BY ManagerPhases, PhaseIsOne DEF Phase
<1>2. \A q \in Runs : process'[q].signal = process[q].signal
  BY ManagerPhases
<1>3. session' = session
  BY ManagerPhases
<1>4. /\ "unborn" \notin ({"reporting"} \cup Ended)
      /\ {"cancelled", "unmarked"} \cap ({"unborn"} \cup Waits) = {}
      /\ Ended \cap ({"unborn"} \cup Waits) = {}
  BY DEF Ended, Raised, Waits
<1>5. \A q \in Runs : process'[q].signal # "none" =>
          monitor'[q].phase \in {"terminating", "killing", "marking", "cancelled", "unmarked"}
  BY <1>1, <1>2, <1>4, UnwoundKeeps DEF Signals
<1>6. session # None /\ session.reason = "exited" =>
          monitor'[session.run].phase \in {"reporting"} \cup Ended /\ process'[session.run].signal = "none"
  <2>1. SUFFICES ASSUME session # None, session.reason = "exited"
        PROVE  monitor'[session.run].phase \in {"reporting"} \cup Ended
               /\ process'[session.run].signal = "none"
    OBVIOUS
  <2>2. session.run \in Runs
    BY <2>1 DEF TypeOK, Status
  <2>3. Phase(session.run) \in {"reporting"} \cup Ended /\ process[session.run].signal = "none"
    BY <2>1 DEF Signals
  <2>4. QED
    BY <1>1, <1>2, <1>4, <2>2, <2>3, UnwoundKeeps
<1>7. QED
  BY <1>3, <1>5, <1>6 DEF Signals, Phase

\* Only one monitor is under way.
LEMMA HeldAlone == TypeOK /\ Held => OneMonitor
BY NoneAssumption DEF TypeOK, Held, OneMonitor, Phase

-----------------------------------------------------------------------------
(* A monitor's own steps *)

LEMMA FollowedProceed ==
    ASSUME TypeOK, Held, Followed, NEW r \in Runs, Proceed(r) PROVE Followed'
<1> USE DEF Goes, Phase
<1>1. \A q \in Runs \ {r} : monitor'[q].phase = monitor[q].phase
  BY OthersKeepPhase
<1>2. OneMonitor /\ \A q \in Runs : Phase(q) \in Waits \ {"new"} => (session # None => q = session.run)
  BY HeldAlone DEF Followed
<1>3. session # None => session.run \in Runs
  BY DEF TypeOK, Status
<1>4. CASE Begin(r)
  <2>1. monitor[r].phase = "new" /\ monitor'[r].phase = "starting" /\ session'.run = r
    BY <1>4 DEF Begin, TypeOK, Monitor
  <2>2. \A q \in Runs : monitor[q].phase \in Waits => q = r
    BY <1>2, <2>1, NewWaits DEF OneMonitor
  <2>3. QED
    BY <1>1, <2>1, <2>2 DEF Followed, Waits, LivePhases
<1>5. CASE Upserted(r)
  <2>1. session' = session
    BY <1>5 DEF Upserted
  <2>2. \/ monitor[r].phase \in {"starting", "applying"} /\ monitor'[r].phase = "waiting"
        \/ monitor[r].phase \in {"reporting", "marking"} /\ monitor'[r].phase \in Ended
    BY <1>5 DEF Upserted, Ended, Raised, TypeOK, Monitor
  <2>3. QED
    BY <1>1, <1>2, <1>3, <2>1, <2>2 DEF Followed, Waits, Ended, Raised, LivePhases
<1>6. CASE ReadEof(r)
  <2>1. session' = session /\ monitor'[r].phase = monitor[r].phase
    BY <1>6 DEF ReadEof, TypeOK, Monitor
  <2>2. QED
    BY <1>1, <2>1, <1>3 DEF Followed
<1>7. CASE LeaveLoop(r) \/ Terminate(r) \/ TerminateTimeout(r)
  <2>1. /\ session' = session
        /\ monitor[r].phase \in {"waiting", "cancelling", "terminating"}
        /\ monitor'[r].phase \in {"exiting", "terminating", "killing"}
    BY <1>7 DEF LeaveLoop, Terminate, TerminateTimeout, TypeOK, Monitor
  <2>2. QED
    BY <1>1, <1>2, <1>3, <2>1 DEF Followed, Waits, LivePhases
<1>8. CASE ReportExit(r) \/ MarkStopped(r)
  <2>1. /\ session' # None => session # None /\ session'.run = session.run /\ ~session'.live
        /\ monitor[r].phase \in {"exiting", "terminating", "killing"}
        /\ monitor'[r].phase \in {"reporting", "marking"}
    <3>1. CASE ReportExit(r)
      BY <3>1 DEF ReportExit, TypeOK, Status, Monitor
    <3>2. CASE MarkStopped(r)
      <4>1. session' = Stopped(session, r) /\ monitor[r].phase \in {"terminating", "killing"}
        BY <3>2 DEF MarkStopped, ProcessAwaited
      <4>2. monitor'[r].phase = "marking"
        BY <3>2 DEF MarkStopped, TypeOK, Monitor
      <4>3. QED
        BY <4>1, <4>2 DEF Stopped, TypeOK, Status
    <3>3. QED
      BY <1>8, <3>1, <3>2
  <2>2. QED
    BY <1>1, <1>2, <1>3, <2>1 DEF Followed, Waits, LivePhases
<1>9. CASE StopBreaksOff(r)
  <2>1. /\ session' = session
        /\ monitor[r].phase \in {"terminating", "killing"} /\ monitor'[r].phase = "unmarked"
    BY <1>9 DEF StopBreaksOff, ProcessAwaited, TypeOK, Monitor
  <2>2. QED
    BY <1>1, <1>2, <1>3, <2>1 DEF Followed, Waits, LivePhases
<1>10. QED
  BY <1>4, <1>5, <1>6, <1>7, <1>8, <1>9 DEF Proceed

\* What an event of a session writes leaves its run and its liveness.
LEMMA ApplyStateKeeps ==
    ASSUME TypeOK, NEW state, ApplyState(state)
    PROVE  session' # None => /\ session # None
                              /\ session'.run = session.run /\ session'.live = session.live
                              /\ session'.reason = session.reason
BY DEF ApplyState, TypeOK, Status

\* The steps of a process, and those of its monitor that an event calls for.
ProcessStep(r) ==
    SeeExit(r) \/ ReadLine(r) \/ ReaderFails(r) \/ Stall(r) \/ Exit(r) \/ ClosePipe(r)

LEMMA ProcessStepEffect ==
    ASSUME TypeOK, NEW r \in Runs, ProcessStep(r)
    PROVE  /\ \A q \in Runs : process'[q].signal = process[q].signal
           /\ session' # None => /\ session # None
                                 /\ session'.run = session.run /\ session'.live = session.live
                                 /\ session'.reason = session.reason
           /\ \A q \in Runs \ {r} : monitor'[q].phase = monitor[q].phase
           /\ \/ monitor'[r].phase = monitor[r].phase
              \/ monitor[r].phase = "waiting" /\ monitor'[r].phase \in {"applying", "exiting"}
<1>1. CASE SeeExit(r) \/ ReaderFails(r) \/ Exit(r) \/ ClosePipe(r)
  <2>1. CASE SeeExit(r) \/ ReaderFails(r)
    BY <2>1 DEF SeeExit, ReaderFails, TypeOK, Monitor
  <2>2. CASE Exit(r) \/ ClosePipe(r)
    BY <2>2 DEF Exit, ClosePipe, TypeOK, Process
  <2>3. QED
    BY <1>1, <2>1, <2>2
<1>2. CASE ReadLine(r)
  <2>1. /\ process' = process /\ monitor[r].phase = "waiting"
        /\ \/ monitor' = [monitor EXCEPT ![r].stalled = FALSE] /\ session' = session
           \/ /\ monitor' = [monitor EXCEPT ![r].stalled = FALSE, ![r].phase = "applying"]
              /\ \E state \in LineStates : ApplyState(state)
    BY <1>2 DEF ReadLine
  <2>2. QED
    BY <2>1, ApplyStateKeeps DEF TypeOK, Monitor
<1>3. CASE Stall(r)
  BY <1>3, ApplyStateKeeps DEF Stall, TypeOK, Monitor
<1>4. QED
  BY <1>1, <1>2, <1>3 DEF ProcessStep

LEMMA FollowedProcess ==
    ASSUME TypeOK, Followed, NEW r \in Runs, ProcessStep(r) PROVE Followed'
<1>1. session # None => session.run \in Runs
  BY DEF TypeOK, Status
<1>2. QED
  BY <1>1, ProcessStepEffect DEF Followed, Phase, Waits, LivePhases

LEMMA SignalsProcess ==
    ASSUME TypeOK, Signals, NEW r \in Runs, ProcessStep(r) PROVE Signals'
<1>1. session # None => session.run \in Runs
  BY DEF TypeOK, Status
<1>2. QED
  BY <1>1, ProcessStepEffect DEF Signals, Phase, Ended, Raised

LEMMA SignalsProceed ==
    ASSUME TypeOK, Held, Followed, Signals, NEW r \in Runs, Proceed(r) PROVE Signals'
<1> USE DEF Goes, Phase
<1>1. \A q \in Runs \ {r} : monitor'[q].phase = monitor[q].phase
  BY OthersKeepPhase
<1>2. \A q \in Runs : process[q].signal # "none" =>
          monitor[q].phase \in {"terminating", "killing", "marking", "cancelled", "unmarked"}
  BY DEF Signals
<1>3. session # None => session.run \in Runs
  BY DEF TypeOK, Status
<1>4. CASE Begin(r)
  <2>1. monitor[r].phase = "new" /\ session'.reason = "none" /\ process' = process
    BY <1>4 DEF Begin
  <2>2. QED
    BY <1>1, <1>2, <2>1 DEF Signals
<1>5. CASE Upserted(r)
  <2>1. session' = session /\ process' = process
    BY <1>5 DEF Upserted
  <2>2. \/ monitor[r].phase \in {"starting", "applying"} /\ monitor'[r].phase = "waiting"
        \/ monitor[r].phase = "reporting" /\ monitor'[r].phase \in Ended
        \/ monitor[r].phase = "marking" /\ monitor'[r].phase = "cancelled"
    BY <1>5 DEF Upserted, Ended, Raised, TypeOK, Monitor
  <2>3. QED
    BY <1>1, <1>2, <1>3, <2>1, <2>2 DEF Signals, Ended, Raised
<1>6. CASE ReadEof(r)
  <2>1. session' = session /\ process' = process /\ monitor'[r].phase = monitor[r].phase
    BY <1>6 DEF ReadEof, TypeOK, Monitor
  <2>2. QED
    BY <1>1, <2>1, <1>3 DEF Signals
<1>7. CASE LeaveLoop(r)
  <2>1. session' = session /\ process' = process /\ monitor[r].phase = "waiting"
    BY <1>7 DEF LeaveLoop
  <2>2. QED
    BY <1>1, <1>2, <1>3, <2>1 DEF Signals, Ended, Raised
<1>8. CASE ReportExit(r)
  <2>1. process' = process /\ monitor[r].phase = "exiting" /\ monitor'[r].phase = "reporting"
    BY <1>8 DEF ReportExit, TypeOK, Monitor
  <2>2. session' # None => session # None /\ session'.run = session.run
    BY <1>8 DEF ReportExit, TypeOK, Status
  <2>3. session # None => session.run = r
    BY <1>3, <2>1 DEF Followed, Waits
  <2>4. process[r].signal = "none"
    BY <1>2, <2>1
  <2>5. QED
    BY <1>1, <1>2, <2>1, <2>2, <2>3, <2>4 DEF Signals
<1>9. CASE Terminate(r) \/ TerminateTimeout(r)
  <2>1. /\ session' = session
        /\ monitor[r].phase \in {"cancelling", "terminating"}
        /\ monitor'[r].phase \in {"terminating", "killing"}
        /\ \A q \in Runs \ {r} : process'[q] = process[q]
    BY <1>9 DEF Terminate, TerminateTimeout, Signalled, TypeOK, Monitor
  <2>2. QED
    BY <1>1, <1>2, <1>3, <2>1 DEF Signals, Ended, Raised
<1>10. CASE MarkStopped(r)
  <2>1. process' = process /\ monitor[r].phase \in {"terminating", "killing"} /\ monitor'[r].phase = "marking"
    BY <1>10 DEF MarkStopped, ProcessAwaited, TypeOK, Monitor
  <2>2. session' # None => session'.reason # "exited"
    BY <1>10 DEF MarkStopped, Stopped, TypeOK, Status
  <2>3. QED
    BY <1>1, <1>2, <2>1, <2>2 DEF Signals
<1>11. CASE StopBreaksOff(r)
  <2>1. /\ session' = session /\ process' = process
        /\ monitor[r].phase \in {"terminating", "killing"} /\ monitor'[r].phase = "unmarked"
    BY <1>11 DEF StopBreaksOff, ProcessAwaited, TypeOK, Monitor
  <2>2. QED
    BY <1>1, <1>2, <1>3, <2>1 DEF Signals, Ended, Raised
<1>12. QED
  BY <1>4, <1>5, <1>6, <1>7, <1>8, <1>9, <1>10, <1>11 DEF Proceed

-----------------------------------------------------------------------------
(* The invariant *)

LEMMA SessionStep == ASSUME TypeOK, Followed, Signals, Hook \/ Hide PROVE Followed' /\ Signals'
<1>1. CASE Hook
  <2>1. /\ process' = process /\ monitor' = monitor /\ session # None
        /\ session'.run = session.run /\ session'.live = session.live /\ session'.reason = "none"
    BY <1>1 DEF Hook, TypeOK, Status
  <2>2. QED
    BY <2>1 DEF Followed, Signals, Phase
<1>2. CASE Hide
  BY <1>2 DEF Hide, Followed, Signals, Phase
<1>3. QED
  BY <1>1, <1>2

LEMMA NextIInv == IInv /\ [Next]_vars => IInv'
<1> SUFFICES ASSUME IInv, [Next]_vars PROVE IInv'
  OBVIOUS
<1>1. TypeOK /\ Held /\ Registered /\ Followed /\ Signals
  BY DEF IInv
<1>2. TypeOK' /\ Held' /\ Registered'
  BY <1>1, NextTypeOK, HeldStep, RegisteredStep
<1>3. CASE ManagerStep
  BY <1>1, <1>2, <1>3, FollowedManager, SignalsManager DEF IInv
<1>4. CASE Hook \/ Hide
  BY <1>1, <1>2, <1>4, SessionStep DEF IInv
<1>5. ASSUME NEW r \in Runs, Proceed(r) PROVE IInv'
  BY <1>1, <1>2, <1>5, FollowedProceed, SignalsProceed DEF IInv
<1>6. ASSUME NEW r \in Runs, ProcessStep(r) PROVE IInv'
  BY <1>1, <1>2, <1>6, FollowedProcess, SignalsProcess DEF IInv
<1>7. CASE UNCHANGED vars
  BY <1>1, <1>2, <1>7 DEF vars, manager, counts, IInv, Followed, Signals, Phase
<1>8. QED
  BY <1>3, <1>4, <1>5, <1>6, <1>7 DEF Next, ManagerStep, ProcessStep

LEMMA IInvHolds == Spec => []IInv
<1>1. QED
  BY InitIInv, NextIInv, PTL DEF Spec

-----------------------------------------------------------------------------
(* What follows *)

\* However starts and stops of the session follow one another, a new process's
\* monitor begins only when the old one's is over.
THEOREM MonitorsNeverOverlap == Spec => []OneMonitor
<1>1. IInv => OneMonitor
  BY HeldAlone DEF IInv
<1>2. QED
  BY <1>1, IInvHolds, PTL

\* A session shown as live has a monitor that will end it, or had one the daemon
\* stopped: where nothing handles a cancellation, or with nothing more to read.
THEOREM LiveSessionIsWatched == Spec => []LiveIsWatched
<1>1. IInv => LiveIsWatched
  BY NoneAssumption
  DEF IInv, Registered, StopPhases, Followed, LivePhases, LiveIsWatched, Phase, TypeOK, Status
<1>2. QED
  BY <1>1, IInvHolds, PTL

\* The exit that a session reports is never one the daemon's stop brought about.
THEOREM StoppedIsNotCompleted == Spec => []StopIsNotCompletion
<1>1. IInv => StopIsNotCompletion
  BY DEF IInv, Signals, StopIsNotCompletion
<1>2. QED
  BY <1>1, IInvHolds, PTL

\* Only the first upsert of a new run's monitor brings a hidden session back.
THEOREM HiddenStays == Spec => HiddenStaysHidden
<1>1. ASSUME TypeOK, [Next]_vars
      PROVE  [session = None /\ session' # None => monitor[session'.run].phase = "new"]_vars
  <2>1. SUFFICES ASSUME session = None, session' # None PROVE monitor[session'.run].phase = "new"
    OBVIOUS
  <2>2. PICK r \in Runs : Proceed(r) \/ ProcessStep(r)
    BY <1>1, <2>1, ManagerPhases DEF Next, ProcessStep, Stop, StopReturns, Launch, Hook, Hide, vars
  <2>3. Begin(r)
    BY <2>1, <2>2, <1>1, ProcessStepEffect
    DEF Proceed, Upserted, ReadEof, LeaveLoop, ReportExit, Terminate, TerminateTimeout, MarkStopped, Stopped,
        StopBreaksOff
  <2>4. QED
    BY <2>3 DEF Begin
<1>2. QED
  BY <1>1, InitTypeOK, NextTypeOK, PTL DEF Spec, HiddenStaysHidden

=============================================================================
