---------------------------- MODULE OverlapProofs ----------------------------
(***************************************************************************)
(* What the manager's file, memory and alerts keep of the registry however *)
(* many writers there are, however their handlers, the threads and the     *)
(* cleanup tasks overlap, and through crashes, restarts and stops.         *)
(*                                                                         *)
(* A change that is due is carried on by somebody: a handler that has not  *)
(* listed the sessions lists it, a snapshot that has not been written      *)
(* holds it.  So once nothing is in flight the change was told, and the    *)
(* file or the memory falls behind only as the history says: by an older   *)
(* one that was told after it, or by a cancelled removal.                  *)
(***************************************************************************)
EXTENDS MonitorManagerProofs

-----------------------------------------------------------------------------
(* The file *)

\* The handler of c is yet to write what the registry holds.
Current(c, sessions) == Unwritten(c) /\ (c.handler = "writing" => c.payload = sessions)

FilePending ==
    registry \in orphanWrites \/ \E o \in Owners : Current(call[o], registry)

\* What is due is under way, or to be restored or pruned.
FileInv ==
    /\ filed = "told" => disk = registry
    /\ filed = "due" =>
          /\ mode = "up" => FilePending
          /\ mode = "pruning" => FilePending \/ image = registry
          /\ mode = "restoring" => FilePending \/ skipped \/ image # Empty
          /\ mode = "down" => disk # Empty
    /\ mode = "restoring" => \A s \in Sessions : image[s] # None => registry[s] = None

\* One call moves on.
LEMMA PendingCall ==
    ASSUME call \in [Owners -> Call \cup {None}], UNCHANGED <<registry, orphanWrites>>,
           NEW o \in Owners, NEW c, call' = [call EXCEPT ![o] = c],
           Current(call[o], registry) => Current(c, registry)
    PROVE  FilePending => FilePending'
  BY DEF FilePending

\* The call of a change that is posted.
LEMMA PostedCall ==
    ASSUME TypeInv, NEW o \in Owners, NEW s \in Sessions, NEW status \in Status \cup {None},
           Notify(o, s, status)
    PROVE  /\ call'[o] # None /\ call'[o].handler = "ready"
           /\ call'[o].session = s /\ call'[o].status = status
           /\ \A p \in Owners : p # o => call'[p] = call[p]
           /\ orphanWrites' = orphanWrites
<1> DEFINE c == [session |-> s, status |-> status, handler |-> "ready",
                 broadcast |-> Serving, payload |-> Empty, since |-> 0]
<1>1. call' = [call EXCEPT ![o] = c] /\ call \in [Owners -> Call \cup {None}]
  BY DEF Notify, TypeInv, QueueOK, LoopOK
<1>2. c \in Call
  BY ConstantFacts DEF Call, Serving
<1>3. c.handler = "ready" /\ c.session = s /\ c.status = status
  OBVIOUS
<1> HIDE DEF c
<1>4. call'[o] = c /\ \A p \in Owners : p # o => call'[p] = call[p]
  BY <1>1
<1>5. QED
  BY <1>2, <1>3, <1>4, ConstantFacts DEF Notify

\* The owner of a turn, and its call.
LEMMA FrontCall ==
    ASSUME TypeInv, Turned, Front.task \in {"handler", "broadcast"}
    PROVE  /\ Front.owner \in Owners /\ Front.session \in Sessions
           /\ call[Front.owner] \in Call /\ call[Front.owner] # None
           /\ Front.task = "handler" =>
                 /\ call[Front.owner].handler = "ready"
                 /\ call[Front.owner].session = Front.session
                 /\ call[Front.owner].status = Front.status
<1>1. Front \in Turn /\ call[Front.owner] \in Call
  BY PopProperties DEF TypeInv
<1>2. Front.task = "handler" =>
                 /\ call[Front.owner].handler = "ready"
                 /\ call[Front.owner].session = Front.session
                 /\ call[Front.owner].status = Front.status
  BY PopProperties DEF TypeInv
<1>3. QED
  BY <1>1, <1>2, ConstantFacts DEF Turn

\* Cancelling the cleanup of a session: what is due is still under way, or it was
\* cancelled.
LEMMA PendingCancelled ==
    ASSUME NEW s \in Sessions, NEW calls \in [Owners -> Call \cup {None}], NEW q,
           CancelCalls(CleanupOwner(s), calls, q), UNCHANGED registry,
           filed = "due" => registry \in orphanWrites \/ \E o \in Owners : Current(calls[o], registry)
    PROVE  /\ filed' = filed \/ (filed = "due" /\ filed' = "lost")
           /\ filed' = "due" => FilePending'
<1> DEFINE owners == CleanupOwner(s)
           Dropped(running) == \E o \in owners : Unwritten(calls[o]) /\ calls[o].payload \notin running
<1>1. owners \subseteq {s} /\ s \in Owners
  BY ConstantFacts DEF CleanupOwner
<1>2. call' = [o \in Owners |-> IF o \in owners THEN None ELSE calls[o]]
  BY DEF CancelCalls
<1>3. PICK running \in SUBSET {calls[o].payload : o \in {p \in owners :
                                  calls[p] # None /\ calls[p].handler = "writing"}} :
          /\ orphanWrites' = orphanWrites \cup running
          /\ filed' = IF Dropped(running) THEN Cancelled(filed) ELSE filed
  BY DEF CancelCalls
<1>4. filed' = filed \/ (filed = "due" /\ filed' = "lost")
  BY <1>3 DEF Cancelled
<1>5. ASSUME filed' = "due" PROVE FilePending'
  <2>1. filed = "due" /\ ~Dropped(running)
    BY <1>3, <1>4, <1>5 DEF Cancelled
  <2>2. CASE registry \in orphanWrites
    BY <1>3, <2>2 DEF FilePending
  <2>3. ASSUME NEW o \in Owners, Current(calls[o], registry) PROVE FilePending'
    <3>1. CASE o \notin owners
      <4>1. call'[o] = calls[o]
        BY <1>2, <3>1
      <4>2. QED  BY <2>3, <4>1 DEF FilePending
    <3>2. CASE o \in owners
      <4>1. calls[o].payload \in running /\ o = s
        BY <1>1, <2>1, <2>3, <3>2 DEF Current
      <4>2. calls[s].handler = "writing"
        BY <1>1, <1>3, <4>1
      <4>3. registry \in orphanWrites'
        BY <1>3, <2>3, <4>1, <4>2 DEF Current
      <4>4. QED  BY <4>3 DEF FilePending
    <3> QED  BY <3>1, <3>2
  <2> QED  BY <2>1, <2>2, <2>3
<1> QED  BY <1>4, <1>5

\* A step that tells nothing and changes nothing leaves what is under way.
LEMMA FileSame ==
    ASSUME FileInv, UNCHANGED <<mode, image, skipped, registry, disk>>,
           filed' = filed \/ filed' = "lost",
           filed' = "due" /\ FilePending => FilePending'
    PROVE  FileInv'
  BY DEF FileInv

\* A change, while the daemon runs.
LEMMA FileRegistered ==
    ASSUME FileInv, mode # "down", UNCHANGED mode, NEW s \in Sessions, NEW entry, Register(s, entry),
           FilePending', registry \in Snapshot,
           mode = "restoring" =>
              \A r \in Sessions : image'[r] # None => image[r] # None /\ (r = s => entry = None)
    PROVE  FileInv'
<1>1. filed' = "due" /\ \A r \in Sessions : registry'[r] = IF r = s THEN entry ELSE registry[r]
  BY DEF Register, Snapshot
<1> QED  BY <1>1 DEF FileInv

\* A snapshot goes to the file.
LEMMA FileReplaced ==
    ASSUME FileInv, mode # "down", NEW snapshot, Replace(snapshot),
           UNCHANGED <<mode, image, skipped, registry>>,
           FilePending /\ snapshot # registry => FilePending'
    PROVE  FileInv'
<1>1. /\ filed' = "told" => disk' = registry
      /\ filed' = "due" => filed = "due" /\ snapshot # registry
  BY DEF Replace, Given
<1> QED  BY <1>1 DEF FileInv

LEMMA FileWriters ==
    ASSUME TypeInv, FileInv, NEW w \in Writers, NEW s \in Sessions,
           Upsert(w, s) \/ MarkRead(w, s) \/ Remove(w, s)
    PROVE  FileInv'
<1>1. w \in Owners /\ Idle(w) /\ Serving /\ UNCHANGED <<mode, image, skipped, disk>>
  BY ConstantFacts DEF Upsert, MarkRead, Remove, MayReport, life, file
<1>2. registry \in Snapshot /\ now \in Times
  BY DEF TypeInv, StateOK
<1>3. CASE Upsert(w, s)
  <2>1. PICK state \in ReportedStates, live \in BOOLEAN :
           LET status == [state |-> state, live |-> live, at |-> now]
           IN  Register(s, status) /\ Notify(w, s, status)
    BY <1>3 DEF Upsert
  <2> DEFINE status == [state |-> state, live |-> live, at |-> now]
  <2>2. status \in Status
    BY <1>2, StatesAssumption DEF Status
  <2> HIDE DEF status
  <2>3. Register(s, status) /\ Notify(w, s, status)
    BY <2>1 DEF status
  <2>4. FilePending'
    BY <1>1, <2>2, <2>3, PostedCall DEF FilePending, Current, Unwritten
  <2> QED  BY <1>1, <1>2, <2>3, <2>4, FileRegistered DEF Serving
<1>4. CASE Remove(w, s)
  <2>1. Register(s, None) /\ Notify(w, s, None)
    BY <1>4 DEF Remove
  <2>2. FilePending'
    BY <1>1, <2>1, PostedCall DEF FilePending, Current, Unwritten
  <2> QED  BY <1>1, <1>2, <2>1, <2>2, FileRegistered DEF Serving
<1>5. CASE MarkRead(w, s)
  <2>1. Notify(w, s, registry[s]) /\ registry[s] \in Status \cup {None}
    BY <1>2, <1>5 DEF MarkRead, Snapshot
  <2>2. FilePending'
    BY <1>1, <2>1, PostedCall DEF FilePending, Current, Unwritten
  <2> QED  BY <1>1, <1>5, <2>2, FileSame DEF MarkRead, news
<1> QED  BY <1>3, <1>4, <1>5

LEMMA FileLoop == ASSUME TypeInv, FileInv, Loop PROVE FileInv'
<1>1. call \in [Owners -> Call \cup {None}] /\ registry \in Snapshot
  BY DEF TypeInv, QueueOK, LoopOK, StateOK
<1>2. UNCHANGED <<mode, image, skipped, registry, disk>>
  BY DEF Loop, Broadcast, SkipCancelled, HandleUpdated, HandleRemoved, life, file
<1>3. CASE Broadcast
  <2> DEFINE o == Front.owner
             d == [call[o] EXCEPT !.broadcast = FALSE]
             c == Settle(d)
  <2>1. o \in Owners /\ call[o] \in Call
    BY <1>3, FrontCall DEF Broadcast
  <2>2. d \in Call /\ d.handler = call[o].handler /\ d.payload = call[o].payload
    BY <2>1 DEF Call
  <2>3. call' = [call EXCEPT ![o] = c]
    BY <1>3 DEF Broadcast
  <2>4. Current(call[o], registry) => Current(c, registry)
    BY <2>2, ConstantFacts DEF Current, Unwritten, Settle
  <2> HIDE DEF c, o
  <2>5. FilePending => FilePending'
    BY <1>1, <1>2, <1>3, <2>1, <2>3, <2>4, PendingCall DEF Broadcast
  <2> QED  BY <1>2, <1>3, <2>5, FileSame DEF Broadcast, news
<1>4. CASE SkipCancelled
  <2>1. FilePending => FilePending'
    BY <1>2, <1>4 DEF SkipCancelled, FilePending
  <2> QED  BY <1>2, <1>4, <2>1, FileSame DEF SkipCancelled, news
<1>5. CASE HandleUpdated
  <2> DEFINE o == Front.owner
             c == [call[o] EXCEPT !.handler = "writing", !.payload = registry]
  <2>1. o \in Owners /\ call[o] \in Call
    BY <1>5, FrontCall DEF HandleUpdated
  <2>2. c \in Call /\ c.handler = "writing" /\ c.payload = registry
    BY <1>1, <2>1 DEF Call
  <2>3. call' = [call EXCEPT ![o] = c]
    BY <1>1, <1>5, <2>1 DEF HandleUpdated
  <2>4. Current(c, registry)
    BY <2>2, ConstantFacts DEF Current, Unwritten
  <2> HIDE DEF c, o
  <2>5. FilePending => FilePending'
    BY <1>1, <1>2, <1>5, <2>1, <2>3, <2>4, PendingCall DEF HandleUpdated
  <2> QED  BY <1>2, <1>5, <2>5, FileSame DEF HandleUpdated, news
<1>6. CASE HandleRemoved
  <2> DEFINE o == Front.owner
             s == Front.session
             c == [call[o] EXCEPT !.handler = "writing", !.payload = registry]
             calls == [call EXCEPT ![o].handler = "writing", ![o].payload = registry]
  <2>1. o \in Owners /\ s \in Sessions /\ call[o] \in Call
    BY <1>6, FrontCall DEF HandleRemoved
  <2>2. c \in Call /\ c.handler = "writing" /\ c.payload = registry
    BY <1>1, <2>1 DEF Call
  <2>3. calls = [call EXCEPT ![o] = c]
    BY <1>1, <2>1
  <2>4. CancelCalls(CleanupOwner(s), calls, Tail(ready))
    BY <1>6 DEF HandleRemoved
  <2> HIDE DEF c, o, s, calls
  <2>5. calls \in [Owners -> Call \cup {None}] /\ calls[o] = c
    BY <1>1, <2>1, <2>2, <2>3
  <2>6. Current(calls[o], registry)
    BY <2>2, <2>5, ConstantFacts DEF Current, Unwritten
  <2>7. filed' = filed \/ filed' = "lost"
    BY <1>2, <2>1, <2>4, <2>5, <2>6, PendingCancelled
  <2>8. filed' = "due" => FilePending'
    BY <1>2, <2>1, <2>4, <2>5, <2>6, PendingCancelled
  <2> QED  BY <1>2, <2>7, <2>8, FileSame
<1> QED  BY <1>3, <1>4, <1>5, <1>6 DEF Loop

LEMMA FileThreads ==
    ASSUME TypeInv, DownInv, FileInv, NEW o \in Owners,
           WriteSnapshot(o) \/ FinishRemoved(o) \/ Notified(o)
    PROVE  FileInv'
<1>1. call \in [Owners -> Call \cup {None}] /\ call[o] \in Call /\ mode # "down"
  BY DEF TypeInv, QueueOK, LoopOK, DownInv, WriteSnapshot, FinishRemoved, Notified, Idle
<1>2. UNCHANGED <<mode, image, skipped, registry, orphanWrites>>
  BY DEF WriteSnapshot, FinishRemoved, Notified, life
<1>3. CASE WriteSnapshot(o)
  <2> DEFINE d == [call[o] EXCEPT !.handler = "written", !.payload = Empty]
  <2>1. Replace(call[o].payload) /\ call[o].handler = "writing" /\ call' = [call EXCEPT ![o] = d]
    BY <1>1, <1>3 DEF WriteSnapshot
  <2>2. call[o].payload # registry => ~Current(call[o], registry)
    BY <2>1 DEF Current
  <2> HIDE DEF d
  <2>3. FilePending /\ call[o].payload # registry => FilePending'
    BY <1>1, <1>2, <2>1, <2>2, PendingCall
  <2> QED  BY <1>1, <1>2, <2>1, <2>3, FileReplaced
<1>4. CASE FinishRemoved(o) \/ Notified(o)
  <2> DEFINE d == Settle([call[o] EXCEPT !.handler = "done"])
  <2>1. call' = [call EXCEPT ![o] = d] /\ call[o].handler \in {"written", "notifying"}
    BY <1>4 DEF FinishRemoved, Notified
  <2>2. ~Current(call[o], registry)
    BY <2>1 DEF Current, Unwritten
  <2> HIDE DEF d
  <2>3. FilePending => FilePending'
    BY <1>1, <1>2, <2>1, <2>2, PendingCall
  <2>4. UNCHANGED <<disk, filed>>
    BY <1>4 DEF FinishRemoved, Notified, file, news
  <2> QED  BY <1>2, <2>3, <2>4, FileSame
<1> QED  BY <1>3, <1>4

LEMMA FileOrphan == ASSUME TypeInv, DownInv, FileInv, WriteOrphan PROVE FileInv'
<1>1. PICK snapshot \in orphanWrites :
         Replace(snapshot) /\ orphanWrites' = orphanWrites \ {snapshot}
  BY DEF WriteOrphan
<1>2. mode # "down" /\ UNCHANGED <<mode, image, skipped, registry, call>>
  BY DEF DownInv, WriteOrphan, life
<1>3. FilePending /\ snapshot # registry => FilePending'
  BY <1>1, <1>2 DEF FilePending
<1> QED  BY <1>1, <1>2, <1>3, FileReplaced

LEMMA FileReact ==
    ASSUME TypeInv, FileInv, NEW o \in Owners, ReactToUpdated(o) PROVE FileInv'
<1> DEFINE s == call[o].session
           status == call[o].status
           next == IF Alerts(s, status) THEN [call[o] EXCEPT !.handler = "notifying", !.since = now]
                                        ELSE Settle([call[o] EXCEPT !.handler = "done"])
           calls == [call EXCEPT ![o] = next]
<1>1. /\ call \in [Owners -> Call \cup {None}] /\ call[o] \in Call /\ s \in Sessions
      /\ call[o].handler = "written" /\ now \in Times
  BY DEF TypeInv, QueueOK, LoopOK, StateOK, ReactToUpdated, Idle, Call
<1>2. UpdateCompletedCleanup(s, status, calls) /\ UNCHANGED <<mode, image, skipped, registry, disk>>
  BY DEF ReactToUpdated, life, file
<1>3. next \in Call \cup {None}
  <2>1. [call[o] EXCEPT !.handler = "notifying", !.since = now] \in Call
        /\ [call[o] EXCEPT !.handler = "done"] \in Call
    BY <1>1 DEF Call
  <2> QED  BY <2>1, SettleType
<1>4. ~Current(call[o], registry)
  BY <1>1 DEF Current, Unwritten
<1> HIDE DEF next, s, status
<1>5. calls \in [Owners -> Call \cup {None}] /\ \A p \in Owners : p # o => calls[p] = call[p]
  BY <1>1, <1>3
<1>6. FilePending => registry \in orphanWrites \/ \E p \in Owners : Current(calls[p], registry)
  BY <1>4, <1>5 DEF FilePending
<1>7. CASE call' = calls /\ UNCHANGED <<orphanWrites, filed>>
  <2>1. FilePending => FilePending'
    BY <1>2, <1>6, <1>7 DEF FilePending
  <2> QED  BY <1>2, <1>7, <2>1, FileSame
<1>8. CASE CancelCalls(CleanupOwner(s), calls, ready)
  <2> HIDE DEF calls
  <2>1. CASE filed = "due" /\ ~FilePending
    <3>1. mode # "up" /\ filed' \in {"due", "lost"}
      BY <1>8, <2>1 DEF FileInv, CancelCalls, Cancelled
    <3> QED  BY <1>2, <2>1, <3>1 DEF FileInv
  <2>2. CASE filed = "due" => FilePending
    <3>1. filed' = filed \/ filed' = "lost"
      BY <1>1, <1>2, <1>5, <1>6, <1>8, <2>2, PendingCancelled
    <3>2. filed' = "due" => FilePending'
      BY <1>1, <1>2, <1>5, <1>6, <1>8, <2>2, PendingCancelled
    <3> QED  BY <1>2, <3>1, <3>2, FileSame
  <2> QED  BY <2>1, <2>2
<1> QED  BY <1>2, <1>7, <1>8 DEF UpdateCompletedCleanup

LEMMA FileRemoveCompleted ==
    ASSUME TypeInv, CleanupOK, DownInv, FileInv, NEW s \in Sessions, RemoveCompleted(s)
    PROVE  FileInv'
<1>1. s \in Owners /\ mode # "down" /\ registry \in Snapshot /\ UNCHANGED <<mode, image, skipped, disk>>
  BY ConstantFacts DEF TypeInv, StateOK, DownInv, RemoveCompleted, NoTask, life
<1>2. CASE Register(s, None) /\ Notify(s, s, None)
  <2>1. FilePending'
    BY <1>1, <1>2, PostedCall DEF FilePending, Current, Unwritten
  <2> QED  BY <1>1, <1>2, <2>1, FileRegistered
<1>3. CASE UNCHANGED <<registry, owed, loop, news>>
  BY <1>1, <1>3, FileSame DEF loop, news, FilePending
<1> QED  BY <1>2, <1>3 DEF RemoveCompleted

LEMMA FileRestoreOne ==
    ASSUME TypeInv, FileInv, NEW s \in Sessions, RestoreOne(s) PROVE FileInv'
<1>1. /\ mode = "restoring" /\ Idle(Boot) /\ Boot \in Owners /\ UNCHANGED <<mode, disk>>
      /\ image \in Snapshot /\ registry \in Snapshot /\ image[s] # None
      /\ image' = [image EXCEPT ![s] = None]
      /\ skipped' = (skipped \/ RetentionExpired(image[s]))
  BY ConstantFacts DEF RestoreOne, TypeInv, StateOK
<1>2. registry[s] = None /\ \A r \in Sessions : image[r] # None => registry[r] = None
  BY <1>1 DEF FileInv
<1>3. \A r \in Sessions : image'[r] # None => image[r] # None /\ r # s
  BY <1>1 DEF Snapshot
<1>4. CASE UNCHANGED <<registry, loop, news>> /\ RetentionExpired(image[s])
  BY <1>1, <1>2, <1>3, <1>4 DEF FileInv, news
<1>5. CASE Register(s, image[s]) /\ Notify(Boot, s, image[s])
  <2>1. image[s] \in Status \cup {None}
    BY <1>1 DEF Snapshot
  <2>2. FilePending'
    BY <1>1, <1>5, <2>1, PostedCall DEF FilePending, Current, Unwritten
  <2> QED  BY <1>1, <1>3, <1>5, <2>2, FileRegistered
<1> QED  BY <1>2, <1>4, <1>5 DEF RestoreOne

LEMMA FileStart == ASSUME TypeInv, DownInv, FileInv, Start PROVE FileInv'
<1>1. /\ mode = "down" /\ mode' = "restoring" /\ registry = Empty /\ UNCHANGED <<registry, disk, filed>>
      /\ image' = [s \in Sessions |-> IF disk[s] = None THEN None ELSE Restored(disk[s])]
      /\ disk \in Snapshot
  BY DEF Start, DownInv, file, news, TypeInv, StateOK
<1>2. ASSUME disk # Empty PROVE image' # Empty
  <2>1. PICK s \in Sessions : disk[s] # None
    BY <1>1, <1>2 DEF Snapshot, Empty
  <2>2. disk[s] \in Status /\ Restored(disk[s]) \in Status
    BY <1>1, <2>1 DEF Snapshot, Restored, Status
  <2>3. image'[s] # None
    BY <1>1, <2>1, <2>2, NoneAssumption
  <2> QED  BY <2>3 DEF Empty
<1>3. \A s \in Sessions : registry'[s] = None
  BY <1>1 DEF Empty
<1> QED  BY <1>1, <1>2, <1>3 DEF FileInv

LEMMA FileLifecycle ==
    ASSUME TypeInv, DownInv, FileInv,
           PruneSnapshot \/ PruneDone \/ StartServing \/ SaveLast \/ SavedLast
    PROVE  FileInv'
<1>1. CASE PruneSnapshot
  BY <1>1 DEF PruneSnapshot, file, news, FileInv
<1>2. CASE StartServing
  <2>1. /\ mode = "restoring" /\ mode' = "up" /\ image = Empty /\ ~skipped
        /\ UNCHANGED <<registry, disk, filed, call, orphanWrites>>
    BY <1>2 DEF StartServing, Serve, file, news, loop
  <2>2. FilePending => FilePending'
    BY <2>1 DEF FilePending
  <2> QED  BY <2>1, <2>2 DEF FileInv
<1>3. CASE PruneDone
  <2>1. /\ mode = "pruning" /\ mode' = "up" /\ Replace(image)
        /\ UNCHANGED <<registry, call, orphanWrites>>
    BY <1>3 DEF PruneDone, Serve, loop
  <2>2. FilePending => FilePending'
    BY <2>1 DEF FilePending
  <2> QED  BY <2>1, <2>2 DEF FileInv, Replace, Given
<1>4. CASE SaveLast
  BY <1>4 DEF SaveLast, file, news, FileInv
<1>5. CASE SavedLast
  BY <1>5 DEF SavedLast, FileInv, Replace, Given
<1> QED  BY <1>1, <1>2, <1>3, <1>4, <1>5

LEMMA FileEnds == ASSUME FileInv, Crash \/ Exit \/ BeginStop PROVE FileInv'
<1>1. CASE Crash \/ Exit
  BY <1>1 DEF Crash, Exit, Halt, file, FileInv
<1>2. CASE BeginStop
  <2>1. mode' = "stopping" /\ UNCHANGED <<registry, disk>> /\ filed' \in {filed, Cancelled(filed)}
    BY <1>2 DEF BeginStop, CancelCalls, file
  <2> QED  BY <2>1 DEF FileInv, Cancelled
<1> QED  BY <1>1, <1>2

LEMMA FileStep ==
    ASSUME TypeInv, CleanupOK, DownInv, FileInv, [Next]_vars PROVE FileInv'
<1>1. CASE Tick \/ UNCHANGED vars
  <2>1. UNCHANGED <<mode, image, skipped, registry, disk, filed, call, orphanWrites>>
    BY <1>1 DEF Tick, vars, life, file, news, loop
  <2>2. FilePending => FilePending'
    BY <2>1 DEF FilePending
  <2> QED  BY <2>1, <2>2, FileSame
<1> QED
  BY <1>1, FileWriters, FileLoop, FileThreads, FileOrphan, FileReact, FileRemoveCompleted, FileRestoreOne,
     FileStart, FileLifecycle, FileEnds DEF Next, Environment, Lifecycle, Resume

\* SnapshotIsLatest, for any writers, retention, crashes and stops: at rest the
\* file holds the registry, but for an older write that ended later, or a
\* removal that was cancelled.
THEOREM FileFollowsRegistry == Spec => []SnapshotIsLatest
<1> DEFINE Inv == TypeInv /\ CleanupOK /\ DownInv /\ NewsOK /\ FileInv
<1>1. Init => Inv
  <2>1. Init => DownInv /\ NewsOK /\ FileInv
    BY DEF Init, DownInv, Idle, NewsOK, News, FileInv
  <2> QED  BY <2>1, InitTypeInv
<1>2. Inv /\ [Next]_vars => Inv'
  BY TypeInvStep, CleanupStep, DownStep, NewsStep, FileStep
<1>3. Inv => SnapshotIsLatest
  BY DEF NewsOK, News, FileInv, FilePending, Current, Unwritten, SnapshotIsLatest, Quiet, Idle
<1> QED  BY <1>1, <1>2, <1>3, PTL DEF Spec

-----------------------------------------------------------------------------
(* The memory *)

\* The handler of c is yet to tell the memory that the entry of s is this one.
Recalling(c, s, entry) ==
    /\ c # None /\ c.session = s /\ c.status = entry
    /\ c.handler = "ready" \/ (c.status # None /\ c.handler \in {"writing", "written"})

\* What is due of a session is with a handler, until a stop begins.
MemoryInv ==
    \A s \in Sessions :
        /\ recalled[s] = "told" => lastSeen[s] = Seen(registry[s])
        /\ recalled[s] = "due" /\ mode \in {"down", "restoring", "pruning", "up"} =>
              \E o \in Owners : Recalling(call[o], s, registry[s])

\* A step that tells nothing and changes nothing leaves what is with the handlers.
LEMMA MemorySame ==
    ASSUME MemoryInv, UNCHANGED <<registry, lastSeen, recalled>>,
           mode' \in {"down", "restoring", "pruning", "up"} =>
              mode \in {"down", "restoring", "pruning", "up"},
           \A s \in Sessions, o \in Owners :
              Recalling(call[o], s, registry[s]) => Recalling(call'[o], s, registry[s])
    PROVE  MemoryInv'
  BY DEF MemoryInv

\* One call moves on.
LEMMA MemoryCall ==
    ASSUME MemoryInv, call \in [Owners -> Call \cup {None}],
           UNCHANGED <<registry, lastSeen, recalled, mode>>,
           NEW o \in Owners, NEW c, call' = [call EXCEPT ![o] = c],
           \A s \in Sessions : Recalling(call[o], s, registry[s]) => Recalling(c, s, registry[s])
    PROVE  MemoryInv'
  BY MemorySame

\* A change is posted by an owner that waits for nothing.
LEMMA MemoryRegistered ==
    ASSUME TypeInv, NewsOK, MemoryInv, UNCHANGED <<mode, lastSeen>>,
           NEW o \in Owners, Idle(o), NEW s \in Sessions, NEW entry \in Status \cup {None},
           Register(s, entry), Notify(o, s, entry)
    PROVE  MemoryInv'
<1>1. \A r \in Sessions : /\ registry'[r] = IF r = s THEN entry ELSE registry[r]
                          /\ recalled'[r] = IF r = s THEN "due" ELSE recalled[r]
  BY DEF Register, TypeInv, StateOK, Snapshot, NewsOK
<1>2. Recalling(call'[o], s, entry)
  BY PostedCall DEF Recalling
<1>3. \A p \in Owners, r \in Sessions : Recalling(call[p], r, registry[r]) => call'[p] = call[p]
  BY PostedCall DEF Recalling, Idle
<1>4. QED
  BY <1>1, <1>2, <1>3 DEF MemoryInv

LEMMA MemoryWriters ==
    ASSUME TypeInv, NewsOK, MemoryInv, NEW w \in Writers, NEW s \in Sessions,
           Upsert(w, s) \/ MarkRead(w, s) \/ Remove(w, s)
    PROVE  MemoryInv'
<1>1. w \in Owners /\ Idle(w) /\ UNCHANGED <<mode, lastSeen>>
  BY ConstantFacts DEF Upsert, MarkRead, Remove, MayReport, life, memory
<1>2. registry \in Snapshot /\ now \in Times
  BY DEF TypeInv, StateOK
<1>3. CASE Upsert(w, s)
  <2>1. PICK state \in ReportedStates, live \in BOOLEAN :
           LET status == [state |-> state, live |-> live, at |-> now]
           IN  Register(s, status) /\ Notify(w, s, status)
    BY <1>3 DEF Upsert
  <2> DEFINE status == [state |-> state, live |-> live, at |-> now]
  <2>2. status \in Status
    BY <1>2, StatesAssumption DEF Status
  <2> HIDE DEF status
  <2>3. Register(s, status) /\ Notify(w, s, status)
    BY <2>1 DEF status
  <2> QED  BY <1>1, <2>2, <2>3, MemoryRegistered
<1>4. CASE Remove(w, s)
  BY <1>1, <1>4, MemoryRegistered DEF Remove
<1>5. CASE MarkRead(w, s)
  <2>1. Notify(w, s, registry[s]) /\ registry[s] \in Status \cup {None}
    BY <1>2, <1>5 DEF MarkRead, Snapshot
  <2>2. \A p \in Owners : p # w => call'[p] = call[p]
    BY <1>1, <2>1, PostedCall
  <2>3. \A r \in Sessions, p \in Owners :
           Recalling(call[p], r, registry[r]) => Recalling(call'[p], r, registry[r])
    BY <1>1, <2>2 DEF Recalling, Idle
  <2> QED  BY <1>1, <1>5, <2>3, MemorySame DEF MarkRead, news
<1> QED  BY <1>3, <1>4, <1>5

\* The calls after the cleanup of s is cancelled.
LEMMA CancelledOwner ==
    ASSUME CleanupOK, NEW s \in Sessions, NEW calls, NEW q, CancelCalls(CleanupOwner(s), calls, q)
    PROVE  \A o \in Owners :
              \/ call'[o] = calls[o]
              \/ /\ o = s /\ call'[o] = None
                 /\ call[o] # None => call[o].session = s /\ call[o].status = None
<1>1. CleanupOwner(s) \subseteq {s}
  BY DEF CleanupOwner
<1>2. \A o \in Owners : call'[o] = IF o \in CleanupOwner(s) THEN None ELSE calls[o]
  BY DEF CancelCalls
<1>3. call[s] # None => call[s].session = s /\ call[s].status = None
  BY DEF CleanupOK, Idle
<1> QED  BY <1>1, <1>2, <1>3

LEMMA MemoryHandleRemoved ==
    ASSUME TypeInv, CleanupOK, NewsOK, MemoryInv, HandleRemoved PROVE MemoryInv'
<1> DEFINE o == Front.owner
           s == Front.session
           c == [call[o] EXCEPT !.handler = "writing", !.payload = registry]
           calls == [call EXCEPT ![o].handler = "writing", ![o].payload = registry]
<1>1. /\ o \in Owners /\ s \in Sessions /\ call[o] \in Call
      /\ call[o].session = s /\ call[o].status = None
  BY FrontCall DEF HandleRemoved
<1>2. call \in [Owners -> Call \cup {None}] /\ lastSeen \in [Sessions -> AttentionState \cup {None}]
      /\ recalled \in [Sessions -> News] /\ registry \in Snapshot
  BY DEF TypeInv, QueueOK, LoopOK, StateOK, NewsOK
<1>3. calls = [call EXCEPT ![o] = c]
  BY <1>2, <1>1
<1>4. /\ CancelCalls(CleanupOwner(s), calls, Tail(ready))
      /\ lastSeen' = [lastSeen EXCEPT ![s] = None]
      /\ recalled' = [recalled EXCEPT ![s] = Given(@, registry[s] = None)]
      /\ UNCHANGED <<registry, mode>>
  BY DEF HandleRemoved, Forget, life
<1> HIDE DEF o, s, c, calls
<1>5. \A p \in Owners : p # o => calls[p] = call[p]
  BY <1>2, <1>3
<1>6. \A r \in Sessions, p \in Owners :
         Recalling(call[p], r, registry[r]) =>
            Recalling(call'[p], r, registry[r]) \/ (r = s /\ registry[r] = None)
  BY <1>1, <1>4, <1>5, CancelledOwner DEF Recalling
<1>7. \A r \in Sessions :
         /\ lastSeen'[r] = IF r = s THEN None ELSE lastSeen[r]
         /\ recalled'[r] = IF r = s THEN Given(recalled[r], registry[r] = None) ELSE recalled[r]
  BY <1>2, <1>4
<1>8. ASSUME NEW r \in Sessions
      PROVE  /\ recalled'[r] = "told" => lastSeen'[r] = Seen(registry[r])
             /\ recalled'[r] = "due" => recalled[r] = "due" /\ ~(r = s /\ registry[r] = None)
  BY <1>7 DEF MemoryInv, Given, Seen
<1> QED  BY <1>4, <1>6, <1>8 DEF MemoryInv

LEMMA MemoryLoop == ASSUME TypeInv, CleanupOK, NewsOK, MemoryInv, Loop PROVE MemoryInv'
<1>1. call \in [Owners -> Call \cup {None}] /\ registry \in Snapshot
  BY DEF TypeInv, QueueOK, LoopOK, StateOK
<1>2. CASE Broadcast
  <2> DEFINE o == Front.owner
             d == [call[o] EXCEPT !.broadcast = FALSE]
             c == Settle(d)
  <2>1. o \in Owners /\ call[o] \in Call
    BY <1>2, FrontCall DEF Broadcast
  <2>2. /\ d \in Call /\ d.handler = call[o].handler /\ d.session = call[o].session
        /\ d.status = call[o].status
    BY <2>1 DEF Call
  <2>3. call' = [call EXCEPT ![o] = c]
    BY <1>2 DEF Broadcast
  <2>4. \A s \in Sessions : Recalling(call[o], s, registry[s]) => Recalling(c, s, registry[s])
    BY <2>2, ConstantFacts DEF Recalling, Settle
  <2> HIDE DEF c, o
  <2> QED  BY <1>1, <1>2, <2>1, <2>3, <2>4, MemoryCall DEF Broadcast, memory, news, life
<1>3. CASE SkipCancelled
  BY <1>3, MemorySame DEF SkipCancelled, memory, news, life
<1>4. CASE HandleUpdated
  <2> DEFINE o == Front.owner
             c == [call[o] EXCEPT !.handler = "writing", !.payload = registry]
  <2>1. o \in Owners /\ call[o] \in Call /\ call[o].status # None
    BY <1>4, FrontCall DEF HandleUpdated
  <2>2. /\ c \in Call /\ c.handler = "writing" /\ c.session = call[o].session
        /\ c.status = call[o].status
    BY <1>1, <2>1 DEF Call
  <2>3. call' = [call EXCEPT ![o] = c]
    BY <1>1, <1>4, <2>1 DEF HandleUpdated
  <2>4. \A s \in Sessions : Recalling(call[o], s, registry[s]) => Recalling(c, s, registry[s])
    BY <2>1, <2>2, ConstantFacts DEF Recalling
  <2> HIDE DEF c, o
  <2> QED  BY <1>1, <1>4, <2>1, <2>3, <2>4, MemoryCall DEF HandleUpdated, memory, news, life
<1> QED  BY <1>2, <1>3, <1>4, MemoryHandleRemoved DEF Loop

LEMMA MemoryThreads ==
    ASSUME TypeInv, MemoryInv, NEW o \in Owners, WriteSnapshot(o) \/ FinishRemoved(o) \/ Notified(o)
    PROVE  MemoryInv'
<1>1. call \in [Owners -> Call \cup {None}] /\ call[o] \in Call
  BY DEF TypeInv, QueueOK, LoopOK, WriteSnapshot, FinishRemoved, Notified, Idle
<1>2. UNCHANGED <<registry, lastSeen, recalled, mode>>
  BY DEF WriteSnapshot, FinishRemoved, Notified, Replace, life, memory, news
<1>3. CASE WriteSnapshot(o)
  <2> DEFINE d == [call[o] EXCEPT !.handler = "written", !.payload = Empty]
  <2>1. call[o].handler = "writing" /\ call' = [call EXCEPT ![o] = d]
    BY <1>1, <1>3 DEF WriteSnapshot
  <2>2. d \in Call /\ d.handler = "written" /\ d.session = call[o].session /\ d.status = call[o].status
    BY <1>1, ConstantFacts DEF Call
  <2>3. \A s \in Sessions : Recalling(call[o], s, registry[s]) => Recalling(d, s, registry[s])
    BY <2>1, <2>2, ConstantFacts DEF Recalling
  <2> HIDE DEF d
  <2> QED  BY <1>1, <1>2, <2>1, <2>3, MemoryCall
<1>4. CASE FinishRemoved(o) \/ Notified(o)
  <2> DEFINE d == Settle([call[o] EXCEPT !.handler = "done"])
  <2>1. call' = [call EXCEPT ![o] = d]
        /\ (call[o].handler = "notifying" \/ (call[o].handler = "written" /\ call[o].status = None))
    BY <1>4 DEF FinishRemoved, Notified
  <2>2. \A s \in Sessions : ~Recalling(call[o], s, registry[s])
    BY <2>1 DEF Recalling
  <2> HIDE DEF d
  <2> QED  BY <1>1, <1>2, <2>1, <2>2, MemoryCall
<1> QED  BY <1>3, <1>4

LEMMA MemoryReact ==
    ASSUME TypeInv, CleanupOK, NewsOK, MemoryInv, NEW o \in Owners, ReactToUpdated(o)
    PROVE  MemoryInv'
<1> DEFINE s == call[o].session
           status == call[o].status
           arms == Retention # None /\ InactiveCompleted(status)
           next == IF Alerts(s, status) THEN [call[o] EXCEPT !.handler = "notifying", !.since = now]
                                        ELSE Settle([call[o] EXCEPT !.handler = "done"])
           calls == [call EXCEPT ![o] = next]
           dropped == ~arms /\ \E p \in CleanupOwner(s) : call[p].handler = "ready"
           current == registry[s] # None /\ registry[s].state = status.state
<1>1. /\ call \in [Owners -> Call \cup {None}] /\ call[o] \in Call /\ s \in Sessions
      /\ status # None /\ recalled \in [Sessions -> News]
      /\ lastSeen \in [Sessions -> AttentionState \cup {None}]
  BY DEF TypeInv, QueueOK, LoopOK, StateOK, ReactToUpdated, Idle, Call, NewsOK
<1>2. /\ UpdateCompletedCleanup(s, status, calls) /\ UNCHANGED <<mode, registry>>
      /\ lastSeen' = [lastSeen EXCEPT ![s] = status.state]
  BY DEF ReactToUpdated, life
<1>3. recalled' = [recalled EXCEPT ![s] = Given(IF dropped THEN Cancelled(@) ELSE @, current)]
  BY DEF ReactToUpdated, Remembered
<1> HIDE DEF next, dropped, current
<1>4. \A p \in Owners : p # o => calls[p] = call[p]
  BY <1>1
<1>5. arms => call' = calls
  BY <1>2 DEF UpdateCompletedCleanup
<1>6. ~arms => CancelCalls(CleanupOwner(s), calls, ready)
  BY <1>2 DEF UpdateCompletedCleanup
<1> HIDE DEF calls
<1>7. \A p \in Owners :
         \/ call'[p] = calls[p]
         \/ /\ p = s /\ call'[p] = None /\ ~arms /\ p \in CleanupOwner(s)
            /\ call[p] # None => call[p].session = s /\ call[p].status = None
  <2>1. CASE arms
    BY <1>5, <2>1
  <2>2. CASE ~arms
    <3>1. \A p \in Owners : call'[p] = calls[p] \/ p \in CleanupOwner(s)
      BY <1>6, <2>2 DEF CancelCalls
    <3> HIDE DEF arms, s
    <3>2. CancelCalls(CleanupOwner(s), calls, ready) /\ s \in Sessions
      BY <1>1, <1>6, <2>2
    <3>3. \A p \in Owners :
              \/ call'[p] = calls[p]
              \/ /\ p = s /\ call'[p] = None
                 /\ call[p] # None => call[p].session = s /\ call[p].status = None
      BY <3>2, CancelledOwner
    <3> QED  BY <2>2, <3>1, <3>3
  <2> QED  BY <2>1, <2>2
<1> HIDE DEF arms
<1>8. /\ \A r \in Sessions \ {s} : recalled'[r] = recalled[r] /\ lastSeen'[r] = lastSeen[r]
      /\ lastSeen'[s] = status.state
      /\ recalled'[s] = Given(IF dropped THEN Cancelled(recalled[s]) ELSE recalled[s], current)
  BY <1>1, <1>2, <1>3
<1>9. /\ recalled'[s] = "told" => current
      /\ recalled'[s] = "due" => recalled[s] = "due" /\ ~dropped /\ ~current
  BY <1>8 DEF Given, Cancelled
<1>10. recalled'[s] = "told" => lastSeen'[s] = Seen(registry[s])
  BY <1>8, <1>9 DEF current, Seen
<1>11. ASSUME NEW r \in Sessions, NEW p \in Owners, Recalling(call[p], r, registry[r]),
              r = s => ~dropped /\ ~current
       PROVE  Recalling(call'[p], r, registry[r])
  <2>1. call[p] # None /\ call[p].session = r /\ call[p].status = registry[r]
    BY <1>11 DEF Recalling
  <2>2. p # o
    BY <1>1, <1>11, <2>1 DEF current
  <2>3. call'[p] # calls[p] => r = s /\ p \in CleanupOwner(s) /\ ~arms /\ call[p].status = None
    BY <1>7, <2>1
  <2>4. call'[p] # calls[p] => call[p].handler = "ready"
    BY <1>11, <2>3 DEF Recalling
  <2>5. call'[p] = calls[p]
    BY <1>11, <2>3, <2>4 DEF dropped
  <2> QED  BY <1>4, <1>11, <2>2, <2>5
<1> HIDE DEF s, status
<1> QED  BY <1>1, <1>2, <1>8, <1>9, <1>10, <1>11 DEF MemoryInv

LEMMA MemoryRemoveCompleted ==
    ASSUME TypeInv, CleanupOK, NewsOK, MemoryInv, NEW s \in Sessions, RemoveCompleted(s)
    PROVE  MemoryInv'
<1>1. s \in Owners /\ UNCHANGED <<mode, lastSeen>>
  BY ConstantFacts DEF RemoveCompleted, life, memory
<1>2. CASE Register(s, None) /\ Notify(s, s, None)
  <2>1. Idle(s)
    BY DEF RemoveCompleted, CleanupOK
  <2> QED  BY <1>1, <1>2, <2>1, MemoryRegistered
<1>3. CASE UNCHANGED <<registry, owed, loop, news>>
  BY <1>1, <1>3, MemorySame DEF loop, news
<1> QED  BY <1>2, <1>3 DEF RemoveCompleted

LEMMA MemoryRestoreOne ==
    ASSUME TypeInv, NewsOK, MemoryInv, NEW s \in Sessions, RestoreOne(s) PROVE MemoryInv'
<1>1. Boot \in Owners /\ Idle(Boot) /\ UNCHANGED <<mode, lastSeen>> /\ image[s] \in Status \cup {None}
  BY ConstantFacts DEF RestoreOne, memory, TypeInv, StateOK, Snapshot
<1>2. CASE Register(s, image[s]) /\ Notify(Boot, s, image[s])
  BY <1>1, <1>2, MemoryRegistered
<1>3. CASE UNCHANGED <<registry, loop, news>>
  BY <1>1, <1>3, MemorySame DEF loop, news
<1> QED  BY <1>2, <1>3 DEF RestoreOne

LEMMA MemoryStep ==
    ASSUME TypeInv, CleanupOK, NewsOK, MemoryInv, [Next]_vars PROVE MemoryInv'
<1>1. CASE Crash \/ Exit
  BY <1>1 DEF Crash, Exit, Halt, MemoryInv, Empty, Seen
<1>2. CASE BeginStop
  <2>1. mode' = "stopping" /\ UNCHANGED <<registry, lastSeen, recalled>>
    BY <1>2 DEF BeginStop, memory
  <2> QED  BY <2>1 DEF MemoryInv
<1>3. CASE \/ Start \/ PruneSnapshot \/ PruneDone \/ StartServing \/ SaveLast \/ SavedLast
           \/ WriteOrphan \/ Tick \/ UNCHANGED vars
  BY <1>3, MemorySame DEF Start, PruneSnapshot, PruneDone, StartServing, Serve, SaveLast, SavedLast,
     WriteOrphan, Tick, vars, Replace, loop, memory, news, life
<1> QED
  BY <1>1, <1>2, <1>3, MemoryWriters, MemoryLoop, MemoryThreads, MemoryReact, MemoryRemoveCompleted,
     MemoryRestoreOne DEF Next, Environment, Lifecycle, Resume

\* MemoryMatchesRegistry, for any writers, retention, crashes and restarts: at
\* rest the state last seen of each session is the registry's, but for an older
\* change that was handled later, or a removal that was cancelled.
THEOREM MemoryFollowsRegistry == Spec => []MemoryMatchesRegistry
<1> DEFINE Inv == TypeInv /\ CleanupOK /\ NewsOK /\ MemoryInv
<1>1. Init => Inv
  <2>1. Init => NewsOK /\ MemoryInv
    BY DEF Init, NewsOK, News, MemoryInv, Empty, Seen
  <2> QED  BY <2>1, InitTypeInv
<1>2. Inv /\ [Next]_vars => Inv'
  BY TypeInvStep, CleanupStep, NewsStep, MemoryStep
<1>3. Inv => MemoryMatchesRegistry
  BY DEF NewsOK, News, MemoryInv, Recalling, MemoryMatchesRegistry, Quiet, Idle
<1> QED  BY <1>1, <1>2, <1>3, PTL DEF Spec

-----------------------------------------------------------------------------
(* Alerts *)

\* What the manager remembers of its alerts is when they were raised, but for
\* the one that is with the notifier, unless two of a kind met there.
AlertInv ==
    /\ \A o \in Owners : Alerting(call[o]) => call[o].status # None
    /\ \A k \in AlertKey \ crossed :
          /\ \A o, p \in Owners : AlertingOf(call[o], k) /\ AlertingOf(call[p], k) => o = p
          /\ \A o \in Owners : AlertingOf(call[o], k) => alertedAt[k] = call[o].since
          /\ (\A o \in Owners : ~AlertingOf(call[o], k)) => alertedAt[k] = lastNotifiedAt[k]

\* Both calls wait for the same alert, or neither waits for one.
SameAlert(a, b) ==
    Alerting(a) \/ Alerting(b) =>
        /\ Alerting(a) /\ Alerting(b)
        /\ a.session = b.session /\ a.status = b.status /\ a.since = b.since

\* A step raises an alert, remembers one, ends the process, cancels some at a
\* stop, or does neither.
RaisesNone ==
    /\ UNCHANGED <<alertedAt, lastNotifiedAt, crossed>>
    /\ \A o \in Owners : SameAlert(call[o], call'[o])

Raises(w) ==
    LET key == <<call[w].session, call[w].status.state>>
    IN  /\ ~Alerting(call[w]) /\ Alerts(call[w].session, call[w].status) /\ call[w].status # None
        /\ Alerting(call'[w]) /\ call'[w].since = now
        /\ call'[w].session = call[w].session /\ call'[w].status = call[w].status
        /\ alertedAt' = [alertedAt EXCEPT ![key] = now]
        /\ UNCHANGED lastNotifiedAt
        /\ \A o \in Owners \ {w} : SameAlert(call[o], call'[o])
        /\ crossed' = IF \E p \in Owners : AlertingOf(call[p], key) THEN crossed \cup {key} ELSE crossed

Remembers(w) ==
    /\ Alerting(call[w]) /\ ~Alerting(call'[w])
    /\ lastNotifiedAt' = [lastNotifiedAt EXCEPT ![<<call[w].session, call[w].status.state>>] = call[w].since]
    /\ UNCHANGED <<alertedAt, crossed>>
    /\ \A o \in Owners \ {w} : SameAlert(call[o], call'[o])

\* A call moves on, not into or out of the notifier, and some cleanup task's
\* call may be cancelled.
LEMMA NoAlertCall ==
    ASSUME AlertInv, CleanupOK, call \in [Owners -> Call \cup {None}],
           NEW o \in Owners, NEW c, SameAlert(call[o], c),
           \A p \in Owners : call'[p] = [call EXCEPT ![o] = c][p] \/ (p \in Sessions /\ call'[p] = None)
    PROVE  \A p \in Owners : SameAlert(call[p], call'[p])
<1>1. \A p \in Sessions : ~Alerting(call[p])
  BY ConstantFacts DEF AlertInv, CleanupOK, Idle, Alerting
<1>2. ~Alerting(None)
  BY DEF Alerting
<1>3. TAKE p \in Owners
<1>4. CASE p \in Sessions /\ call'[p] = None
  BY <1>1, <1>2, <1>4 DEF SameAlert
<1>5. CASE p = o /\ call'[p] = c
  BY <1>5
<1>6. CASE p # o /\ call'[p] = call[p]
  BY <1>6 DEF SameAlert
<1>7. QED
  BY <1>4, <1>5, <1>6

\* A change is posted by an owner that waits for nothing.
LEMMA NoAlertPosted ==
    ASSUME TypeInv, CleanupOK, AlertInv, NEW o \in Owners, Idle(o), NEW s, NEW status,
           Notify(o, s, status), UNCHANGED <<alertedAt, lastNotifiedAt, crossed>>
    PROVE  RaisesNone
<1> DEFINE c == [session |-> s, status |-> status, handler |-> "ready",
                 broadcast |-> Serving, payload |-> Empty, since |-> 0]
<1>1. call \in [Owners -> Call \cup {None}] /\ call' = [call EXCEPT ![o] = c]
  BY DEF TypeInv, QueueOK, LoopOK, Notify
<1>2. c.handler = "ready"
  OBVIOUS
<1>3. SameAlert(call[o], c)
  BY <1>2 DEF SameAlert, Alerting, Idle
<1> HIDE DEF c
<1>4. \A p \in Owners : SameAlert(call[p], call'[p])
  BY <1>1, <1>3, NoAlertCall
<1>5. QED
  BY <1>4 DEF RaisesNone

LEMMA NoAlertSame ==
    ASSUME UNCHANGED <<call, alertedAt, lastNotifiedAt, crossed>> PROVE RaisesNone
  BY DEF RaisesNone, SameAlert

LEMMA NoAlertLoop == ASSUME TypeInv, CleanupOK, AlertInv, Loop PROVE RaisesNone
<1>1. QueueOK /\ call \in [Owners -> Call \cup {None}]
  BY DEF TypeInv, QueueOK, LoopOK
<1>2. CASE Broadcast
  <2> DEFINE o == Front.owner
             d == [call[o] EXCEPT !.broadcast = FALSE]
             c == Settle(d)
  <2>1. o \in Owners /\ call[o] \in Call
    BY <1>2, FrontCall DEF Broadcast
  <2>2. /\ d \in Call /\ d.session = call[o].session /\ d.status = call[o].status
        /\ d.handler = call[o].handler /\ d.since = call[o].since
    BY <2>1 DEF Call
  <2>3. c = d \/ (c = None /\ d.handler = "done")
    BY DEF Settle
  <2>4. call' = [call EXCEPT ![o] = c] /\ UNCHANGED <<alertedAt, lastNotifiedAt, crossed>>
    BY <1>2 DEF Broadcast, memory, news
  <2> HIDE DEF o, d, c
  <2>5. SameAlert(call[o], c)
    BY <2>1, <2>2, <2>3, ConstantFacts DEF SameAlert, Alerting
  <2>6. \A p \in Owners : SameAlert(call[p], call'[p])
    BY <1>1, <2>1, <2>4, <2>5, NoAlertCall
  <2>7. QED
    BY <2>4, <2>6 DEF RaisesNone
<1>3. CASE SkipCancelled
  BY <1>3, NoAlertSame DEF SkipCancelled, memory, news
<1>4. CASE HandleUpdated \/ HandleRemoved
  <2> DEFINE o == Front.owner
             c == [call[o] EXCEPT !.handler = "writing", !.payload = registry]
             calls == [call EXCEPT ![o] = c]
  <2>1. o \in Owners /\ call[o] \in Call /\ call[o].handler = "ready" /\ Front.session \in Sessions
    BY <1>4, FrontCall DEF HandleUpdated, HandleRemoved
  <2>2. c.handler = "writing"
    BY <2>1 DEF Call
  <2>3. calls = [call EXCEPT ![o].handler = "writing", ![o].payload = registry]
    BY <1>1, <2>1
  <2>4. UNCHANGED <<alertedAt, lastNotifiedAt, crossed>>
    BY <1>4 DEF HandleUpdated, HandleRemoved, memory, news
  <2>5. \A p \in Owners : call'[p] = calls[p] \/ (p \in Sessions /\ call'[p] = None)
    <3>1. CASE HandleUpdated
      BY <2>3, <3>1 DEF HandleUpdated
    <3>2. CASE HandleRemoved
      <4>1. call' = [p \in Owners |-> IF p \in CleanupOwner(Front.session) THEN None ELSE calls[p]]
        BY <2>3, <3>2 DEF HandleRemoved, CancelCalls
      <4>2. CleanupOwner(Front.session) \subseteq Sessions
        BY <2>1 DEF CleanupOwner
      <4>3. QED
        BY <4>1, <4>2
    <3>3. QED
      BY <1>4, <3>1, <3>2
  <2>6. SameAlert(call[o], c)
    BY <2>1, <2>2 DEF SameAlert, Alerting
  <2> HIDE DEF o, c
  <2>7. \A p \in Owners : SameAlert(call[p], call'[p])
    BY <1>1, <2>1, <2>5, <2>6, NoAlertCall
  <2>8. QED
    BY <2>4, <2>7 DEF RaisesNone
<1>5. QED
  BY <1>2, <1>3, <1>4 DEF Loop

\* A handler that has compared the status with the last one may raise an alert.
LEMMA AlertReact ==
    ASSUME TypeInv, CleanupOK, AlertInv, NEW o \in Owners, ReactToUpdated(o)
    PROVE  RaisesNone \/ Raises(o)
<1> DEFINE s == call[o].session
           status == call[o].status
           alert == Alerts(s, status)
           raised == [call[o] EXCEPT !.handler = "notifying", !.since = now]
           over == [call[o] EXCEPT !.handler = "done"]
           c == IF alert THEN raised ELSE Settle(over)
           calls == [call EXCEPT ![o] = c]
<1>1. /\ call \in [Owners -> Call \cup {None}] /\ call[o] \in Call /\ s \in Sessions
      /\ ~Idle(o) /\ call[o].handler = "written" /\ status # None /\ now \in Times
  BY DEF ReactToUpdated, Idle, TypeInv, QueueOK, LoopOK, StateOK, Call
<1>2. /\ UpdateCompletedCleanup(s, status, calls)
      /\ alertedAt' = IF alert THEN [alertedAt EXCEPT ![<<s, status.state>>] = now] ELSE alertedAt
      /\ crossed' = IF alert /\ \E p \in Owners : AlertingOf(call[p], <<s, status.state>>)
                    THEN crossed \cup {<<s, status.state>>} ELSE crossed
      /\ UNCHANGED lastNotifiedAt
  BY DEF ReactToUpdated
<1>3. /\ raised \in Call /\ raised.session = s /\ raised.status = status
      /\ raised.handler = "notifying" /\ raised.since = now
      /\ over.handler = "done"
  BY <1>1 DEF Call
<1>4. ~Alerting(call[o]) /\ ~Alerting(over) /\ ~Alerting(None)
  BY <1>1, <1>3 DEF Alerting
<1>5. ~Alerting(Settle(over)) /\ Alerting(raised)
  BY <1>3, <1>4, ConstantFacts DEF Settle, Alerting
<1>6. o \notin Sessions
  BY <1>1 DEF CleanupOK
<1>7. CleanupOwner(s) \subseteq Sessions
  BY <1>1 DEF CleanupOwner
<1> HIDE DEF alert, raised, over, calls, status, c
<1>8. \A p \in Owners : call'[p] = calls[p] \/ (p \in Sessions /\ call'[p] = None)
  BY <1>2, <1>7 DEF UpdateCompletedCleanup, CancelCalls
<1>9. CASE alert
  <2>1. call'[o] = raised
    BY <1>1, <1>6, <1>8, <1>9 DEF calls, c
  <2>2. \A p \in Owners \ {o} : call'[p] = call[p] \/ (p \in Sessions /\ call'[p] = None)
    BY <1>1, <1>8 DEF calls
  <2>3. \A p \in Sessions : ~Alerting(call[p])
    BY ConstantFacts DEF AlertInv, CleanupOK, Idle, Alerting
  <2>4. \A p \in Owners \ {o} : SameAlert(call[p], call'[p])
    BY <1>4, <2>2, <2>3 DEF SameAlert
  <2>5. QED
    BY <1>1, <1>2, <1>3, <1>4, <1>5, <1>9, <2>1, <2>4 DEF Raises, alert, status
<1>10. CASE ~alert
  <2>1. SameAlert(call[o], c)
    BY <1>4, <1>5, <1>10 DEF SameAlert, c
  <2>2. \A p \in Owners : call'[p] = [call EXCEPT ![o] = c][p] \/ (p \in Sessions /\ call'[p] = None)
    BY <1>8 DEF calls
  <2>3. \A p \in Owners : SameAlert(call[p], call'[p])
    BY <1>1, <2>1, <2>2, NoAlertCall
  <2>4. QED
    BY <1>2, <1>10, <2>3 DEF RaisesNone
<1>11. QED
  BY <1>9, <1>10

LEMMA AlertThreads ==
    ASSUME TypeInv, CleanupOK, AlertInv, NEW o \in Owners,
           WriteSnapshot(o) \/ FinishRemoved(o) \/ Notified(o)
    PROVE  RaisesNone \/ Remembers(o)
<1> DEFINE over == [call[o] EXCEPT !.handler = "done"]
           written == [call[o] EXCEPT !.handler = "written", !.payload = Empty]
<1>1. call \in [Owners -> Call \cup {None}] /\ call[o] \in Call /\ ~Idle(o)
  BY DEF WriteSnapshot, FinishRemoved, Notified, Idle, TypeInv, QueueOK, LoopOK
<1>2. over.handler = "done" /\ written.handler = "written"
  BY <1>1 DEF Call
<1>3. ~Alerting(Settle(over)) /\ ~Alerting(written)
  BY <1>2 DEF Settle, Alerting
<1>4. CASE WriteSnapshot(o)
  <2>1. call' = [call EXCEPT ![o] = written] /\ UNCHANGED <<alertedAt, lastNotifiedAt, crossed>>
    BY <1>1, <1>4 DEF WriteSnapshot, Replace, memory
  <2>2. SameAlert(call[o], written)
    BY <1>3, <1>4 DEF SameAlert, Alerting, WriteSnapshot
  <2> HIDE DEF written
  <2>3. \A p \in Owners : SameAlert(call[p], call'[p])
    BY <1>1, <2>1, <2>2, NoAlertCall
  <2>4. QED
    BY <2>1, <2>3 DEF RaisesNone
<1>5. CASE FinishRemoved(o)
  <2> DEFINE c == Settle(over)
  <2>1. call' = [call EXCEPT ![o] = c] /\ UNCHANGED <<alertedAt, lastNotifiedAt, crossed>>
    BY <1>5 DEF FinishRemoved, memory, news
  <2>2. SameAlert(call[o], c)
    BY <1>3, <1>5 DEF SameAlert, Alerting, FinishRemoved
  <2> HIDE DEF c
  <2>3. \A p \in Owners : SameAlert(call[p], call'[p])
    BY <1>1, <2>1, <2>2, NoAlertCall
  <2>4. QED
    BY <2>1, <2>3 DEF RaisesNone
<1>6. CASE Notified(o)
  <2> DEFINE c == Settle(over)
  <2>1. /\ call' = [call EXCEPT ![o] = c] /\ UNCHANGED <<alertedAt, crossed>>
        /\ lastNotifiedAt' = [lastNotifiedAt EXCEPT ![<<call[o].session, call[o].status.state>>] = call[o].since]
    BY <1>6 DEF Notified, news
  <2>2. Alerting(call[o])
    BY <1>6 DEF Alerting, Notified, Idle
  <2> HIDE DEF c
  <2>3. call'[o] = c /\ \A p \in Owners \ {o} : call'[p] = call[p]
    BY <1>1, <2>1
  <2>4. ~Alerting(call'[o])
    BY <1>3, <2>3 DEF c
  <2>5. QED
    BY <2>1, <2>2, <2>3, <2>4 DEF Remembers, SameAlert
<1>7. QED
  BY <1>4, <1>5, <1>6

\* The process ends, or a stop cancels calls, those that wait for an alert of a
\* kind that counts as crossed from then on.
Ends ==
    /\ \A o \in Owners : ~Alerting(call'[o])
    /\ alertedAt' = lastNotifiedAt'

Stops ==
    /\ UNCHANGED <<alertedAt, lastNotifiedAt>> /\ crossed \subseteq crossed'
    /\ \A o \in Owners :
          \/ call'[o] = call[o]
          \/ /\ ~Alerting(call'[o])
             /\ \A k \in AlertKey \ crossed' : ~AlertingOf(call[o], k)

LEMMA AlertEnds == ASSUME Crash \/ Exit PROVE Ends
  BY DEF Crash, Exit, Halt, Ends, Alerting

LEMMA AlertStops == ASSUME TypeInv, CleanupOK, AlertInv, BeginStop PROVE Stops
<1>1. PICK stopped \in SUBSET Writers :
          /\ CancelCalls(stopped \cup Sessions, call, ready)
          /\ crossed' = crossed \cup {key \in AlertKey : \E o \in stopped : AlertingOf(call[o], key)}
  BY DEF BeginStop
<1>2. call' = [o \in Owners |-> IF o \in stopped \cup Sessions THEN None ELSE call[o]]
  BY <1>1 DEF CancelCalls
<1>3. \A o \in Sessions : ~Alerting(call[o])
  BY ConstantFacts DEF AlertInv, CleanupOK, Idle, Alerting
<1>4. ~Alerting(None)
  BY DEF Alerting
<1>5. ASSUME NEW o \in Owners, o \in stopped \cup Sessions, NEW k \in AlertKey \ crossed'
      PROVE  ~AlertingOf(call[o], k)
  BY <1>1, <1>3, <1>5 DEF AlertingOf
<1>6. UNCHANGED <<alertedAt, lastNotifiedAt>>
  BY DEF BeginStop, memory
<1> QED  BY <1>1, <1>2, <1>4, <1>5, <1>6 DEF Stops

LEMMA AlertSteps ==
    ASSUME TypeInv, CleanupOK, AlertInv, [Next]_vars
    PROVE  RaisesNone \/ Ends \/ Stops \/ \E o \in Owners : Raises(o) \/ Remembers(o)
<1>1. CASE Environment
  <2>2. ASSUME NEW w \in Writers, NEW s \in Sessions, Upsert(w, s) \/ MarkRead(w, s) \/ Remove(w, s)
        PROVE  RaisesNone
    <3>1. Idle(w) /\ w \in Owners /\ UNCHANGED <<alertedAt, lastNotifiedAt, crossed>>
      BY <2>2, ConstantFacts DEF Upsert, MarkRead, Remove, MayReport, Register, memory, news
    <3>2. \E status : Notify(w, s, status)
      BY <2>2 DEF Upsert, MarkRead, Remove
    <3>3. QED
      BY <3>1, <3>2, NoAlertPosted
  <2>3. QED
    BY <1>1, <2>2, AlertEnds, AlertStops DEF Environment
<1>2. CASE Loop
  BY <1>2, NoAlertLoop
<1>3. CASE Lifecycle
  <2>1. ASSUME NEW s \in Sessions, RestoreOne(s) PROVE RaisesNone
    <3>1. Idle(Boot) /\ Boot \in Owners /\ UNCHANGED <<alertedAt, lastNotifiedAt, crossed>>
      BY <2>1, ConstantFacts DEF RestoreOne, Register, memory, news
    <3>2. UNCHANGED call \/ Notify(Boot, s, image[s])
      BY <2>1 DEF RestoreOne, loop
    <3>3. QED
      BY <3>1, <3>2, NoAlertPosted, NoAlertSame
  <2>2. CASE Start \/ PruneSnapshot \/ PruneDone \/ StartServing \/ SaveLast \/ SavedLast
    BY <2>2, NoAlertSame DEF Start, PruneSnapshot, PruneDone, StartServing, SaveLast, SavedLast,
       Replace, loop, memory, news
  <2>3. QED
    BY <1>3, <2>1, <2>2, AlertEnds DEF Lifecycle
<1>4. CASE WriteOrphan \/ Tick \/ UNCHANGED vars
  BY <1>4, NoAlertSame DEF WriteOrphan, Tick, Replace, vars, loop, memory, news
<1>5. ASSUME NEW o \in Owners, WriteSnapshot(o) \/ Resume(o)
      PROVE  RaisesNone \/ Raises(o) \/ Remembers(o)
  BY <1>5, AlertReact, AlertThreads DEF Resume
<1>6. ASSUME NEW s \in Sessions, RemoveCompleted(s) PROVE RaisesNone
  <2>1. s \in Owners /\ Idle(s) /\ UNCHANGED <<alertedAt, lastNotifiedAt, crossed>>
    BY <1>6, ConstantFacts DEF RemoveCompleted, Register, CleanupOK, memory, news
  <2>2. UNCHANGED call \/ Notify(s, s, None)
    BY <1>6 DEF RemoveCompleted, loop
  <2>3. QED
    BY <2>1, <2>2, NoAlertPosted, NoAlertSame
<1>7. QED
  BY <1>1, <1>2, <1>3, <1>4, <1>5, <1>6 DEF Next

\* An alert is about a session and a state that are alerted about.
LEMMA RaisedKey ==
    ASSUME TypeInv', NEW w \in Owners, Raises(w)
    PROVE  <<call[w].session, call[w].status.state>> \in AlertKey
<1>1. call'[w] \in Call
  BY ConstantFacts DEF Raises, Alerting, TypeInv, QueueOK, LoopOK
<1>2. call[w].session \in Sessions /\ call[w].status.state \in AlertStates
  BY <1>1 DEF Raises, Alerts, Call
<1>3. QED
  BY <1>2 DEF AlertKey

LEMMA AlertRaised ==
    ASSUME TypeInv, TypeInv', AlertInv, NEW w \in Owners, Raises(w) PROVE AlertInv'
<1> DEFINE key == <<call[w].session, call[w].status.state>>
<1>1. alertedAt \in [AlertKey -> Times \cup {None}] /\ key \in AlertKey
  BY RaisedKey DEF TypeInv, StateOK
<1>2. /\ alertedAt' = [alertedAt EXCEPT ![key] = now] /\ UNCHANGED lastNotifiedAt
      /\ Alerting(call'[w]) /\ call'[w].since = now /\ call'[w].status # None
      /\ key = <<call'[w].session, call'[w].status.state>> /\ ~Alerting(call[w])
      /\ \A o \in Owners \ {w} : SameAlert(call[o], call'[o])
      /\ crossed \subseteq crossed'
      /\ key \notin crossed' => \A p \in Owners : ~AlertingOf(call[p], key)
  BY DEF Raises
<1> HIDE DEF key
<1>3. alertedAt'[key] = now /\ \A k \in AlertKey : k # key => alertedAt'[k] = alertedAt[k]
  BY <1>1, <1>2
<1>4. \A o \in Owners, k \in AlertKey : o # w =>
         /\ AlertingOf(call'[o], k) <=> AlertingOf(call[o], k)
         /\ AlertingOf(call'[o], k) => call'[o].since = call[o].since
  BY <1>2 DEF SameAlert, AlertingOf
<1>5. AlertingOf(call'[w], key) /\ \A k \in AlertKey : k # key => ~AlertingOf(call'[w], k)
  BY <1>2 DEF AlertingOf
<1>6. \A k \in AlertKey : ~AlertingOf(call[w], k)
  BY <1>2 DEF AlertingOf
<1>7. \A o \in Owners : Alerting(call'[o]) => call'[o].status # None
  BY <1>2 DEF AlertInv, SameAlert
<1>8. ASSUME NEW k \in AlertKey \ crossed', k # key
      PROVE  /\ \A o, p \in Owners : AlertingOf(call'[o], k) /\ AlertingOf(call'[p], k) => o = p
             /\ \A o \in Owners : AlertingOf(call'[o], k) => alertedAt'[k] = call'[o].since
             /\ (\A o \in Owners : ~AlertingOf(call'[o], k)) => alertedAt'[k] = lastNotifiedAt'[k]
  <2>1. k \in AlertKey \ crossed
    BY <1>2
  <2>2. \A o \in Owners : /\ AlertingOf(call'[o], k) <=> AlertingOf(call[o], k)
                          /\ AlertingOf(call'[o], k) => call'[o].since = call[o].since
    BY <1>4, <1>5, <1>6, <1>8
  <2> QED  BY <1>2, <1>3, <1>8, <2>1, <2>2 DEF AlertInv
<1>9. ASSUME key \notin crossed'
      PROVE  /\ \A o, p \in Owners : AlertingOf(call'[o], key) /\ AlertingOf(call'[p], key) => o = p
             /\ \A o \in Owners : AlertingOf(call'[o], key) => alertedAt'[key] = call'[o].since
             /\ ~\A o \in Owners : ~AlertingOf(call'[o], key)
  <2>1. \A o \in Owners : AlertingOf(call'[o], key) => o = w
    BY <1>1, <1>2, <1>4, <1>9
  <2> QED  BY <1>2, <1>3, <1>5, <2>1
<1> QED  BY <1>7, <1>8, <1>9 DEF AlertInv

LEMMA AlertRemembered ==
    ASSUME TypeInv, AlertInv, NEW w \in Owners, Remembers(w) PROVE AlertInv'
<1> DEFINE key == <<call[w].session, call[w].status.state>>
<1>1. lastNotifiedAt \in [AlertKey -> Times \cup {None}]
  BY DEF TypeInv, StateOK
<1>2. /\ lastNotifiedAt' = [lastNotifiedAt EXCEPT ![key] = call[w].since]
      /\ alertedAt' = alertedAt /\ crossed' = crossed
      /\ ~Alerting(call'[w]) /\ AlertingOf(call[w], key)
      /\ \A o \in Owners \ {w} : SameAlert(call[o], call'[o])
  BY DEF Remembers, AlertingOf
<1> HIDE DEF key
<1>3. \A k \in AlertKey : lastNotifiedAt'[k] = IF k = key THEN call[w].since ELSE lastNotifiedAt[k]
  BY <1>1, <1>2
<1>4. \A o \in Owners, k \in AlertKey : o # w =>
         /\ AlertingOf(call'[o], k) <=> AlertingOf(call[o], k)
         /\ AlertingOf(call'[o], k) => call'[o].since = call[o].since
  BY <1>2 DEF SameAlert, AlertingOf
<1>5. \A k \in AlertKey : ~AlertingOf(call'[w], k) /\ (AlertingOf(call[w], k) => k = key)
  BY <1>2 DEF AlertingOf
<1>6. \A o \in Owners : Alerting(call'[o]) => call'[o].status # None
  BY <1>2 DEF AlertInv, SameAlert
<1>7. ASSUME NEW k \in AlertKey \ crossed'
      PROVE  /\ \A o, p \in Owners : AlertingOf(call'[o], k) /\ AlertingOf(call'[p], k) => o = p
             /\ \A o \in Owners : AlertingOf(call'[o], k) => alertedAt'[k] = call'[o].since
             /\ (\A o \in Owners : ~AlertingOf(call'[o], k)) => alertedAt'[k] = lastNotifiedAt'[k]
  <2>1. /\ \A o, p \in Owners : AlertingOf(call[o], k) /\ AlertingOf(call[p], k) => o = p
        /\ \A o \in Owners : AlertingOf(call[o], k) => alertedAt[k] = call[o].since
        /\ (\A o \in Owners : ~AlertingOf(call[o], k)) => alertedAt[k] = lastNotifiedAt[k]
    BY <1>2, <1>7 DEF AlertInv
  <2>2. \A o \in Owners : AlertingOf(call'[o], k) => AlertingOf(call[o], k) /\ call'[o].since = call[o].since
    BY <1>4, <1>5, <1>7
  <2>3. CASE k = key
    BY <1>2, <1>3, <2>1, <2>2, <2>3
  <2>4. CASE k # key
    <3>1. \A o \in Owners : AlertingOf(call'[o], k) <=> AlertingOf(call[o], k)
      BY <1>4, <1>5, <1>7, <2>4
    <3> QED  BY <1>2, <1>3, <1>7, <2>1, <2>2, <2>4, <3>1
  <2> QED  BY <2>3, <2>4
<1> QED  BY <1>6, <1>7 DEF AlertInv

LEMMA AlertStep ==
    ASSUME TypeInv, TypeInv', CleanupOK, AlertInv, [Next]_vars PROVE AlertInv'
<1>1. CASE RaisesNone
  <2>1. \A o \in Owners, k \in AlertKey :
           /\ AlertingOf(call'[o], k) <=> AlertingOf(call[o], k)
           /\ AlertingOf(call'[o], k) => call'[o].since = call[o].since
    BY <1>1 DEF RaisesNone, SameAlert, AlertingOf
  <2>2. \A o \in Owners : Alerting(call'[o]) => call'[o].status # None
    BY <1>1 DEF RaisesNone, AlertInv, SameAlert
  <2> QED  BY <1>1, <2>1, <2>2 DEF RaisesNone, AlertInv
<1>2. CASE Ends
  BY <1>2 DEF Ends, AlertInv, AlertingOf
<1>3. CASE Stops
  <2>1. \A o \in Owners, k \in AlertKey \ crossed' :
           /\ AlertingOf(call'[o], k) <=> AlertingOf(call[o], k)
           /\ AlertingOf(call'[o], k) => call'[o].since = call[o].since
    BY <1>3 DEF Stops, AlertingOf
  <2>2. \A o \in Owners : Alerting(call'[o]) => call'[o].status # None
    BY <1>3 DEF Stops, AlertInv
  <2>3. \A k \in AlertKey \ crossed' : k \in AlertKey \ crossed
    BY <1>3 DEF Stops
  <2> QED  BY <1>3, <2>1, <2>2, <2>3 DEF Stops, AlertInv
<1>4. QED
  BY <1>1, <1>2, <1>3, AlertSteps, AlertRaised, AlertRemembered

\* AlertSpacing, for any writers, retention, crashes, restarts and stops: two
\* alerts of the same session and state are a cooldown apart, unless two of them
\* were with the notifier at once, or a stop cancelled one there.
THEOREM AlertsAreSpaced == Spec => AlertSpacing
<1> DEFINE Inv == TypeInv /\ CleanupOK /\ AlertInv
<1>1. Init => Inv
  <2>1. Init => AlertInv
    BY DEF Init, AlertInv, AlertingOf, Alerting
  <2>2. QED
    BY <2>1, InitTypeInv
<1>2. Inv /\ [Next]_vars => Inv'
  BY TypeInvStep, CleanupStep, AlertStep
<1>3. Inv /\ [Next]_vars =>
         [\A o \in Owners :
             (~Alerting(call[o]) /\ Alerting(call[o]')) =>
                 LET key == <<call'[o].session, call'[o].status.state>>
                 IN  alertedAt[key] = None \/ now - alertedAt[key] >= Cooldown \/ key \in crossed']_vars
  <2> SUFFICES ASSUME Inv, [Next]_vars, NEW o \in Owners,
                      ~Alerting(call[o]), Alerting(call'[o])
               PROVE  LET key == <<call'[o].session, call'[o].status.state>>
                      IN  alertedAt[key] = None \/ now - alertedAt[key] >= Cooldown \/ key \in crossed'
    OBVIOUS
  <2>1. ~RaisesNone /\ ~Ends /\ ~Stops
    BY DEF RaisesNone, SameAlert, Ends, Stops
  <2>2. PICK w \in Owners : Raises(w) \/ Remembers(w)
    BY <2>1, AlertSteps
  <2>3. o = w /\ Raises(w)
    BY <2>2 DEF Raises, Remembers, SameAlert
  <2> DEFINE key == <<call[w].session, call[w].status.state>>
  <2>4. key = <<call'[o].session, call'[o].status.state>>
    BY <2>3 DEF Raises
  <2>5. TypeInv'
    BY TypeInvStep
  <2>6. key \in AlertKey
    BY <2>3, <2>5, RaisedKey
  <2>7. /\ lastNotifiedAt[key] = None \/ now - lastNotifiedAt[key] >= Cooldown
        /\ crossed \subseteq crossed'
        /\ key \notin crossed' => \A p \in Owners : ~AlertingOf(call[p], key)
    BY <2>3 DEF Raises, Alerts
  <2> HIDE DEF key
  <2>8. key \notin crossed' => alertedAt[key] = lastNotifiedAt[key]
    BY <2>6, <2>7 DEF AlertInv
  <2>9. QED
    BY <2>4, <2>7, <2>8
<1>4. QED
  BY <1>1, <1>2, <1>3, PTL DEF Spec, AlertSpacing

===============================================================================
