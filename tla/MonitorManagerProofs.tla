------------------------ MODULE MonitorManagerProofs ------------------------
(***************************************************************************)
(* Invariants of MonitorManager for every set of sessions and writers,     *)
(* every retention and cooldown, and every bound.                          *)
(*                                                                         *)
(* TypeOK is not inductive: running a subscriber's turn updates the call   *)
(* of its owner, so the owner must still be waiting.  QueueOK says it is:  *)
(* a live turn belongs to a call that has not run it, and to it alone.     *)
(***************************************************************************)
EXTENDS MonitorManager, SequenceTheorems, TLAPS

\* Every live turn of q is one its owner's call still waits for.
Matched(q, calls) ==
    \A i \in 1 .. Len(q) :
        /\ q[i].task = "handler" =>
              /\ calls[q[i].owner] \in Call
              /\ calls[q[i].owner].handler = "ready"
              /\ calls[q[i].owner].session = q[i].session
              /\ calls[q[i].owner].status = q[i].status
        /\ q[i].task = "broadcast" =>
              /\ calls[q[i].owner] \in Call
              /\ calls[q[i].owner].broadcast

\* No owner has two live turns of one kind.
Distinct(q) ==
    \A i, j \in 1 .. Len(q) :
        (q[i].owner = q[j].owner /\ q[i].task = q[j].task /\ q[i].task # "cancelled") => i = j

LoopOK(q, calls, orphans) ==
    /\ q \in Seq(Turn)
    /\ calls \in [Owners -> Call \cup {None}]
    /\ orphans \subseteq Snapshot
    /\ Matched(q, calls) /\ Distinct(q)

QueueOK == LoopOK(ready, call, orphanWrites)

-----------------------------------------------------------------------------
(* Lemmas about the loop's queue *)

\* Cancelling turns changes no position, only the task of the owners' turns.
LEMMA DropTurnsProperties ==
    ASSUME NEW q \in Seq(Turn), NEW owners
    PROVE  /\ DropTurns(q, owners) \in Seq(Turn)
           /\ Len(DropTurns(q, owners)) = Len(q)
           /\ \A i \in 1 .. Len(q) :
                 DropTurns(q, owners)[i] =
                    IF q[i].owner \in owners THEN [q[i] EXCEPT !.task = "cancelled"] ELSE q[i]
<1> DEFINE d == DropTurns(q, owners)
<1>1. /\ DOMAIN q = 1 .. Len(q) /\ Len(q) \in Nat
      /\ \A i \in 1 .. Len(q) : q[i] \in Turn
  BY LenProperties, ElementOfSeq
<1>2. d \in [1 .. Len(q) -> Turn]
  BY <1>1 DEF DropTurns, Turn
<1>3. d \in Seq(Turn) /\ Len(d) = Len(q)
  BY <1>1, <1>2, SeqDef
<1>4. QED
  BY <1>1, <1>3 DEF DropTurns

\* The turns of one change: the handler's, and the broadcast's while serving.
LEMMA TurnsProperties ==
    ASSUME NEW o \in Owners, NEW s \in Sessions, NEW status \in Status \cup {None}
    PROVE  /\ Turns(o, s, status) \in Seq(Turn)
           /\ \A i \in 1 .. Len(Turns(o, s, status)) :
                 /\ Turns(o, s, status)[i].owner = o
                 /\ Turns(o, s, status)[i].session = s
                 /\ Turns(o, s, status)[i].status = status
                 /\ Turns(o, s, status)[i].task \in {"handler", "broadcast"}
                 /\ Turns(o, s, status)[i].task = "broadcast" => Serving
           /\ \A i, j \in 1 .. Len(Turns(o, s, status)) :
                 Turns(o, s, status)[i].task = Turns(o, s, status)[j].task => i = j
           /\ Serving => \E i \in 1 .. Len(Turns(o, s, status)) :
                 Turns(o, s, status)[i].task = "broadcast"
<1> DEFINE h == [task |-> "handler", owner |-> o, session |-> s, status |-> status]
           b == [h EXCEPT !.task = "broadcast"]
<1>1. h \in Turn /\ b \in Turn
  BY DEF Turn
<1>2. CASE ~Serving
  <2>1. Turns(o, s, status) = <<h>>
    BY <1>2 DEF Turns
  <2>2. QED
    BY <1>1, <1>2, <2>1
<1>3. CASE Serving /\ handlerFirst
  <2>1. Turns(o, s, status) = <<h, b>>
    BY <1>3 DEF Turns
  <2>2. QED
    BY <1>1, <1>3, <2>1
<1>4. CASE Serving /\ ~handlerFirst
  <2>1. Turns(o, s, status) = <<b, h>>
    BY <1>4 DEF Turns
  <2>2. QED
    BY <1>1, <1>4, <2>1
<1>5. QED
  BY <1>2, <1>3, <1>4

\* An idle owner may post its two turns.
LEMMA NotifyKeepsLoop ==
    ASSUME QueueOK, NEW o \in Owners, NEW s \in Sessions, NEW status \in Status \cup {None},
           Idle(o), None \notin Call, Empty \in Snapshot, 0 \in Times, Notify(o, s, status)
    PROVE  QueueOK'
<1> DEFINE new == Turns(o, s, status)
           c == [session |-> s, status |-> status, handler |-> "ready",
                 broadcast |-> Serving, payload |-> Empty, since |-> 0]
<1>1. c \in Call
  BY DEF Call, Serving
<1>2. ready \in Seq(Turn) /\ call \in [Owners -> Call \cup {None}]
  BY DEF QueueOK, LoopOK
<1>3. /\ ready' = ready \o new
      /\ call' = [call EXCEPT ![o] = c]
      /\ orphanWrites' = orphanWrites
  BY DEF Notify
<1>4. /\ ready' \in Seq(Turn)
      /\ Len(ready') = Len(ready) + Len(new)
      /\ Len(ready) \in Nat /\ Len(new) \in Nat
      /\ \A i \in 1 .. Len(ready') :
            ready'[i] = IF i <= Len(ready) THEN ready[i] ELSE new[i - Len(ready)]
  BY <1>2, <1>3, TurnsProperties, ConcatProperties, LenProperties
<1>5. call' \in [Owners -> Call \cup {None}]
  BY <1>1, <1>2, <1>3
<1>6. \A i \in 1 .. Len(ready) : ready[i].task # "cancelled" => ready[i].owner # o
  <2>1. \A i \in 1 .. Len(ready) : ready[i] \in Turn
    BY <1>2, ElementOfSeq
  <2>2. \A i \in 1 .. Len(ready) : ready[i].task \in {"handler", "broadcast", "cancelled"}
    BY <2>1 DEF Turn
  <2>3. QED
    BY <2>2 DEF QueueOK, LoopOK, Matched, Idle
<1>7. Matched(ready', call')
  <2> SUFFICES ASSUME NEW i \in 1 .. Len(ready')
               PROVE  /\ ready'[i].task = "handler" =>
                            /\ call'[ready'[i].owner] \in Call
                            /\ call'[ready'[i].owner].handler = "ready"
                            /\ call'[ready'[i].owner].session = ready'[i].session
                            /\ call'[ready'[i].owner].status = ready'[i].status
                      /\ ready'[i].task = "broadcast" =>
                            /\ call'[ready'[i].owner] \in Call
                            /\ call'[ready'[i].owner].broadcast
    BY DEF Matched
  <2>1. CASE i <= Len(ready)
    <3>1. i \in 1 .. Len(ready) /\ ready'[i] = ready[i] /\ ready[i] \in Turn
      BY <1>2, <1>4, <2>1, ElementOfSeq
    <3>2. ready[i].task # "cancelled" => call'[ready[i].owner] = call[ready[i].owner]
      BY <1>2, <1>3, <1>6, <3>1 DEF Turn
    <3>3. QED
      BY <3>1, <3>2 DEF QueueOK, LoopOK, Matched
  <2>2. CASE i > Len(ready)
    <3> DEFINE k == i - Len(ready)
    <3>1. k \in 1 .. Len(new) /\ ready'[i] = new[k]
      <4>1. ready'[i] = new[k]
        BY <1>4, <2>2
      <4>2. i \in Nat /\ i <= Len(ready) + Len(new) /\ i > Len(ready)
        BY <1>4, <2>2
      <4>3. k \in 1 .. Len(new)
        BY ONLY <1>4, <4>2
      <4> QED  BY <4>1, <4>3
    <3>2. call'[o] = c
      BY <1>2, <1>3
    <3>3. /\ new[k].owner = o /\ new[k].session = s /\ new[k].status = status
          /\ new[k].task = "broadcast" => Serving
      BY <3>1, TurnsProperties
    <3>4. QED
      BY <1>1, <3>1, <3>2, <3>3
  <2>3. QED
    BY <1>4, <2>1, <2>2
<1>8. Distinct(ready')
  <2> SUFFICES ASSUME NEW i \in 1 .. Len(ready'), NEW j \in 1 .. Len(ready'),
                      ready'[i].owner = ready'[j].owner,
                      ready'[i].task = ready'[j].task, ready'[i].task # "cancelled"
               PROVE  i = j
    BY DEF Distinct
  <2>1. CASE i <= Len(ready) /\ j <= Len(ready)
    BY <1>4, <2>1 DEF QueueOK, LoopOK, Distinct
  <2>2. CASE i > Len(ready) /\ j > Len(ready)
    <3>1. i - Len(ready) \in 1 .. Len(new) /\ j - Len(ready) \in 1 .. Len(new)
      BY <1>4, <2>2
    <3>2. new[i - Len(ready)].task = new[j - Len(ready)].task
      BY <1>4, <2>2
    <3>3. i - Len(ready) = j - Len(ready)
      BY <3>1, <3>2, TurnsProperties
    <3>4. QED
      BY <1>4, <3>3
  <2>3. CASE i <= Len(ready) /\ j > Len(ready)
    <3>1. j - Len(ready) \in 1 .. Len(new) /\ ready'[j].owner = o
      BY <1>4, <2>3, TurnsProperties
    <3>2. i \in 1 .. Len(ready) /\ ready'[i] = ready[i]
      BY <1>4, <2>3
    <3>3. QED
      BY <1>6, <3>1, <3>2
  <2>4. CASE i > Len(ready) /\ j <= Len(ready)
    <3>1. i - Len(ready) \in 1 .. Len(new) /\ ready'[i].owner = o
      BY <1>4, <2>4, TurnsProperties
    <3>2. j \in 1 .. Len(ready) /\ ready'[j] = ready[j]
      BY <1>4, <2>4
    <3>3. QED
      BY <1>6, <3>1, <3>2
  <2>5. QED
    BY <1>4, <2>1, <2>2, <2>3, <2>4
<1>9. QED
  BY <1>3, <1>4, <1>5, <1>7, <1>8 DEF QueueOK, LoopOK

\* Changing one call keeps the queue matched if the new call still waits for
\* what its owner has queued.
LEMMA MatchedExcept ==
    ASSUME NEW q \in Seq(Turn), NEW calls \in [Owners -> Call \cup {None}], Matched(q, calls),
           NEW o \in Owners, NEW c,
           \A i \in 1 .. Len(q) : q[i].owner = o =>
              /\ q[i].task = "handler" =>
                    /\ c \in Call /\ c.handler = "ready"
                    /\ c.session = q[i].session /\ c.status = q[i].status
              /\ q[i].task = "broadcast" => c \in Call /\ c.broadcast
    PROVE  Matched(q, [calls EXCEPT ![o] = c])
<1>1. \A i \in 1 .. Len(q) : q[i] \in Turn
  BY ElementOfSeq
<1>2. \A i \in 1 .. Len(q) : q[i].owner \in Owners
  BY <1>1 DEF Turn
<1>3. QED
  BY <1>2 DEF Matched

\* Cancelling any owners.
LEMMA CancelKeepsLoop ==
    ASSUME QueueOK, NEW q \in Seq(Turn), NEW calls \in [Owners -> Call \cup {None}],
           Matched(q, calls), Distinct(q), NEW owners \in SUBSET Owners,
           CancelCalls(owners, calls, q)
    PROVE  QueueOK'
<1>1. /\ ready' = DropTurns(q, owners)
      /\ call' = [o \in Owners |-> IF o \in owners THEN None ELSE calls[o]]
  BY DEF CancelCalls
<1>2. /\ ready' \in Seq(Turn) /\ Len(ready') = Len(q)
      /\ \A i \in 1 .. Len(q) :
            ready'[i] = IF q[i].owner \in owners THEN [q[i] EXCEPT !.task = "cancelled"] ELSE q[i]
  BY <1>1, DropTurnsProperties
<1>3. \A i \in 1 .. Len(q) : q[i] \in Turn
  BY ElementOfSeq
<1>4. \A i \in 1 .. Len(q) :
         /\ ready'[i].owner = q[i].owner /\ ready'[i].owner \in Owners
         /\ ready'[i].task # "cancelled" => q[i].owner \notin owners /\ ready'[i] = q[i]
  BY <1>2, <1>3 DEF Turn
<1>5. call' \in [Owners -> Call \cup {None}]
  BY <1>1
<1>6. Matched(ready', call')
  BY <1>1, <1>2, <1>4 DEF Matched
<1>7. Distinct(ready')
  BY <1>2, <1>4 DEF Distinct
<1>8. orphanWrites' \subseteq Snapshot
  <2>1. orphanWrites \subseteq Snapshot
    BY DEF QueueOK, LoopOK
  <2>2. PICK running \in SUBSET {calls[o].payload : o \in {p \in owners :
                                    calls[p] # None /\ calls[p].handler = "writing"}} :
           orphanWrites' = orphanWrites \cup running
    BY DEF CancelCalls
  <2>3. \A o \in owners : calls[o] # None => calls[o].payload \in Snapshot
    BY DEF Call
  <2>4. QED
    BY <2>1, <2>2, <2>3
<1>9. QED
  BY <1>2, <1>5, <1>6, <1>7, <1>8 DEF QueueOK, LoopOK

\* What is left when the loop takes the front turn.
LEMMA PopProperties ==
    ASSUME QueueOK, Turned
    PROVE  /\ Front \in Turn
           /\ Tail(ready) \in Seq(Turn)
           /\ Matched(Tail(ready), call) /\ Distinct(Tail(ready))
           /\ Front.task # "cancelled" =>
                 /\ call[Front.owner] \in Call
                 /\ \A i \in 1 .. Len(Tail(ready)) :
                       Tail(ready)[i].owner = Front.owner => Tail(ready)[i].task # Front.task
           /\ Front.task = "handler" =>
                 /\ call[Front.owner].handler = "ready"
                 /\ call[Front.owner].session = Front.session
                 /\ call[Front.owner].status = Front.status
           /\ Front.task = "broadcast" => call[Front.owner].broadcast
<1>1. /\ Front \in Turn
      /\ Tail(ready) \in Seq(Turn)
      /\ Len(Tail(ready)) = Len(ready) - 1 /\ Len(ready) \in Nat \ {0}
      /\ \A i \in 1 .. Len(Tail(ready)) : Tail(ready)[i] = ready[i + 1]
  BY HeadTailProperties, EmptySeq DEF QueueOK, LoopOK, Turned, Front
<1>2. Front = ready[1]
  BY <1>1 DEF Front, QueueOK, LoopOK
<1>3. \A i \in 1 .. Len(Tail(ready)) : i + 1 \in 1 .. Len(ready) /\ i + 1 # 1
  BY <1>1
<1>4. Matched(Tail(ready), call)
  BY <1>1, <1>3 DEF QueueOK, LoopOK, Matched
<1>5. Distinct(Tail(ready))
  <2> SUFFICES ASSUME NEW i \in 1 .. Len(Tail(ready)), NEW j \in 1 .. Len(Tail(ready)),
                      Tail(ready)[i].owner = Tail(ready)[j].owner,
                      Tail(ready)[i].task = Tail(ready)[j].task,
                      Tail(ready)[i].task # "cancelled"
               PROVE  i = j
    BY DEF Distinct
  <2>1. i + 1 = j + 1
    BY <1>1, <1>3 DEF QueueOK, LoopOK, Distinct
  <2>2. QED
    BY <1>1, <2>1
<1>6. 1 \in 1 .. Len(ready)
  BY <1>1
<1>7. Front.task \in {"handler", "broadcast", "cancelled"}
  BY <1>1 DEF Turn
<1>8. /\ Front.task # "cancelled" => call[Front.owner] \in Call
      /\ Front.task = "handler" =>
            /\ call[Front.owner].handler = "ready"
            /\ call[Front.owner].session = Front.session
            /\ call[Front.owner].status = Front.status
      /\ Front.task = "broadcast" => call[Front.owner].broadcast
  BY <1>2, <1>6, <1>7 DEF QueueOK, LoopOK, Matched
<1>9. ASSUME Front.task # "cancelled", NEW i \in 1 .. Len(Tail(ready)),
             Tail(ready)[i].owner = Front.owner
      PROVE  Tail(ready)[i].task # Front.task
  BY <1>1, <1>2, <1>3, <1>6, <1>9 DEF QueueOK, LoopOK, Distinct
<1>10. QED
  BY <1>1, <1>4, <1>5, <1>8, <1>9

-----------------------------------------------------------------------------
(* Type correctness *)

\* The part of TypeOK that is not the loop's.
StateOK ==
    /\ registry \in Snapshot /\ disk \in Snapshot /\ view \in Snapshot /\ image \in Snapshot
    /\ now \in Times
    /\ cleanup \in [Sessions -> CleanupTask]
    /\ lastSeen \in [Sessions -> AttentionState \cup {None}]
    /\ lastNotifiedAt \in [AlertKey -> Times \cup {None}]
    /\ alertedAt \in [AlertKey -> Times \cup {None}]
    /\ completedNotified \subseteq Sessions /\ owed \subseteq Sessions
    /\ mode \in {"down", "restoring", "pruning", "up", "stopping", "saving", "closing"}
    /\ skipped \in BOOLEAN /\ handlerFirst \in BOOLEAN
    /\ reports \in 0 .. MaxReports /\ crashes \in 0 .. MaxCrashes /\ stops \in 0 .. MaxStops

\* With CleanupOK and NewsOK, below, the inductive invariant behind TypeOK.
TypeInv == StateOK /\ QueueOK

LEMMA TypeInvParts == TypeInv <=> StateOK /\ QueueOK
  BY DEF TypeInv

LEMMA TypeInvPartsNext == TypeInv' <=> StateOK' /\ QueueOK'
  BY DEF TypeInv

LEMMA ConstantFacts ==
    /\ None \notin Call /\ Empty \in Snapshot /\ 0 \in Times
    /\ NoTask \in CleanupTask
    /\ Sessions \subseteq Owners /\ Writers \subseteq Owners /\ Boot \in Owners
  BY NoneAssumption, TimeAssumption DEF Empty, Snapshot, Times, NoTask, CleanupTask, Owners

\* Posting a change of a session keeps the loop and types the registry.
LEMMA TypeUpsert ==
    ASSUME TypeInv, NEW w \in Writers, NEW s \in Sessions, Upsert(w, s)
    PROVE  TypeInv'
<1>1. PICK state \in ReportedStates, live \in BOOLEAN :
         LET status == [state |-> state, live |-> live, at |-> now]
         IN  /\ registry' = [registry EXCEPT ![s] = status]
             /\ Notify(w, s, status)
  BY DEF Upsert, Register
<1> DEFINE status == [state |-> state, live |-> live, at |-> now]
<1>2. StateOK /\ QueueOK
  BY TypeInvParts
<1>3. status \in Status
  BY <1>2, StatesAssumption DEF Status, StateOK
<1>4. QueueOK'
  BY <1>1, <1>2, <1>3, ConstantFacts, NotifyKeepsLoop DEF Upsert, Register, MayReport
<1>5. registry' \in Snapshot
  BY <1>1, <1>2, <1>3 DEF StateOK, Snapshot
<1>6. reports' \in 0 .. MaxReports
  BY <1>2, TimeAssumption DEF Upsert, Register, MayReport, StateOK
<1>7. StateOK'
  BY <1>2, <1>5, <1>6 DEF Upsert, Register, StateOK, file, memory, life
<1>8. QED
  BY <1>4, <1>7, TypeInvPartsNext

LEMMA TypeMarkRead ==
    ASSUME TypeInv, NEW w \in Writers, NEW s \in Sessions, MarkRead(w, s)
    PROVE  TypeInv'
<1>1. StateOK /\ QueueOK
  BY TypeInvParts
<1>2. registry[s] \in Status \cup {None}
  BY <1>1 DEF StateOK, Snapshot
<1>3. QueueOK'
  BY <1>1, <1>2, ConstantFacts, NotifyKeepsLoop DEF MarkRead, MayReport
<1>4. reports' \in 0 .. MaxReports
  BY <1>1, TimeAssumption DEF MarkRead, MayReport, StateOK
<1>5. StateOK'
  BY <1>1, <1>4 DEF MarkRead, StateOK, file, memory, life
<1>6. QED
  BY <1>3, <1>5, TypeInvPartsNext

LEMMA TypeRemove ==
    ASSUME TypeInv, NEW w \in Writers, NEW s \in Sessions, Remove(w, s)
    PROVE  TypeInv'
<1>1. StateOK /\ QueueOK
  BY TypeInvParts
<1>2. QueueOK'
  BY <1>1, ConstantFacts, NotifyKeepsLoop DEF Remove, Register, MayReport
<1>3. registry' \in Snapshot /\ owed' \subseteq Sessions
  BY <1>1 DEF Remove, Register, StateOK, Snapshot
<1>4. reports' \in 0 .. MaxReports
  BY <1>1, TimeAssumption DEF Remove, Register, MayReport, StateOK
<1>5. StateOK'
  BY <1>1, <1>3, <1>4 DEF Remove, Register, StateOK, memory, life
<1>6. QED
  BY <1>2, <1>5, TypeInvPartsNext

\* A call update that is still a call, or over.
LEMMA SettleType ==
    ASSUME NEW c \in Call PROVE Settle(c) \in Call \cup {None}
  BY DEF Settle

LEMMA TypeBroadcast == ASSUME TypeInv, Broadcast PROVE TypeInv'
<1> DEFINE o == Front.owner
           d == [call[o] EXCEPT !.broadcast = FALSE]
<1>1. StateOK /\ QueueOK
  BY TypeInvParts
<1>2. /\ Front \in Turn /\ call[o] \in Call
      /\ Tail(ready) \in Seq(Turn) /\ Matched(Tail(ready), call) /\ Distinct(Tail(ready))
      /\ \A i \in 1 .. Len(Tail(ready)) :
            Tail(ready)[i].owner = o => Tail(ready)[i].task # "broadcast"
  BY <1>1, PopProperties DEF Broadcast
<1>3. o \in Owners /\ Front.session \in Sessions /\ Front.status \in Status \cup {None}
  BY <1>2 DEF Turn
<1>4. d \in Call /\ d.handler = call[o].handler
      /\ d.session = call[o].session /\ d.status = call[o].status
  BY <1>2 DEF Call
<1>5. call' = [call EXCEPT ![o] = Settle(d)]
  BY DEF Broadcast
<1>6. Settle(d) \in Call \cup {None}
  BY <1>4, SettleType
<1>7. call \in [Owners -> Call \cup {None}] /\ orphanWrites \subseteq Snapshot
  BY <1>1 DEF QueueOK, LoopOK
<1>8. \A i \in 1 .. Len(Tail(ready)) :
         Tail(ready)[i].owner = o /\ Tail(ready)[i].task = "handler" =>
            /\ Settle(d) = d /\ d.handler = "ready"
            /\ d.session = Tail(ready)[i].session /\ d.status = Tail(ready)[i].status
  BY <1>2, <1>4 DEF Matched, Settle
<1>9. Matched(Tail(ready), call')
  BY <1>2, <1>3, <1>4, <1>5, <1>7, <1>8, MatchedExcept
<1>10. QueueOK'
  BY <1>2, <1>3, <1>5, <1>6, <1>7, <1>9 DEF QueueOK, LoopOK, Broadcast
<1>11. view' \in Snapshot
  BY <1>1, <1>3 DEF Broadcast, StateOK, Snapshot
<1>12. StateOK'
  BY <1>1, <1>11 DEF Broadcast, StateOK, file, memory, life
<1>13. QED
  BY <1>10, <1>12, TypeInvPartsNext

LEMMA TypeSkipCancelled == ASSUME TypeInv, SkipCancelled PROVE TypeInv'
<1>1. StateOK /\ QueueOK
  BY TypeInvParts
<1>2. QueueOK'
  BY <1>1, PopProperties DEF SkipCancelled, QueueOK, LoopOK
<1>3. StateOK'
  BY <1>1 DEF SkipCancelled, StateOK, file, memory, life
<1>4. QED
  BY <1>2, <1>3, TypeInvPartsNext

LEMMA TypeHandleUpdated == ASSUME TypeInv, HandleUpdated PROVE TypeInv'
<1> DEFINE o == Front.owner
           d == [call[o] EXCEPT !.handler = "writing", !.payload = registry]
<1>1. StateOK /\ QueueOK
  BY TypeInvParts
<1>2. /\ Front \in Turn /\ call[o] \in Call
      /\ Tail(ready) \in Seq(Turn) /\ Matched(Tail(ready), call) /\ Distinct(Tail(ready))
      /\ \A i \in 1 .. Len(Tail(ready)) :
            Tail(ready)[i].owner = o => Tail(ready)[i].task # "handler"
  BY <1>1, PopProperties DEF HandleUpdated
<1>3. o \in Owners /\ call \in [Owners -> Call \cup {None}] /\ orphanWrites \subseteq Snapshot
  BY <1>1, <1>2 DEF Turn, QueueOK, LoopOK
<1>4. d \in Call /\ d.broadcast = call[o].broadcast
  BY <1>1, <1>2 DEF Call, StateOK
<1>5. call' = [call EXCEPT ![o] = d]
  BY <1>3 DEF HandleUpdated
<1>6. Matched(Tail(ready), call')
  <2>1. \A i \in 1 .. Len(Tail(ready)) :
           Tail(ready)[i].owner = o /\ Tail(ready)[i].task = "broadcast" => d.broadcast
    BY <1>2, <1>4 DEF Matched
  <2>2. QED
    BY <1>2, <1>3, <1>4, <1>5, <2>1, MatchedExcept
<1>7. QueueOK'
  BY <1>2, <1>3, <1>4, <1>5, <1>6 DEF QueueOK, LoopOK, HandleUpdated
<1>8. StateOK'
  BY <1>1 DEF HandleUpdated, StateOK, file, memory, life
<1>9. QED
  BY <1>7, <1>8, TypeInvPartsNext

\* Changing a call that no longer waits for its handler's turn: the queue stays
\* matched if the call still waits for a broadcast it was waiting for.
LEMMA AfterHandler ==
    ASSUME QueueOK, NEW o \in Owners, ~Idle(o), call[o].handler # "ready",
           NEW c \in Call \cup {None}, call[o].broadcast => c \in Call /\ c.broadcast
    PROVE  /\ Matched(ready, [call EXCEPT ![o] = c])
           /\ [call EXCEPT ![o] = c] \in [Owners -> Call \cup {None}]
<1>1. ready \in Seq(Turn) /\ call \in [Owners -> Call \cup {None}] /\ Matched(ready, call)
  BY DEF QueueOK, LoopOK
<1>2. \A i \in 1 .. Len(ready) : ready[i].owner = o =>
         /\ ready[i].task # "handler"
         /\ ready[i].task = "broadcast" => call[o].broadcast
  BY <1>1 DEF Matched
<1>3. QED
  BY <1>1, <1>2, MatchedExcept

LEMMA CleanupOwnerType ==
    ASSUME NEW s \in Sessions PROVE CleanupOwner(s) \in SUBSET Owners
  BY ConstantFacts DEF CleanupOwner

LEMMA TypeHandleRemoved == ASSUME TypeInv, HandleRemoved PROVE TypeInv'
<1> DEFINE o == Front.owner
           s == Front.session
           d == [call[o] EXCEPT !.handler = "writing", !.payload = registry]
           calls == [call EXCEPT ![o].handler = "writing", ![o].payload = registry]
<1>1. StateOK /\ QueueOK
  BY TypeInvParts
<1>2. /\ Front \in Turn /\ call[o] \in Call
      /\ Tail(ready) \in Seq(Turn) /\ Matched(Tail(ready), call) /\ Distinct(Tail(ready))
      /\ \A i \in 1 .. Len(Tail(ready)) :
            Tail(ready)[i].owner = o => Tail(ready)[i].task # "handler"
  BY <1>1, PopProperties DEF HandleRemoved
<1>3. /\ o \in Owners /\ s \in Sessions
      /\ call \in [Owners -> Call \cup {None}] /\ orphanWrites \subseteq Snapshot
  BY <1>1, <1>2 DEF Turn, QueueOK, LoopOK
<1>4. d \in Call /\ d.broadcast = call[o].broadcast
  BY <1>1, <1>2 DEF Call, StateOK
<1>5. QueueOK'
  <2>1. calls = [call EXCEPT ![o] = d]
    BY <1>3
  <2>2. CancelCalls(CleanupOwner(s), calls, Tail(ready))
    BY DEF HandleRemoved
  <2>3. calls \in [Owners -> Call \cup {None}]
    BY <1>3, <1>4, <2>1
  <2>4. Matched(Tail(ready), calls)
    <3>1. \A i \in 1 .. Len(Tail(ready)) :
             Tail(ready)[i].owner = o /\ Tail(ready)[i].task = "broadcast" => d.broadcast
      BY <1>2, <1>4 DEF Matched
    <3>2. QED
      BY <1>2, <1>3, <1>4, <2>1, <3>1, MatchedExcept
  <2>5. QED
    BY <1>1, <1>2, <1>3, <2>2, <2>3, <2>4, CleanupOwnerType, CancelKeepsLoop
<1>6. /\ cleanup' \in [Sessions -> CleanupTask]
      /\ lastSeen' \in [Sessions -> AttentionState \cup {None}]
      /\ completedNotified' \subseteq Sessions
  BY <1>1, ConstantFacts DEF HandleRemoved, Forget, StateOK
<1>7. StateOK'
  BY <1>1, <1>6 DEF HandleRemoved, StateOK, file, life
<1>8. QED
  BY <1>5, <1>7, TypeInvPartsNext

\* A snapshot in the file is a snapshot, and what is owed are sessions.
LEMMA ReplaceType ==
    ASSUME StateOK, NEW snapshot \in Snapshot, Replace(snapshot)
    PROVE  disk' \in Snapshot /\ owed' \subseteq Sessions
  BY DEF StateOK, Replace

LEMMA TypeWriteSnapshot ==
    ASSUME TypeInv, NEW o \in Owners, WriteSnapshot(o) PROVE TypeInv'
<1> DEFINE d == [call[o] EXCEPT !.handler = "written", !.payload = Empty]
<1>1. StateOK /\ QueueOK
  BY TypeInvParts
<1>2. call \in [Owners -> Call \cup {None}] /\ call[o] \in Call
  BY <1>1 DEF QueueOK, LoopOK, WriteSnapshot, Idle
<1>3. d \in Call /\ d.broadcast = call[o].broadcast /\ call[o].payload \in Snapshot
  BY <1>2, ConstantFacts DEF Call
<1>4. call' = [call EXCEPT ![o] = d]
  BY <1>2 DEF WriteSnapshot
<1>5. ~Idle(o) /\ call[o].handler = "writing" /\ UNCHANGED <<ready, orphanWrites>>
  BY DEF WriteSnapshot
<1>6. Matched(ready, call') /\ call' \in [Owners -> Call \cup {None}]
  BY <1>1, <1>3, <1>4, <1>5, AfterHandler
<1>7. QueueOK'
  BY <1>1, <1>5, <1>6 DEF QueueOK, LoopOK
<1>8. disk' \in Snapshot /\ owed' \subseteq Sessions
  BY <1>1, <1>3, ReplaceType DEF WriteSnapshot
<1>9. StateOK'
  BY <1>1, <1>8 DEF WriteSnapshot, StateOK, memory, life
<1>10. QED
  BY <1>7, <1>9, TypeInvPartsNext

LEMMA TypeWriteOrphan == ASSUME TypeInv, WriteOrphan PROVE TypeInv'
<1>1. StateOK /\ QueueOK
  BY TypeInvParts
<1>2. PICK snapshot \in orphanWrites :
         Replace(snapshot) /\ orphanWrites' = orphanWrites \ {snapshot}
  BY DEF WriteOrphan
<1>3. snapshot \in Snapshot /\ orphanWrites' \subseteq Snapshot
  BY <1>1, <1>2 DEF QueueOK, LoopOK
<1>4. QueueOK'
  BY <1>1, <1>3 DEF WriteOrphan, QueueOK, LoopOK
<1>5. disk' \in Snapshot /\ owed' \subseteq Sessions
  BY <1>1, <1>2, <1>3, ReplaceType
<1>6. StateOK'
  BY <1>1, <1>5 DEF WriteOrphan, StateOK, memory, life
<1>7. QED
  BY <1>4, <1>6, TypeInvPartsNext

\* The handler of a call is done.
LEMMA HandlerDone ==
    ASSUME QueueOK, NEW o \in Owners, ~Idle(o), call[o].handler # "ready"
    PROVE  LET c == Settle([call[o] EXCEPT !.handler = "done"])
           IN  /\ Matched(ready, [call EXCEPT ![o] = c])
               /\ [call EXCEPT ![o] = c] \in [Owners -> Call \cup {None}]
<1> DEFINE d == [call[o] EXCEPT !.handler = "done"]
<1>1. call \in [Owners -> Call \cup {None}] /\ call[o] \in Call
  BY DEF QueueOK, LoopOK, Idle
<1>2. d \in Call /\ d.broadcast = call[o].broadcast /\ d.handler = "done"
  BY <1>1 DEF Call
<1>3. Settle(d) \in Call \cup {None} /\ (call[o].broadcast => Settle(d) = d)
  BY <1>2, SettleType DEF Settle
<1>4. QED
  BY <1>2, <1>3, AfterHandler

LEMMA TypeFinishRemoved ==
    ASSUME TypeInv, NEW o \in Owners, FinishRemoved(o) PROVE TypeInv'
<1>1. StateOK /\ QueueOK
  BY TypeInvParts
<1>2. QueueOK'
  BY <1>1, HandlerDone DEF FinishRemoved, QueueOK, LoopOK
<1>3. StateOK'
  BY <1>1 DEF FinishRemoved, StateOK, file, memory, life
<1>4. QED
  BY <1>2, <1>3, TypeInvPartsNext

LEMMA TypeNotified ==
    ASSUME TypeInv, NEW o \in Owners, Notified(o) PROVE TypeInv'
<1>1. StateOK /\ QueueOK
  BY TypeInvParts
<1>2. QueueOK'
  BY <1>1, HandlerDone DEF Notified, QueueOK, LoopOK
<1>3. call[o] \in Call
  BY <1>1 DEF QueueOK, LoopOK, Notified, Idle
<1>4. lastNotifiedAt' \in [AlertKey -> Times \cup {None}] /\ completedNotified' \subseteq Sessions
  BY <1>1, <1>3 DEF Notified, StateOK, Call
<1>5. StateOK'
  BY <1>1, <1>4 DEF Notified, StateOK, file, life
<1>6. QED
  BY <1>2, <1>5, TypeInvPartsNext

LEMMA TypeReactToUpdated ==
    ASSUME TypeInv, NEW o \in Owners, ReactToUpdated(o) PROVE TypeInv'
<1> DEFINE s == call[o].session
           status == call[o].status
           alert == Alerts(s, status)
           raised == [call[o] EXCEPT !.handler = "notifying", !.since = now]
           next == IF alert THEN raised ELSE Settle([call[o] EXCEPT !.handler = "done"])
           calls == [call EXCEPT ![o] = next]
<1>1. StateOK /\ QueueOK
  BY TypeInvParts
<1>2. /\ ~Idle(o) /\ call[o].handler = "written" /\ status # None
      /\ UpdateCompletedCleanup(s, status, calls)
      /\ lastSeen' = [lastSeen EXCEPT ![s] = status.state]
      /\ alertedAt' = IF alert THEN [alertedAt EXCEPT ![<<s, status.state>>] = now] ELSE alertedAt
  BY DEF ReactToUpdated
<1>3. /\ ready \in Seq(Turn) /\ Distinct(ready) /\ orphanWrites \subseteq Snapshot
      /\ call[o] \in Call /\ s \in Sessions /\ status \in Status
  BY <1>1, <1>2 DEF QueueOK, LoopOK, Idle, Call
<1>4. status.state \in AttentionState /\ status.at \in Times
  BY <1>3 DEF Status
<1>5. Matched(ready, calls) /\ calls \in [Owners -> Call \cup {None}]
  <2>1. CASE alert
    <3>1. raised \in Call /\ raised.broadcast = call[o].broadcast
      BY <1>1, <1>3 DEF Call, StateOK
    <3>2. QED
      BY <1>1, <1>2, <2>1, <3>1, AfterHandler
  <2>2. CASE ~alert
    BY <1>1, <1>2, <2>2, HandlerDone
  <2>3. QED
    BY <2>1, <2>2
<1>6. QueueOK' /\ cleanup' \in [Sessions -> CleanupTask]
  <2>1. CASE Retention # None /\ InactiveCompleted(status)
    <3>1. call' = calls /\ UNCHANGED <<ready, orphanWrites>>
      BY <1>2, <2>1 DEF UpdateCompletedCleanup
    <3>2. cleanup' = [cleanup EXCEPT ![s] =
                         IF cleanup[s].phase = "none"
                         THEN [phase |-> "sleeping", completedAt |-> status.at] ELSE cleanup[s]]
      BY <1>1, <1>2, <1>3, <2>1 DEF UpdateCompletedCleanup, StateOK
    <3>3. QueueOK'
      BY <1>3, <1>5, <3>1 DEF QueueOK, LoopOK
    <3>4. [phase |-> "sleeping", completedAt |-> status.at] \in CleanupTask
      BY <1>4 DEF CleanupTask
    <3>5. QED
      BY <1>1, <1>3, <3>2, <3>3, <3>4 DEF StateOK
  <2>2. CASE ~(Retention # None /\ InactiveCompleted(status))
    <3>1. CancelCalls(CleanupOwner(s), calls, ready) /\ cleanup' = [cleanup EXCEPT ![s] = NoTask]
      BY <1>2, <2>2 DEF UpdateCompletedCleanup
    <3>2. QueueOK'
      BY <1>1, <1>3, <1>5, <3>1, CleanupOwnerType, CancelKeepsLoop
    <3>3. QED
      BY <1>1, <3>1, <3>2, ConstantFacts DEF StateOK
  <2>3. QED
    BY <2>1, <2>2
<1>7. /\ lastSeen' \in [Sessions -> AttentionState \cup {None}]
      /\ alertedAt' \in [AlertKey -> Times \cup {None}]
  BY <1>1, <1>2, <1>3, <1>4 DEF StateOK
<1>8. StateOK'
  BY <1>1, <1>6, <1>7 DEF ReactToUpdated, StateOK, file, life
<1>9. QED
  BY <1>6, <1>8, TypeInvPartsNext

\* A session with a call of its own in flight is one whose cleanup removes it.
LEMMA TypeRemoveCompleted ==
    ASSUME TypeInv, NEW s \in Sessions, Idle(s), RemoveCompleted(s) PROVE TypeInv'
<1>1. StateOK /\ QueueOK
  BY TypeInvParts
<1>2. QueueOK'
  <2>1. CASE Notify(s, s, None)
    BY <1>1, <2>1, ConstantFacts, NotifyKeepsLoop
  <2>2. CASE UNCHANGED loop
    BY <1>1, <2>2 DEF loop, QueueOK, LoopOK
  <2>3. QED
    BY <2>1, <2>2 DEF RemoveCompleted, Register
<1>3. registry' \in Snapshot /\ owed' \subseteq Sessions /\ cleanup' \in [Sessions -> CleanupTask]
  <2>1. registry' \in Snapshot /\ owed' \subseteq Sessions
    BY <1>1 DEF RemoveCompleted, Register, StateOK, Snapshot
  <2>2. cleanup' \in [Sessions -> CleanupTask]
    BY <1>1, ConstantFacts DEF RemoveCompleted, Register, StateOK, CleanupTask
  <2>3. QED
    BY <2>1, <2>2
<1>4. StateOK'
  BY <1>1, <1>3 DEF RemoveCompleted, Register, StateOK, memory, life
<1>5. QED
  BY <1>2, <1>4, TypeInvPartsNext

LEMMA TypeTick == ASSUME TypeInv, Tick PROVE TypeInv'
<1>1. StateOK /\ QueueOK
  BY TypeInvParts
<1>2. QueueOK'
  BY <1>1 DEF Tick, loop, QueueOK, LoopOK
<1>3. now' \in Times
  BY <1>1, TimeAssumption DEF Tick, StateOK, Times
<1>4. StateOK'
  BY <1>1, <1>3 DEF Tick, StateOK, file, memory, life
<1>5. QED
  BY <1>2, <1>4, TypeInvPartsNext

\* The loop of a process that has just started, or is gone.
LEMMA EmptyLoop == LoopOK(<<>>, [o \in Owners |-> None], {})
<1> DEFINE c == [o \in Owners |-> None]
<1>1. <<>> \in Seq(Turn) /\ Len(<<>>) = 0
  BY EmptySeq
<1>2. c \in [Owners -> Call \cup {None}]
  OBVIOUS
<1>3. Matched(<<>>, c) /\ Distinct(<<>>)
  BY <1>1 DEF Matched, Distinct
<1>4. QED
  BY <1>1, <1>2, <1>3 DEF LoopOK

LEMMA TypeHalt ==
    ASSUME TypeInv, Halt,
           crashes' \in 0 .. MaxCrashes, stops' \in 0 .. MaxStops
    PROVE  TypeInv'
<1>1. StateOK
  BY TypeInvParts
<1>2. QueueOK'
  <2>1. ready' = <<>> /\ call' = [o \in Owners |-> None] /\ orphanWrites' = {}
    BY DEF Halt
  <2>2. LoopOK(ready', call', orphanWrites')
    BY <2>1, EmptyLoop
  <2>3. QED
    BY <2>2 DEF QueueOK, LoopOK, Matched, Distinct
<1>3. StateOK'
  BY <1>1, ConstantFacts DEF Halt, StateOK, file
<1>4. QED
  BY <1>2, <1>3, TypeInvPartsNext

LEMMA TypeCrash == ASSUME TypeInv, Crash PROVE TypeInv'
<1>1. crashes' \in 0 .. MaxCrashes /\ stops' \in 0 .. MaxStops
  BY TypeInvParts, TimeAssumption DEF StateOK, Crash
<1>2. QED
  BY <1>1, TypeHalt DEF Crash

LEMMA TypeExit == ASSUME TypeInv, Exit PROVE TypeInv'
<1>1. crashes' \in 0 .. MaxCrashes /\ stops' \in 0 .. MaxStops
  BY TypeInvParts DEF StateOK, Exit
<1>2. QED
  BY <1>1, TypeHalt DEF Exit

LEMMA TypeStart == ASSUME TypeInv, Start PROVE TypeInv'
<1>1. StateOK /\ QueueOK
  BY TypeInvParts
<1>2. QueueOK'
  BY <1>1 DEF Start, loop, QueueOK, LoopOK
<1>3. image' \in Snapshot
  BY <1>1 DEF Start, Restored, StateOK, Snapshot, Status
<1>4. StateOK'
  BY <1>1, <1>3 DEF Start, StateOK, file, memory
<1>5. QED
  BY <1>2, <1>4, TypeInvPartsNext

LEMMA TypeRestoreOne == ASSUME TypeInv, NEW s \in Sessions, RestoreOne(s) PROVE TypeInv'
<1>1. StateOK /\ QueueOK
  BY TypeInvParts
<1>2. image[s] \in Status
  BY <1>1 DEF RestoreOne, Register, StateOK, Snapshot
<1>3. QueueOK'
  <2>1. CASE Notify(Boot, s, image[s])
    BY <1>1, <1>2, <2>1, ConstantFacts, NotifyKeepsLoop DEF RestoreOne, Register
  <2>2. CASE UNCHANGED loop
    BY <1>1, <2>2 DEF loop, QueueOK, LoopOK
  <2>3. QED
    BY <2>1, <2>2 DEF RestoreOne, Register
<1>4. registry' \in Snapshot /\ image' \in Snapshot
  BY <1>1, <1>2 DEF RestoreOne, Register, StateOK, Snapshot
<1>5. owed' \subseteq Sessions /\ skipped' \in BOOLEAN
  BY <1>1 DEF RestoreOne, Register, RetentionExpired, StateOK
<1>6. StateOK'
  BY <1>1, <1>4, <1>5 DEF RestoreOne, Register, StateOK, memory
<1>7. QED
  BY <1>3, <1>6, TypeInvPartsNext

\* The steps of start-up and shutdown that only change the phase of the process.
LEMMA TypePhases ==
    ASSUME TypeInv, PruneSnapshot \/ StartServing \/ PruneDone \/ SaveLast \/ SavedLast
    PROVE  TypeInv'
<1>1. StateOK /\ QueueOK
  BY TypeInvParts
<1>2. QueueOK'
  BY <1>1 DEF PruneSnapshot, StartServing, PruneDone, SaveLast, SavedLast, loop, QueueOK, LoopOK
<1>3. image \in Snapshot /\ Empty \in Snapshot
  BY <1>1, ConstantFacts DEF StateOK
<1>4. CASE PruneSnapshot
  BY <1>1, <1>2, <1>4, TypeInvPartsNext DEF PruneSnapshot, StateOK, file, memory
<1>5. CASE StartServing
  BY <1>1, <1>2, <1>3, <1>5, TypeInvPartsNext DEF StartServing, Serve, StateOK, file, memory
<1>6. CASE PruneDone
  <2>1. disk' \in Snapshot /\ owed' \subseteq Sessions
    BY <1>1, <1>3, <1>6, ReplaceType DEF PruneDone
  <2>2. QED
    BY <1>1, <1>2, <1>3, <1>6, <2>1, TypeInvPartsNext DEF PruneDone, Serve, StateOK, memory
<1>7. CASE SaveLast
  BY <1>1, <1>2, <1>7, TypeInvPartsNext DEF SaveLast, StateOK, file, memory
<1>8. CASE SavedLast
  <2>1. disk' \in Snapshot /\ owed' \subseteq Sessions
    BY <1>1, <1>3, <1>8, ReplaceType DEF SavedLast
  <2>2. QED
    BY <1>1, <1>2, <1>3, <1>8, <2>1, TypeInvPartsNext DEF SavedLast, StateOK, memory
<1>9. QED
  BY <1>4, <1>5, <1>6, <1>7, <1>8

LEMMA TypeBeginStop == ASSUME TypeInv, BeginStop PROVE TypeInv'
<1>1. StateOK /\ QueueOK
  BY TypeInvParts
<1>2. PICK stopped \in SUBSET Writers : CancelCalls(stopped \cup Sessions, call, ready)
  BY DEF BeginStop
<1>3. stopped \cup Sessions \in SUBSET Owners
  BY ConstantFacts
<1>4. QueueOK'
  BY <1>1, <1>2, <1>3, CancelKeepsLoop DEF QueueOK, LoopOK
<1>5. stops' \in 0 .. MaxStops
  BY <1>1, TimeAssumption DEF BeginStop, StateOK
<1>6. StateOK'
  BY <1>1, <1>5, ConstantFacts DEF BeginStop, StateOK, file, memory
<1>7. QED
  BY <1>4, <1>6, TypeInvPartsNext

\* Only a removing cleanup task has a call of its own: the removal.
CleanupOK ==
    \A s \in Sessions : ~Idle(s) =>
        /\ cleanup[s].phase = "removing"
        /\ call[s].session = s /\ call[s].status = None

LEMMA InitTypeInv == Init => TypeInv /\ CleanupOK
<1> SUFFICES ASSUME Init PROVE TypeInv /\ CleanupOK
  OBVIOUS
<1>1. QueueOK
  <2>1. ready = <<>> /\ call = [o \in Owners |-> None] /\ orphanWrites = {}
    BY DEF Init
  <2>2. QED
    BY <2>1, EmptyLoop DEF QueueOK
<1>2. StateOK
  <2>1. /\ registry \in Snapshot /\ disk \in Snapshot /\ view \in Snapshot /\ image \in Snapshot
        /\ now \in Times /\ cleanup \in [Sessions -> CleanupTask]
    BY ConstantFacts DEF Init
  <2>2. /\ lastSeen \in [Sessions -> AttentionState \cup {None}]
        /\ lastNotifiedAt \in [AlertKey -> Times \cup {None}]
        /\ alertedAt \in [AlertKey -> Times \cup {None}]
    BY DEF Init
  <2>3. /\ completedNotified \subseteq Sessions /\ owed \subseteq Sessions
        /\ mode = "down" /\ skipped \in BOOLEAN /\ handlerFirst \in BOOLEAN
        /\ reports = 0 /\ crashes = 0 /\ stops = 0
    BY DEF Init
  <2>4. QED
    BY <2>1, <2>2, <2>3, TimeAssumption DEF StateOK
<1>3. CleanupOK
  BY ConstantFacts DEF Init, CleanupOK, Idle
<1>4. QED
  BY <1>1, <1>2, <1>3, TypeInvParts

LEMMA TypeInvStep == TypeInv /\ CleanupOK /\ [Next]_vars => TypeInv'
<1> SUFFICES ASSUME TypeInv, CleanupOK, [Next]_vars PROVE TypeInv'
  OBVIOUS
<1>1. CASE Environment
  BY <1>1, TypeUpsert, TypeMarkRead, TypeRemove, TypeCrash, TypeBeginStop DEF Environment
<1>2. CASE Loop
  BY <1>2, TypeBroadcast, TypeSkipCancelled, TypeHandleUpdated, TypeHandleRemoved DEF Loop
<1>3. CASE Lifecycle
  BY <1>3, TypeStart, TypeRestoreOne, TypePhases, TypeExit DEF Lifecycle
<1>4. CASE WriteOrphan \/ Tick
  BY <1>4, TypeWriteOrphan, TypeTick
<1>5. ASSUME NEW o \in Owners, WriteSnapshot(o) \/ Resume(o) PROVE TypeInv'
  BY <1>5, TypeWriteSnapshot, TypeFinishRemoved, TypeReactToUpdated, TypeNotified DEF Resume
<1>6. ASSUME NEW s \in Sessions, RemoveCompleted(s) PROVE TypeInv'
  <2>1. Idle(s)
    BY <1>6 DEF RemoveCompleted, Register, CleanupOK
  <2>2. QED
    BY <1>6, <2>1, TypeRemoveCompleted
<1>7. CASE UNCHANGED vars
  <2>1. StateOK /\ QueueOK
    BY TypeInvParts
  <2>2. QueueOK'
    BY <1>7, <2>1 DEF vars, loop, QueueOK, LoopOK, Matched, Distinct
  <2>3. StateOK'
    BY <1>7, <2>1 DEF vars, file, memory, life, StateOK
  <2>4. QED
    BY <2>2, <2>3, TypeInvPartsNext
<1>8. QED
  BY <1>1, <1>2, <1>3, <1>4, <1>5, <1>6, <1>7 DEF Next

-----------------------------------------------------------------------------
(* Cleanup tasks *)

\* Updating or ending a call without changing what it is about.
LEMMA SameCleanups ==
    ASSUME TypeInv, CleanupOK, UNCHANGED cleanup, NEW o \in Owners, NEW c, call' = [call EXCEPT ![o] = c],
           o \in Sessions => \/ c = None
                             \/ ~Idle(o) /\ c.session = call[o].session /\ c.status = call[o].status
    PROVE  CleanupOK'
<1>1. call \in [Owners -> Call \cup {None}] /\ Sessions \subseteq Owners
  BY TypeInvParts, ConstantFacts DEF QueueOK, LoopOK
<1>2. QED
  BY <1>1 DEF CleanupOK, Idle

\* Writers and the boot task are not cleanup tasks.
LEMMA OthersAreNotSessions ==
    /\ \A w \in Writers : w \in Owners /\ w \notin Sessions
    /\ Boot \in Owners /\ Boot \notin Sessions
  BY OwnersAssumption DEF Owners

\* Cancelling the cleanup of s ends the removal it may be waiting for.
LEMMA CancelledCleanup ==
    ASSUME TypeInv, CleanupOK, NEW s \in Sessions, cleanup' = [cleanup EXCEPT ![s] = NoTask],
           NEW calls \in [Owners -> Call \cup {None}], NEW q, CancelCalls(CleanupOwner(s), calls, q),
           \A r \in Sessions : \/ calls[r] = call[r]
                               \/ /\ calls[r] = None \/ ~Idle(r)
                                  /\ calls[r].session = call[r].session
                                  /\ calls[r].status = call[r].status
    PROVE  CleanupOK'
<1>1. call' = [o \in Owners |-> IF o \in CleanupOwner(s) THEN None ELSE calls[o]]
  BY DEF CancelCalls
<1>2. Sessions \subseteq Owners /\ cleanup \in [Sessions -> CleanupTask]
  BY TypeInvParts, ConstantFacts DEF StateOK
<1>3. ASSUME NEW r \in Sessions, call'[r] # None
      PROVE  cleanup'[r].phase = "removing" /\ call'[r].session = r /\ call'[r].status = None
  <2>1. call'[r] = calls[r] /\ r \notin CleanupOwner(s)
    BY <1>1, <1>2, <1>3
  <2>2. call[r] # None /\ calls[r].session = call[r].session /\ calls[r].status = call[r].status
    BY <1>3, <2>1 DEF Idle
  <2>3. cleanup[r].phase = "removing" /\ call[r].session = r /\ call[r].status = None
    BY <2>2 DEF CleanupOK, Idle
  <2>4. r # s
    BY <2>1, <2>3 DEF CleanupOwner
  <2>5. QED
    BY <1>2, <2>1, <2>2, <2>3, <2>4
<1>4. QED
  BY <1>3 DEF CleanupOK, Idle

LEMMA CleanupStep == TypeInv /\ CleanupOK /\ [Next]_vars => CleanupOK'
<1> SUFFICES ASSUME TypeInv, CleanupOK, [Next]_vars PROVE CleanupOK'
  OBVIOUS
<1>1. StateOK /\ QueueOK
  BY TypeInvParts
<1>2. call \in [Owners -> Call \cup {None}] /\ Sessions \subseteq Owners
  BY <1>1, ConstantFacts DEF QueueOK, LoopOK
<1>3. ASSUME NEW w \in Writers, NEW s \in Sessions, Upsert(w, s) \/ MarkRead(w, s) \/ Remove(w, s)
      PROVE  CleanupOK'
  BY <1>3, OthersAreNotSessions, SameCleanups DEF Upsert, Register, MarkRead, Remove, Notify
<1>4. CASE Crash \/ Exit
  BY <1>2, <1>4 DEF Crash, Exit, Halt, CleanupOK, Idle
<1>5. CASE BeginStop
  BY <1>2, <1>5 DEF BeginStop, CancelCalls, CleanupOK, Idle
<1>6. CASE Broadcast
  <2> DEFINE o == Front.owner
             d == [call[o] EXCEPT !.broadcast = FALSE]
  <2>1. Front \in Turn /\ call[o] \in Call
    BY <1>1, <1>6, PopProperties DEF Broadcast
  <2>2. o \in Owners /\ ~Idle(o) /\ d.session = call[o].session /\ d.status = call[o].status
    BY <2>1, ConstantFacts DEF Turn, Call, Idle
  <2>3. call' = [call EXCEPT ![o] = Settle(d)]
    BY <1>6 DEF Broadcast
  <2>4. Settle(d) = None \/ Settle(d) = d
    BY DEF Settle
  <2>5. QED
    BY <1>6, <2>2, <2>3, <2>4, SameCleanups DEF Broadcast
<1>7. CASE SkipCancelled \/ WriteOrphan \/ Tick
  BY <1>7 DEF SkipCancelled, WriteOrphan, Tick, loop, CleanupOK, Idle
<1>8. CASE HandleUpdated
  <2> DEFINE o == Front.owner
             d == [call[o] EXCEPT !.handler = "writing", !.payload = registry]
  <2>1. Front \in Turn /\ call[o] \in Call
    BY <1>1, <1>8, PopProperties DEF HandleUpdated
  <2>2. o \in Owners /\ ~Idle(o) /\ d.session = call[o].session /\ d.status = call[o].status
    BY <2>1, ConstantFacts DEF Turn, Call, Idle
  <2>3. call' = [call EXCEPT ![o] = d]
    BY <1>2, <1>8, <2>2 DEF HandleUpdated
  <2>4. QED
    BY <1>8, <2>2, <2>3, SameCleanups DEF HandleUpdated
<1>9. CASE HandleRemoved
  <2> DEFINE o == Front.owner
             s == Front.session
             d == [call[o] EXCEPT !.handler = "writing", !.payload = registry]
             calls == [call EXCEPT ![o].handler = "writing", ![o].payload = registry]
  <2>1. Front \in Turn /\ call[o] \in Call
    BY <1>1, <1>9, PopProperties DEF HandleRemoved
  <2>2. o \in Owners /\ s \in Sessions /\ ~Idle(o) /\ d \in Call
        /\ d.session = call[o].session /\ d.status = call[o].status
    BY <1>1, <2>1, ConstantFacts DEF Turn, Call, Idle, StateOK
  <2>3. calls = [call EXCEPT ![o] = d]
    BY <1>2, <2>2
  <2>4. calls \in [Owners -> Call \cup {None}]
    BY <1>2, <2>2, <2>3
  <2>5. \A r \in Sessions : calls[r] = call[r] \/ (r = o /\ calls[r] = d)
    BY <1>2, <2>2, <2>3
  <2>6. cleanup' = [cleanup EXCEPT ![s] = NoTask] /\ CancelCalls(CleanupOwner(s), calls, Tail(ready))
    BY <1>9 DEF HandleRemoved
  <2>7. \A r \in Sessions : \/ calls[r] = call[r]
                            \/ /\ calls[r] = None \/ ~Idle(r)
                               /\ calls[r].session = call[r].session
                               /\ calls[r].status = call[r].status
    BY <2>2, <2>5
  <2> HIDE DEF calls, d, o, s
  <2>8. QED
    BY <2>2, <2>4, <2>6, <2>7, CancelledCleanup
<1>10. ASSUME NEW o \in Owners, WriteSnapshot(o) PROVE CleanupOK'
  <2> DEFINE d == [call[o] EXCEPT !.handler = "written", !.payload = Empty]
  <2>1. ~Idle(o) /\ call[o] \in Call /\ call' = [call EXCEPT ![o] = d] /\ UNCHANGED cleanup
    BY <1>2, <1>10 DEF WriteSnapshot, Idle
  <2>2. d.session = call[o].session /\ d.status = call[o].status
    BY <2>1 DEF Call
  <2>3. QED
    BY <2>1, <2>2, SameCleanups
<1>11. ASSUME NEW o \in Owners, FinishRemoved(o) \/ Notified(o) PROVE CleanupOK'
  <2> DEFINE d == [call[o] EXCEPT !.handler = "done"]
  <2>1. ~Idle(o) /\ call[o] \in Call /\ call' = [call EXCEPT ![o] = Settle(d)] /\ UNCHANGED cleanup
    BY <1>2, <1>11 DEF FinishRemoved, Notified, Idle
  <2>2. d.session = call[o].session /\ d.status = call[o].status /\ (Settle(d) = None \/ Settle(d) = d)
    BY <2>1 DEF Call, Settle
  <2>3. QED
    BY <2>1, <2>2, SameCleanups
<1>12. ASSUME NEW o \in Owners, ReactToUpdated(o) PROVE CleanupOK'
  <2>1. PICK next \in Call \cup {None} :
           UpdateCompletedCleanup(call[o].session, call[o].status, [call EXCEPT ![o] = next])
    <3> DEFINE raised == [call[o] EXCEPT !.handler = "notifying", !.since = now]
               done == [call[o] EXCEPT !.handler = "done"]
    <3>1. call[o] \in Call
      BY <1>2, <1>12 DEF ReactToUpdated, Idle
    <3>2. raised \in Call /\ Settle(done) \in Call \cup {None}
      BY <1>1, <3>1, SettleType DEF Call, StateOK
    <3>3. QED
      BY <1>12, <3>2 DEF ReactToUpdated
  <2> DEFINE s == call[o].session
             calls == [call EXCEPT ![o] = next]
  <2>2. s \in Sessions /\ call[o].status # None /\ ~Idle(o)
    BY <1>2, <1>12 DEF ReactToUpdated, Idle, Call
  <2>3. o \notin Sessions
    BY <2>2 DEF CleanupOK
  <2>4. calls \in [Owners -> Call \cup {None}] /\ (\A r \in Sessions : calls[r] = call[r])
    BY <1>2, <2>3
  <2>5. CASE Retention # None /\ InactiveCompleted(call[o].status)
    <3>1. call' = calls /\ \A r \in Sessions : cleanup[r].phase = "removing" => cleanup'[r] = cleanup[r]
      BY <1>1, <2>1, <2>2, <2>5 DEF UpdateCompletedCleanup, StateOK
    <3>2. QED
      BY <2>4, <3>1 DEF CleanupOK, Idle
  <2>6. CASE ~(Retention # None /\ InactiveCompleted(call[o].status))
    <3>1. cleanup' = [cleanup EXCEPT ![s] = NoTask] /\ CancelCalls(CleanupOwner(s), calls, ready)
      BY <2>1, <2>6 DEF UpdateCompletedCleanup
    <3>2. QED
      BY <2>2, <2>4, <3>1, CancelledCleanup
  <2>7. QED
    BY <2>5, <2>6
<1>13. ASSUME NEW s \in Sessions, RemoveCompleted(s) PROVE CleanupOK'
  <2>1. Idle(s) /\ cleanup \in [Sessions -> CleanupTask]
    BY <1>1, <1>13 DEF RemoveCompleted, Register, CleanupOK, StateOK
  <2>2. CASE /\ cleanup' = [cleanup EXCEPT ![s].phase = "removing"]
             /\ Notify(s, s, None)
    <3>1. /\ cleanup'[s].phase = "removing" /\ call'[s].session = s /\ call'[s].status = None
          /\ \A r \in Sessions \ {s} : cleanup'[r] = cleanup[r] /\ call'[r] = call[r]
      BY <1>2, <2>1, <2>2 DEF Notify, CleanupTask
    <3>2. QED
      BY <3>1 DEF CleanupOK, Idle
  <2>3. CASE /\ cleanup' = [cleanup EXCEPT ![s] = NoTask] /\ UNCHANGED loop
    BY <2>1, <2>3 DEF loop, CleanupOK, Idle
  <2>4. QED
    BY <1>13, <2>2, <2>3 DEF RemoveCompleted, Register
<1>14. CASE Start \/ PruneSnapshot \/ PruneDone \/ StartServing \/ SaveLast \/ SavedLast
  BY <1>14 DEF Start, PruneSnapshot, PruneDone, StartServing, SaveLast, SavedLast, loop, CleanupOK, Idle
<1>15. ASSUME NEW s \in Sessions, RestoreOne(s) PROVE CleanupOK'
  <2>1. CASE UNCHANGED loop
    BY <1>15, <2>1 DEF RestoreOne, Register, loop, CleanupOK, Idle
  <2>2. CASE Notify(Boot, s, image[s])
    BY <1>15, <2>2, OthersAreNotSessions, SameCleanups DEF RestoreOne, Register, Notify
  <2>3. QED
    BY <1>15, <2>1, <2>2 DEF RestoreOne, Register
<1>16. CASE UNCHANGED vars
  BY <1>16 DEF vars, loop, CleanupOK, Idle
<1>17. QED
  BY <1>3, <1>4, <1>5, <1>6, <1>7, <1>8, <1>9, <1>10, <1>11, <1>12, <1>13, <1>14, <1>15, <1>16
  DEF Next, Environment, Loop, Lifecycle, Resume

\* The history of what was told.
NewsOK == filed \in News /\ recalled \in [Sessions -> News] /\ crossed \subseteq AlertKey

LEMMA NewsStates ==
    ASSUME NEW state \in News, NEW current \in BOOLEAN
    PROVE  Given(state, current) \in News /\ Cancelled(state) \in News
  BY DEF News, Given, Cancelled

LEMMA NewsStep == ASSUME TypeInv, NewsOK, [Next]_vars PROVE NewsOK'
<1>1. call \in [Owners -> Call \cup {None}] /\ (\A k \in Sessions, t \in AlertStates : <<k, t>> \in AlertKey)
  BY DEF TypeInv, QueueOK, LoopOK, AlertKey
<1>2. ASSUME NEW s \in Sessions, NEW entry, Register(s, entry) PROVE NewsOK'
  BY <1>2 DEF Register, NewsOK, News
<1>3. ASSUME NEW owners, NEW calls, NEW q, CancelCalls(owners, calls, q) PROVE filed' \in News
  BY <1>3, NewsStates DEF CancelCalls, NewsOK
<1>4. ASSUME NEW snapshot, Replace(snapshot) PROVE NewsOK'
  <2>1. (snapshot = registry) \in BOOLEAN
    OBVIOUS
  <2>2. QED  BY <1>4, <2>1, NewsStates DEF Replace, NewsOK
<1>5. CASE UNCHANGED news
  BY <1>5 DEF news, NewsOK
<1>6. ASSUME NEW w \in Writers, NEW s \in Sessions, Upsert(w, s) \/ MarkRead(w, s) \/ Remove(w, s)
      PROVE  NewsOK'
  BY <1>2, <1>5, <1>6 DEF Upsert, MarkRead, Remove
<1>7. CASE HandleRemoved
  <2>1. filed' \in News /\ UNCHANGED crossed
    BY <1>3, <1>7 DEF HandleRemoved
  <2>2. recalled' = [recalled EXCEPT ![Front.session] = Given(@, registry[Front.session] = None)]
    BY <1>7 DEF HandleRemoved
  <2>3. recalled' \in [Sessions -> News]
    BY <2>2, NewsStates DEF NewsOK
  <2>4. QED  BY <2>1, <2>3 DEF NewsOK
<1>8. ASSUME NEW o \in Owners, ReactToUpdated(o) PROVE NewsOK'
  <2>1. filed' \in News
    BY <1>3, <1>8 DEF ReactToUpdated, UpdateCompletedCleanup, NewsOK
  <2>2. recalled' = Remembered(call[o], ~(Retention # None /\ InactiveCompleted(call[o].status)))
    BY <1>8 DEF ReactToUpdated
  <2>3. recalled' \in [Sessions -> News]
    BY <2>2, NewsStates DEF Remembered, NewsOK
  <2>4. crossed' \subseteq crossed \cup {<<call[o].session, call[o].status.state>>}
        /\ (crossed' # crossed => Alerts(call[o].session, call[o].status))
    BY <1>8 DEF ReactToUpdated
  <2>5. call[o].session \in Sessions
    BY <1>1, <1>8 DEF ReactToUpdated, Idle, Call
  <2>6. crossed' \subseteq AlertKey
    BY <1>1, <2>4, <2>5 DEF Alerts, NewsOK
  <2>7. QED  BY <2>1, <2>3, <2>6 DEF NewsOK
<1>9. CASE BeginStop
  BY <1>3, <1>9 DEF BeginStop, NewsOK
<1>10. CASE Crash \/ Exit
  BY <1>10 DEF Crash, Exit, Halt, NewsOK, News
<1>11. ASSUME NEW s \in Sessions, RemoveCompleted(s) \/ RestoreOne(s) PROVE NewsOK'
  BY <1>2, <1>5, <1>11 DEF RemoveCompleted, RestoreOne
<1>12. CASE WriteOrphan \/ \E o \in Owners : WriteSnapshot(o)
  BY <1>4, <1>12 DEF WriteOrphan, WriteSnapshot
<1>13. CASE PruneDone \/ SavedLast
  BY <1>4, <1>13 DEF PruneDone, SavedLast
<1>14. CASE \/ Broadcast \/ SkipCancelled \/ HandleUpdated \/ Tick \/ UNCHANGED vars
            \/ \E o \in Owners : FinishRemoved(o) \/ Notified(o)
            \/ Start \/ PruneSnapshot \/ StartServing \/ SaveLast
  BY <1>5, <1>14 DEF Broadcast, SkipCancelled, HandleUpdated, Tick, vars, FinishRemoved, Notified,
     Start, PruneSnapshot, StartServing, SaveLast, news
<1>15. QED
  BY <1>6, <1>7, <1>8, <1>9, <1>10, <1>11, <1>12, <1>13, <1>14
  DEF Next, Environment, Loop, Lifecycle, Resume

\* TypeOK: every variable of the daemon's core keeps its type, through every
\* interleaving of handlers, threads, cleanup tasks, crashes and restarts; and a
\* removal by a cleanup task is never under way without that task.
THEOREM TypeCorrect == Spec => []TypeOK
<1>1. Init => TypeInv /\ CleanupOK /\ NewsOK
  BY InitTypeInv DEF Init, NewsOK, News
<1>2. TypeInv /\ CleanupOK /\ NewsOK /\ [Next]_vars => TypeInv' /\ CleanupOK' /\ NewsOK'
  BY TypeInvStep, CleanupStep, NewsStep
<1>3. TypeInv /\ CleanupOK /\ NewsOK => TypeOK
  BY DEF TypeInv, StateOK, QueueOK, LoopOK, CleanupOK, NewsOK, TypeOK
<1>4. QED
  BY <1>1, <1>2, <1>3, PTL DEF Spec

-----------------------------------------------------------------------------
(* What a step does to the cleanup task of a session *)

TaskStays(s)   == cleanup'[s] = cleanup[s] /\ lastSeen'[s] \in {lastSeen[s], "completed"}
TaskArmed(s)   == /\ cleanup[s].phase = "none" /\ cleanup'[s].phase = "sleeping"
                  /\ Retention # None /\ lastSeen'[s] = "completed"
TaskRemoves(s) == /\ RemoveCompleted(s) /\ StillCompleted(s)
                  /\ cleanup[s].phase = "sleeping" /\ cleanup'[s].phase = "removing"
                  /\ UNCHANGED lastSeen

\* A step leaves the task of s alone, ends it, arms it for a completion just
\* seen, or is the task's own removal of a session that is still completed.
LEMMA CleanupTransitions ==
    ASSUME TypeInv, [Next]_vars, NEW s \in Sessions
    PROVE  cleanup'[s].phase = "none" \/ TaskStays(s) \/ TaskArmed(s) \/ TaskRemoves(s)
<1> DEFINE Goal == cleanup'[s].phase = "none" \/ TaskStays(s) \/ TaskArmed(s) \/ TaskRemoves(s)
<1>1. /\ cleanup \in [Sessions -> CleanupTask] /\ call \in [Owners -> Call \cup {None}]
      /\ lastSeen \in [Sessions -> AttentionState \cup {None}]
  BY TypeInvParts DEF StateOK, QueueOK, LoopOK
<1>2. ASSUME UNCHANGED cleanup, UNCHANGED lastSeen PROVE Goal
  BY <1>2 DEF TaskStays
<1>3. ASSUME cleanup' = [r \in Sessions |-> NoTask] PROVE Goal
  BY <1>3 DEF NoTask
<1>4. ASSUME NEW w \in Writers, NEW r \in Sessions, Upsert(w, r) \/ MarkRead(w, r) \/ Remove(w, r)
      PROVE  Goal
  BY <1>2, <1>4 DEF Upsert, Register, MarkRead, Remove, memory
<1>5. CASE Crash \/ Exit \/ BeginStop
  BY <1>3, <1>5 DEF Crash, Exit, Halt, BeginStop
<1>6. CASE Broadcast \/ SkipCancelled \/ HandleUpdated \/ WriteOrphan \/ Tick
  BY <1>2, <1>6 DEF Broadcast, SkipCancelled, HandleUpdated, WriteOrphan, Tick, memory
<1>7. CASE HandleRemoved
  <2>1. /\ cleanup' = [cleanup EXCEPT ![Front.session] = NoTask]
        /\ lastSeen' = [lastSeen EXCEPT ![Front.session] = None]
    BY <1>7 DEF HandleRemoved, Forget
  <2>2. QED
    BY <1>1, <2>1 DEF NoTask, TaskStays
<1>8. ASSUME NEW o \in Owners, WriteSnapshot(o) \/ FinishRemoved(o) \/ Notified(o) PROVE Goal
  BY <1>2, <1>8 DEF WriteSnapshot, FinishRemoved, Notified, memory
<1>9. ASSUME NEW o \in Owners, ReactToUpdated(o) PROVE Goal
  <2> DEFINE r      == call[o].session
             status == call[o].status
  <2>1. call[o] \in Call /\ r \in Sessions /\ lastSeen' = [lastSeen EXCEPT ![r] = status.state]
    BY <1>1, <1>9 DEF ReactToUpdated, Idle, Call
  <2>2. CASE r # s
    <3>1. cleanup'[s] = cleanup[s]
      BY <1>1, <1>9, <2>1, <2>2 DEF ReactToUpdated, UpdateCompletedCleanup
    <3>2. QED
      BY <1>1, <2>1, <2>2, <3>1 DEF TaskStays
  <2>3. CASE r = s /\ Retention # None /\ InactiveCompleted(status)
    <3>1. lastSeen'[s] = "completed"
      BY <1>1, <2>1, <2>3 DEF InactiveCompleted
    <3>2. cleanup' = [cleanup EXCEPT ![s] = IF @.phase = "none"
                        THEN [phase |-> "sleeping", completedAt |-> status.at] ELSE @]
      BY <1>9, <2>3 DEF ReactToUpdated, UpdateCompletedCleanup
    <3>3. QED
      BY <1>1, <2>3, <3>1, <3>2 DEF TaskStays, TaskArmed
  <2>4. CASE r = s /\ ~(Retention # None /\ InactiveCompleted(status))
    <3>1. cleanup' = [cleanup EXCEPT ![s] = NoTask]
      BY <1>9, <2>4 DEF ReactToUpdated, UpdateCompletedCleanup
    <3>2. QED
      BY <1>1, <3>1 DEF NoTask
  <2>5. QED
    BY <2>2, <2>3, <2>4
<1>10. ASSUME NEW r \in Sessions, RemoveCompleted(r) PROVE Goal
  <2>1. UNCHANGED lastSeen
    BY <1>10 DEF RemoveCompleted, Register, memory
  <2>2. CASE r # s
    BY <1>1, <1>10, <2>1, <2>2 DEF RemoveCompleted, Register, TaskStays
  <2>3. CASE r = s /\ StillCompleted(s)
    <3>1. cleanup[s].phase = "sleeping" /\ cleanup' = [cleanup EXCEPT ![s].phase = "removing"]
      BY <1>10, <2>3 DEF RemoveCompleted, Register
    <3>2. cleanup'[s].phase = "removing"
      BY <1>1, <3>1 DEF CleanupTask
    <3>3. QED
      BY <1>10, <2>1, <2>3, <3>1, <3>2 DEF TaskRemoves
  <2>4. CASE r = s /\ ~StillCompleted(s)
    BY <1>1, <1>10, <2>4 DEF RemoveCompleted, Register, NoTask
  <2>5. QED
    BY <2>2, <2>3, <2>4
<1>11. CASE Start \/ PruneSnapshot \/ PruneDone \/ StartServing \/ SaveLast \/ SavedLast
  BY <1>2, <1>11 DEF Start, PruneSnapshot, PruneDone, StartServing, SaveLast, SavedLast, memory
<1>12. ASSUME NEW r \in Sessions, RestoreOne(r) PROVE Goal
  BY <1>2, <1>12 DEF RestoreOne, Register, memory
<1>13. CASE UNCHANGED vars
  BY <1>2, <1>13 DEF vars, memory
<1>14. QED
  BY <1>4, <1>5, <1>6, <1>7, <1>8, <1>9, <1>10, <1>11, <1>12, <1>13
  DEF Next, Environment, Loop, Lifecycle, Resume

\* A cleanup task exists only under a retention, for a session last seen completed.
CleanupInv ==
    /\ CleanupFollowsCompletion
    /\ \A s \in Sessions : cleanup[s].phase # "none" => Retention # None

LEMMA CleanupInvariant ==
    /\ Init => CleanupInv
    /\ TypeInv /\ CleanupInv /\ [Next]_vars => CleanupInv'
<1>1. Init => CleanupInv
  BY DEF Init, CleanupInv, CleanupFollowsCompletion, NoTask
<1>2. ASSUME TypeInv, CleanupInv, [Next]_vars PROVE CleanupInv'
  <2>1. ASSUME NEW s \in Sessions, cleanup'[s].phase # "none"
        PROVE  lastSeen'[s] = "completed" /\ Retention # None
    <3>1. TaskStays(s) \/ TaskArmed(s) \/ TaskRemoves(s)
      BY <1>2, <2>1, CleanupTransitions
    <3>2. QED
      BY <1>2, <2>1, <3>1 DEF CleanupInv, CleanupFollowsCompletion, TaskStays, TaskArmed, TaskRemoves
  <2>2. QED
    BY <2>1 DEF CleanupInv, CleanupFollowsCompletion
<1>3. QED
  BY <1>1, <1>2

\* CleanupFollowsCompletion: whatever order messages are handled in, a cleanup
\* task is armed or removing only while the manager last saw its session completed.
THEOREM CleanupOnlyAfterCompletion == Spec => []CleanupFollowsCompletion
<1>1. Init => TypeInv /\ CleanupOK /\ CleanupInv
  BY InitTypeInv, CleanupInvariant
<1>2. TypeInv /\ CleanupOK /\ CleanupInv /\ [Next]_vars => TypeInv' /\ CleanupOK' /\ CleanupInv'
  BY TypeInvStep, CleanupStep, CleanupInvariant
<1>3. CleanupInv => CleanupFollowsCompletion
  BY DEF CleanupInv
<1>4. QED
  BY <1>1, <1>2, <1>3, PTL DEF Spec

\* RetentionHonoured: the retention timer removes a session only when the
\* registry still shows it completed and inactive for the whole window.
THEOREM RemovalWaitsForRetention == Spec => RetentionHonoured
<1> DEFINE Honoured == \A s \in Sessions :
              cleanup[s].phase = "sleeping" /\ cleanup'[s].phase = "removing" =>
                  RetentionExpired(registry[s])
<1>1. Init => TypeInv /\ CleanupOK /\ CleanupInv
  BY InitTypeInv, CleanupInvariant
<1>2. TypeInv /\ CleanupOK /\ CleanupInv /\ [Next]_vars => TypeInv' /\ CleanupOK' /\ CleanupInv'
  BY TypeInvStep, CleanupStep, CleanupInvariant
<1>3. TypeInv /\ CleanupInv /\ [Next]_vars => [Honoured]_vars
  <2> SUFFICES ASSUME TypeInv, CleanupInv, [Next]_vars, NEW s \in Sessions,
                      cleanup[s].phase = "sleeping", cleanup'[s].phase = "removing"
               PROVE  RetentionExpired(registry[s])
    OBVIOUS
  <2>1. TaskRemoves(s)
    BY CleanupTransitions DEF TaskStays, TaskArmed
  <2>2. Retention # None
    BY DEF CleanupInv
  <2>3. QED
    BY <2>1, <2>2 DEF TaskRemoves, RemoveCompleted, Register, StillCompleted, RetentionExpired
<1>4. QED
  BY <1>1, <1>2, <1>3, PTL DEF Spec, RetentionHonoured

-----------------------------------------------------------------------------
(* Restoring *)

\* Nothing of an earlier process is left when the daemon starts.
DownInv ==
    mode = "down" =>
        /\ registry = Empty /\ ready = <<>> /\ orphanWrites = {}
        /\ \A o \in Owners : Idle(o)
        /\ \A s \in Sessions : cleanup[s] = NoTask /\ lastSeen[s] = None

\* What is restored is inactive, and the manager handles it as the first it has
\* seen of its session; while that lasts nothing else is handled.
RestoreInv ==
    mode \in {"restoring", "pruning"} =>
        /\ \A s \in Sessions : registry[s] # None => ~registry[s].live
        /\ \A s \in Sessions : mode = "restoring" /\ image[s] # None =>
              /\ ~image[s].live /\ lastSeen[s] = None
              /\ ~Idle(Boot) => call[Boot].session # s
        /\ \A o \in Owners : ~Idle(o) =>
              /\ call[o].handler # "notifying"
              /\ call[o].status # None =>
                    /\ o = Boot
                    /\ call[o].handler # "done" => lastSeen[call[o].session] = None

LEMMA DownStep == TypeInv /\ DownInv /\ [Next]_vars => DownInv'
<1> SUFFICES ASSUME TypeInv, DownInv, [Next]_vars, mode' = "down" PROVE DownInv'
  BY DEF DownInv
<1>1. CASE Crash \/ Exit
  BY <1>1 DEF Crash, Exit, Halt, DownInv, Idle
<1>2. CASE Tick \/ UNCHANGED vars
  BY <1>2 DEF Tick, vars, loop, memory, life, DownInv, Idle
<1>3. CASE mode # "down" /\ ~(Crash \/ Exit)
  <2>1. mode' # "down"
    BY <1>3 DEF Next, Environment, Loop, Lifecycle, Resume, Upsert, Register, MarkRead, Remove, BeginStop,
       Broadcast, SkipCancelled, HandleUpdated, HandleRemoved, Start, RestoreOne, PruneSnapshot,
       PruneDone, StartServing, SaveLast, SavedLast, Serve, WriteOrphan, Tick, WriteSnapshot,
       FinishRemoved, ReactToUpdated, Notified, RemoveCompleted, vars, life
  <2>2. QED
    BY <2>1
<1>4. CASE mode = "down" /\ ~(Tick \/ UNCHANGED vars) /\ ~(Crash \/ Exit)
  <2>1. ~Serving /\ ~Turned /\ (\A o \in Owners : Idle(o)) /\ orphanWrites = {}
        /\ \A s \in Sessions : cleanup[s].phase = "none"
    BY <1>4 DEF DownInv, Serving, Turned, NoTask
  <2>2. ~Environment /\ ~Loop /\ ~WriteOrphan
    BY <1>4, <2>1 DEF Environment, Upsert, Register, MarkRead, Remove, MayReport, BeginStop, Loop, Broadcast,
       SkipCancelled, HandleUpdated, HandleRemoved, WriteOrphan
  <2>3. \A o \in Owners : ~WriteSnapshot(o) /\ ~Resume(o)
    BY <2>1 DEF WriteSnapshot, Resume, FinishRemoved, ReactToUpdated, Notified
  <2>4. \A s \in Sessions : ~RemoveCompleted(s)
    BY <2>1 DEF RemoveCompleted, Register
  <2>5. Start
    BY <1>4, <2>2, <2>3, <2>4 DEF Next, Lifecycle, RestoreOne, Register, PruneSnapshot, PruneDone, StartServing,
       SaveLast, SavedLast
  <2>6. QED
    BY <2>5 DEF Start
<1>5. QED
  BY <1>1, <1>2, <1>3, <1>4

Restoring == mode \in {"restoring", "pruning"}

\* A step that only moves calls on, none into the notifier.
LEMMA RestoreKept ==
    ASSUME RestoreInv, Restoring, UNCHANGED <<mode, registry, image>>,
           \A s \in Sessions : lastSeen'[s] \in {lastSeen[s], None},
           \A o \in Owners : call'[o] # None =>
              /\ ~Idle(o) /\ call'[o].session = call[o].session /\ call'[o].status = call[o].status
              /\ call'[o].session \in Sessions
              /\ call'[o].handler # "notifying"
              /\ call'[o].handler # "done" => call[o].handler # "done"
    PROVE  RestoreInv'
<1>1. Boot \in Owners
  BY ConstantFacts
<1>2. \A s \in Sessions : lastSeen[s] = None => lastSeen'[s] = None
  OBVIOUS
<1>3. QED
  BY <1>1, <1>2 DEF RestoreInv, Restoring, Idle

\* One call moves on, and some may be cancelled.
LEMMA RestoreOneCall ==
    ASSUME RestoreInv, Restoring, UNCHANGED <<mode, registry, image>>,
           \A s \in Sessions : lastSeen'[s] \in {lastSeen[s], None},
           call \in [Owners -> Call \cup {None}],
           NEW o \in Owners, call[o] # None, NEW c,
           c # None => /\ c.session = call[o].session /\ c.status = call[o].status
                       /\ c.handler # "notifying"
                       /\ c.handler # "done" => call[o].handler # "done",
           \A p \in Owners : call'[p] = None \/ call'[p] = [call EXCEPT ![o] = c][p]
    PROVE  RestoreInv'
<1>1. \A p \in Owners : call[p] # None => call[p].handler # "notifying" /\ call[p].session \in Sessions
  BY DEF RestoreInv, Restoring, Idle, Call
<1>2. ASSUME NEW p \in Owners, call'[p] # None
      PROVE  /\ ~Idle(p) /\ call'[p].session = call[p].session /\ call'[p].status = call[p].status
             /\ call'[p].session \in Sessions
             /\ call'[p].handler # "notifying"
             /\ call'[p].handler # "done" => call[p].handler # "done"
  <2>1. CASE p = o
    <3>1. call'[p] = c
      BY <1>2, <2>1
    <3>2. QED
      BY <1>1, <1>2, <2>1, <3>1 DEF Idle
  <2>2. CASE p # o
    <3>1. call'[p] = call[p]
      BY <1>2, <2>2
    <3>2. QED
      BY <1>1, <1>2, <3>1 DEF Idle
  <2>3. QED
    BY <2>1, <2>2
<1>3. QED
  BY <1>2, RestoreKept

LEMMA RestoreLoop == ASSUME TypeInv, RestoreInv, Restoring, Loop PROVE RestoreInv'
<1>1. QueueOK /\ call \in [Owners -> Call \cup {None}] /\ lastSeen \in [Sessions -> AttentionState \cup {None}]
  BY DEF TypeInv, StateOK, QueueOK, LoopOK
<1>2. \A o \in Owners : call[o] # None =>
          call[o] \in Call /\ call[o].handler # "notifying" /\ call[o].session \in Sessions
  BY <1>1 DEF RestoreInv, Restoring, Idle, Call
<1>3. CASE Broadcast
  <2> DEFINE o == Front.owner
             d == [call[o] EXCEPT !.broadcast = FALSE]
             c == Settle(d)
  <2>1. Front \in Turn /\ o \in Owners /\ call[o] \in Call
    BY <1>1, <1>3, PopProperties DEF Broadcast, Turn
  <2>2. d \in Call /\ d.session = call[o].session /\ d.status = call[o].status /\ d.handler = call[o].handler
    BY <2>1 DEF Call
  <2>3. call' = [call EXCEPT ![o] = Settle(d)]
    BY <1>3 DEF Broadcast
  <2>4. Settle(d) # None => Settle(d) = d
    BY DEF Settle
  <2>5. UNCHANGED <<mode, registry, image, lastSeen>>
    BY <1>3 DEF Broadcast, memory, life
  <2>6. call[o] # None /\ call[o].handler # "notifying"
    BY <1>2, <2>1, ConstantFacts
  <2>7. c # None => /\ c.session = call[o].session /\ c.status = call[o].status
                    /\ c.handler = call[o].handler
    BY <2>2, <2>4
  <2>8. \A p \in Owners : call'[p] = [call EXCEPT ![o] = c][p]
    BY <2>3
  <2>9. \A s \in Sessions : lastSeen'[s] \in {lastSeen[s], None}
    BY <2>5
  <2> HIDE DEF o, c
  <2>10. QED
    BY <1>1, <2>1, <2>5, <2>6, <2>7, <2>8, <2>9, RestoreOneCall
<1>4. CASE SkipCancelled
  BY <1>1, <1>2, <1>4, RestoreKept DEF SkipCancelled, memory, life, Idle
<1>5. CASE HandleUpdated
  <2> DEFINE o == Front.owner
             d == [call[o] EXCEPT !.handler = "writing", !.payload = registry]
  <2>1. Front \in Turn /\ o \in Owners /\ call[o] \in Call /\ call[o].handler = "ready"
    BY <1>1, <1>5, PopProperties DEF HandleUpdated, Turn
  <2>2. d.session = call[o].session /\ d.status = call[o].status /\ d.handler = "writing"
    BY <2>1 DEF Call
  <2>3. call' = [call EXCEPT ![o] = d]
    BY <1>1, <2>1, <1>5 DEF HandleUpdated
  <2>4. UNCHANGED <<mode, registry, image, lastSeen>>
    BY <1>5 DEF HandleUpdated, memory, life
  <2>5. QED
    BY <1>1, <1>2, <2>1, <2>2, <2>3, <2>4, ConstantFacts, RestoreOneCall
<1>6. CASE HandleRemoved
  <2> DEFINE o == Front.owner
             d == [call[o] EXCEPT !.handler = "writing", !.payload = registry]
             calls == [call EXCEPT ![o] = d]
  <2>1. Front \in Turn /\ o \in Owners /\ call[o] \in Call /\ call[o].handler = "ready"
    BY <1>1, <1>6, PopProperties DEF HandleRemoved, Turn
  <2>2. d.session = call[o].session /\ d.status = call[o].status /\ d.handler = "writing"
    BY <2>1 DEF Call
  <2>3. calls = [call EXCEPT ![o].handler = "writing", ![o].payload = registry]
    BY <1>1, <2>1
  <2>4. call' = [p \in Owners |-> IF p \in CleanupOwner(Front.session) THEN None ELSE calls[p]]
    BY <1>6, <2>3 DEF HandleRemoved, CancelCalls
  <2>5. \A s \in Sessions : lastSeen'[s] \in {lastSeen[s], None}
    BY <1>1, <1>6 DEF HandleRemoved, Forget
  <2>6. UNCHANGED <<mode, registry, image>>
    BY <1>6 DEF HandleRemoved, life
  <2>7. QED
    BY <1>1, <1>2, <2>1, <2>2, <2>4, <2>5, <2>6, ConstantFacts, RestoreOneCall
<1>7. QED
  BY <1>3, <1>4, <1>5, <1>6 DEF Loop

LEMMA RestoreThreads ==
    ASSUME TypeInv, RestoreInv, Restoring,
           NEW o \in Owners, WriteSnapshot(o) \/ FinishRemoved(o)
    PROVE  RestoreInv'
<1>1. call \in [Owners -> Call \cup {None}]
  BY DEF TypeInv, StateOK, QueueOK, LoopOK
<1>2. \A p \in Owners : call[p] # None =>
          call[p] \in Call /\ call[p].handler # "notifying" /\ call[p].session \in Sessions
  BY <1>1 DEF RestoreInv, Restoring, Idle, Call
<1>3. UNCHANGED <<mode, registry, image, lastSeen>>
  BY DEF WriteSnapshot, FinishRemoved, memory, life
<1>4. PICK c : /\ call' = [call EXCEPT ![o] = c]
               /\ c # None => /\ c.session = call[o].session /\ c.status = call[o].status
                              /\ c.handler \in {"written", "done"}
  <2>1. CASE WriteSnapshot(o)
    <3> DEFINE d == [call[o] EXCEPT !.handler = "written", !.payload = Empty]
    <3>1. call[o] \in Call /\ call' = [call EXCEPT ![o] = d]
      BY <1>1, <2>1 DEF WriteSnapshot, Idle
    <3>2. d.session = call[o].session /\ d.status = call[o].status /\ d.handler = "written"
      BY <3>1 DEF Call
    <3>3. QED
      BY <3>1, <3>2
  <2>2. CASE FinishRemoved(o)
    <3> DEFINE d == [call[o] EXCEPT !.handler = "done"]
    <3>1. call[o] \in Call /\ call' = [call EXCEPT ![o] = Settle(d)]
      BY <1>1, <2>2 DEF FinishRemoved, Idle
    <3>2. d.session = call[o].session /\ d.status = call[o].status /\ d.handler = "done"
      BY <3>1 DEF Call
    <3>3. Settle(d) # None => Settle(d) = d
      BY DEF Settle
    <3>4. QED
      BY <3>1, <3>2, <3>3
  <2>3. QED
    BY <2>1, <2>2
<1>5. ~Idle(o) /\ call[o].handler \in {"writing", "written"}
  BY DEF WriteSnapshot, FinishRemoved
<1>6. QED
  BY <1>1, <1>2, <1>3, <1>4, <1>5, RestoreOneCall DEF Idle

\* The first status of a session is no alert.
LEMMA RestoreReact ==
    ASSUME TypeInv, RestoreInv, Restoring, NEW o \in Owners, ReactToUpdated(o)
    PROVE  RestoreInv'
<1> DEFINE s == call[o].session
           status == call[o].status
           d == [call[o] EXCEPT !.handler = "done"]
           calls == [call EXCEPT ![o] = Settle(d)]
<1>1. /\ call \in [Owners -> Call \cup {None}] /\ lastSeen \in [Sessions -> AttentionState \cup {None}]
      /\ call[o] \in Call /\ s \in Sessions /\ status # None /\ call[o].handler = "written"
  BY DEF ReactToUpdated, Idle, TypeInv, StateOK, QueueOK, LoopOK, Call
<1>2. o = Boot /\ lastSeen[s] = None
  BY <1>1 DEF RestoreInv, Restoring, ReactToUpdated
<1>3. ~Alerts(s, status)
  BY <1>2 DEF Alerts
<1>4. /\ UNCHANGED <<mode, registry, image>>
      /\ lastSeen' = [lastSeen EXCEPT ![s] = status.state]
      /\ UpdateCompletedCleanup(s, status, calls)
  BY <1>3 DEF ReactToUpdated, life
<1>5. \A p \in Owners : call'[p] = None \/ call'[p] = calls[p]
  BY <1>4 DEF UpdateCompletedCleanup, CancelCalls
<1>6. d.session = s /\ d.status = status /\ d.handler = "done" /\ (Settle(d) # None => Settle(d) = d)
  BY <1>1 DEF Call, Settle
<1>7. \A p \in Owners \ {Boot} : call'[p] # None =>
         call'[p] = call[p] /\ call[p].status = None /\ call[p].handler # "notifying"
  BY <1>1, <1>2, <1>5 DEF RestoreInv, Restoring, Idle
<1>8. call'[Boot] # None =>
         call'[Boot].session = s /\ call'[Boot].handler = "done" /\ call'[Boot].status = status
  BY <1>1, <1>2, <1>5, <1>6
<1>9. \A x \in Sessions : mode = "restoring" /\ image[x] # None =>
         ~image[x].live /\ lastSeen[x] = None /\ x # s
  BY <1>2 DEF RestoreInv, Restoring, ReactToUpdated
<1>10. \A x \in Sessions : registry[x] # None => ~registry[x].live
  BY DEF RestoreInv, Restoring
<1>11. \A x \in Sessions : x # s => lastSeen'[x] = lastSeen[x]
  BY <1>1, <1>4
<1>12. QED
  BY <1>2, <1>4, <1>7, <1>8, <1>9, <1>10, <1>11 DEF RestoreInv, Idle

\* A cleanup timer that ends meanwhile removes its session.
LEMMA RestoreRemoveCompleted ==
    ASSUME TypeInv, RestoreInv, Restoring, NEW s \in Sessions, RemoveCompleted(s)
    PROVE  RestoreInv'
<1>1. UNCHANGED <<mode, image, lastSeen>> /\ registry \in Snapshot
      /\ call \in [Owners -> Call \cup {None}]
  BY DEF RemoveCompleted, Register, memory, life, TypeInv, StateOK, QueueOK, LoopOK
<1>2. s \in Owners /\ s # Boot /\ Boot \in Owners
  BY OthersAreNotSessions, ConstantFacts
<1>3. \A x \in Sessions : registry'[x] # None => registry'[x] = registry[x]
  BY <1>1 DEF RemoveCompleted, Register, Snapshot
<1>4. \A o \in Owners : call'[o] = call[o] \/ (o = s /\ call'[o].status = None /\ call'[o].handler = "ready")
  BY <1>1, <1>2 DEF RemoveCompleted, Register, Notify, loop
<1>5. QED
  BY <1>1, <1>2, <1>3, <1>4 DEF RestoreInv, Restoring, Idle

LEMMA RestoreRestoreOne ==
    ASSUME TypeInv, RestoreInv, NEW s \in Sessions, RestoreOne(s) PROVE RestoreInv'
<1>1. /\ mode = "restoring" /\ mode' = mode /\ lastSeen' = lastSeen /\ Idle(Boot)
      /\ image[s] # None /\ image' = [image EXCEPT ![s] = None]
      /\ image \in Snapshot /\ registry \in Snapshot /\ call \in [Owners -> Call \cup {None}]
  BY DEF RestoreOne, Register, memory, TypeInv, StateOK, QueueOK, LoopOK
<1>2. Boot \in Owners
  BY ConstantFacts
<1>3. ~image[s].live /\ lastSeen[s] = None
  BY <1>1 DEF RestoreInv
<1>4. \A x \in Sessions : image'[x] # None => image'[x] = image[x] /\ x # s
  BY <1>1 DEF Snapshot
<1>5. CASE UNCHANGED <<registry, loop>>
  BY <1>1, <1>4, <1>5 DEF RestoreInv, loop, Idle
<1>6. CASE registry' = [registry EXCEPT ![s] = image[s]] /\ Notify(Boot, s, image[s])
  <2>1. \A x \in Sessions : registry'[x] # None => ~registry'[x].live
    BY <1>1, <1>3, <1>6 DEF RestoreInv, Snapshot
  <2>2. \A o \in Owners \ {Boot} : call'[o] = call[o]
    BY <1>1, <1>6 DEF Notify
  <2>3. call'[Boot].session = s /\ call'[Boot].handler = "ready"
    BY <1>1, <1>2, <1>6 DEF Notify
  <2>4. QED
    BY <1>1, <1>2, <1>3, <1>4, <2>1, <2>2, <2>3 DEF RestoreInv, Idle
<1>7. QED
  BY <1>5, <1>6 DEF RestoreOne, Register

\* The file's sessions are read, inactive, into a manager that has seen none.
LEMMA RestoreStart == ASSUME TypeInv, DownInv, Start PROVE RestoreInv'
<1>1. /\ mode' = "restoring" /\ UNCHANGED <<registry, call, lastSeen>> /\ disk \in Snapshot
      /\ image' = [s \in Sessions |-> IF disk[s] = None THEN None ELSE Restored(disk[s])]
  BY DEF Start, loop, memory, TypeInv, StateOK, QueueOK, LoopOK
<1>2. registry = Empty /\ (\A o \in Owners : call[o] = None) /\ \A s \in Sessions : lastSeen[s] = None
  BY DEF Start, DownInv, Idle
<1>3. \A s \in Sessions : image'[s] # None => ~image'[s].live
  <2> SUFFICES ASSUME NEW s \in Sessions, disk[s] # None PROVE ~Restored(disk[s]).live
    BY <1>1
  <2>1. disk[s] \in Status
    BY <1>1 DEF Snapshot
  <2>2. QED
    BY <2>1 DEF Restored, Status
<1>4. Boot \in Owners
  BY ConstantFacts
<1>5. QED
  BY <1>1, <1>2, <1>3, <1>4 DEF RestoreInv, Empty, Idle

LEMMA RestoreStep == TypeInv /\ DownInv /\ RestoreInv /\ [Next]_vars => RestoreInv'
<1> SUFFICES ASSUME TypeInv, DownInv, RestoreInv, [Next]_vars, Restoring' PROVE RestoreInv'
  BY DEF RestoreInv, Restoring
<1>1. CASE Start
  BY <1>1, RestoreStart
<1>2. CASE ~Start /\ ~Restoring
  <2>1. ~Restoring'
    BY <1>2 DEF Restoring, Next, Environment, Loop, Lifecycle, Resume, Upsert, Register, MarkRead, Remove, Crash, Halt, BeginStop,
       Broadcast, SkipCancelled, HandleUpdated, HandleRemoved, RestoreOne, PruneSnapshot, Exit,
       PruneDone, StartServing, SaveLast, SavedLast, Serve, WriteOrphan, Tick, WriteSnapshot,
       FinishRemoved, ReactToUpdated, Notified, RemoveCompleted, vars, life
  <2>2. QED
    BY <2>1
<1>3. CASE Restoring
  <2>1. ~Environment
    BY <1>3 DEF Restoring, Environment, Upsert, Register, MarkRead, Remove, MayReport, Serving, Crash, Halt, BeginStop
  <2>2. CASE Loop
    BY <1>3, <2>2, RestoreLoop
  <2>3. CASE Lifecycle
    <3>1. CASE PruneSnapshot
      BY <3>1 DEF PruneSnapshot, loop, memory, RestoreInv, Idle
    <3>2. CASE ~PruneSnapshot
      BY <1>1, <1>3, <2>3, <3>2, RestoreRestoreOne
      DEF Restoring, Lifecycle, PruneDone, StartServing, Serve, SaveLast, SavedLast, Exit
    <3>3. QED
      BY <3>1, <3>2
  <2>4. CASE WriteOrphan \/ Tick \/ UNCHANGED vars
    <3>1. UNCHANGED <<mode, registry, image, lastSeen, call>>
      BY <2>4 DEF WriteOrphan, Tick, vars, loop, memory, life
    <3>2. QED
      BY <3>1 DEF RestoreInv, Idle
  <2>5. ASSUME NEW o \in Owners, WriteSnapshot(o) \/ Resume(o) PROVE RestoreInv'
    <3>1. ~Notified(o)
      BY <1>3 DEF RestoreInv, Restoring, Notified
    <3>2. QED
      BY <1>3, <2>5, <3>1, RestoreThreads, RestoreReact DEF Resume
  <2>6. ASSUME NEW s \in Sessions, RemoveCompleted(s) PROVE RestoreInv'
    BY <1>3, <2>6, RestoreRemoveCompleted
  <2>7. QED
    BY <2>1, <2>2, <2>3, <2>4, <2>5, <2>6 DEF Next
<1>4. QED
  BY <1>1, <1>2, <1>3

\* From the start to the first served client, whatever the file holds and
\* whichever timers end meanwhile: the restored sessions are inactive, and no
\* alert is raised for them.
THEOREM RestoringIsQuiet == Spec => []RestoreIsQuiet
<1>1. RestoreInv => RestoreIsQuiet
  BY DEF RestoreInv, RestoreIsQuiet, Alerting, Idle
<1>2. Init => TypeInv /\ CleanupOK /\ DownInv /\ RestoreInv
  <2>1. Init => DownInv /\ RestoreInv
    BY DEF Init, DownInv, RestoreInv, Idle
  <2>2. QED
    BY <2>1, InitTypeInv
<1>3. TypeInv /\ CleanupOK /\ DownInv /\ RestoreInv /\ [Next]_vars
         => (TypeInv /\ CleanupOK /\ DownInv /\ RestoreInv)'
  BY TypeInvStep, CleanupStep, DownStep, RestoreStep
<1>4. QED
  BY <1>1, <1>2, <1>3, PTL DEF Spec

=============================================================================
