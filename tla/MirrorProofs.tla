----------------------------- MODULE MirrorProofs -----------------------------
(***************************************************************************)
(* What a connected widget is shown follows the registry: MirrorInSync of  *)
(* MonitorManager, for every set of sessions and writers.                  *)
(*                                                                         *)
(* The argument is about words: what the widget shows of a session, and    *)
(* after it the broadcasts about that session still in the loop's FIFO, in *)
(* their order.  The last word agrees with the registry.  A word is only   *)
(* ever lost when a cleanup task's own removal is cancelled, and the word  *)
(* before such a removal is a completed, inactive status.                  *)
(***************************************************************************)
EXTENDS MonitorManagerProofs

\* Position k of the queue q has a word about s; position 0 is the widget's.
About(q, s, k) == k = 0 \/ (k \in 1 .. Len(q) /\ q[k].task = "broadcast" /\ q[k].session = s)

Word(q, shown, s, k) == IF k = 0 THEN shown[s] ELSE q[k].status

\* The last word about s before position n is that of k.
LastBefore(q, s, k, n) ==
    /\ k \in 0 .. n - 1 /\ About(q, s, k)
    /\ \A j \in 1 .. n - 1 : j > k => ~About(q, s, j)

Gone(word) == word = None \/ InactiveCompleted(word)

\* The last word about a session is its entry in the registry, but that the
\* removal of a completed one may have gone unsaid.
LastWordAgrees(q, shown, entries) ==
    \A s \in Sessions, k \in 0 .. Len(q) :
        LastBefore(q, s, k, Len(q) + 1) =>
            \/ Word(q, shown, s, k) = entries[s]
            \/ entries[s] = None /\ Gone(Word(q, shown, s, k))

\* The word before a cleanup task's removal of its session.
RemovalFollowsCompletion(q, shown) ==
    \A s \in Sessions, i \in 1 .. Len(q), k \in 0 .. Len(q) :
        About(q, s, i) /\ q[i].owner = s /\ LastBefore(q, s, k, i) => Gone(Word(q, shown, s, k))

\* A session's own task says nothing but its removal.
OwnTurns(q) ==
    \A i \in 1 .. Len(q) :
        q[i].owner \in Sessions => q[i].session = q[i].owner /\ q[i].status = None

Said(q, shown, entries) == LastWordAgrees(q, shown, entries) /\ RemovalFollowsCompletion(q, shown)

Silent(q) == \A i \in 1 .. Len(q) : q[i].task # "broadcast"

\* What turns q do, given what is shown: only a serving daemon has words to say.
Carries(q, shown, entries) ==
    /\ OwnTurns(q)
    /\ ~Serving => Silent(q)
    /\ mode = "up" => Said(q, shown, entries)

MirrorInv == Carries(ready, view, registry)

-----------------------------------------------------------------------------
(* Words *)

\* The front turn is taken; if it is a broadcast, its word is shown.
LEMMA PopSaid ==
    ASSUME NEW q \in Seq(Turn), q # <<>>, NEW shown \in Snapshot, NEW entries,
           Said(q, shown, entries), NEW after,
           after = IF Head(q).task = "broadcast"
                   THEN [shown EXCEPT ![Head(q).session] = Head(q).status] ELSE shown
    PROVE  Said(Tail(q), after, entries)
<1> DEFINE t == Tail(q)
           Old(s, k) == IF k = 0 /\ ~About(q, s, 1) THEN 0 ELSE k + 1
<1>1. /\ Len(t) = Len(q) - 1 /\ Len(q) \in Nat \ {0} /\ Len(t) \in Nat
      /\ \A i \in 1 .. Len(t) : t[i] = q[i + 1] /\ i + 1 \in 1 .. Len(q)
      /\ Head(q) = q[1] /\ Head(q) \in Turn /\ 1 \in 1 .. Len(q)
  BY HeadTailProperties, EmptySeq, ElementOfSeq
<1>2. ASSUME NEW s \in Sessions, NEW k \in 0 .. Len(t), About(t, s, k)
      PROVE  /\ Old(s, k) \in 0 .. Len(q) /\ About(q, s, Old(s, k))
             /\ Word(t, after, s, k) = Word(q, shown, s, Old(s, k))
  <2>1. CASE k = 0 /\ ~About(q, s, 1)
    <3>1. Old(s, k) = 0 /\ after[s] = shown[s]
      BY <1>1, <2>1 DEF About, Snapshot
    <3>2. QED
      BY <1>1, <2>1, <3>1 DEF About, Word
  <2>2. CASE k = 0 /\ About(q, s, 1)
    <3>1. Old(s, k) = 1 /\ q[1].task = "broadcast" /\ q[1].session = s
      BY <2>2 DEF About
    <3>2. after[s] = q[1].status
      BY <1>1, <3>1 DEF Snapshot
    <3>3. QED
      BY <1>1, <2>2, <3>1, <3>2 DEF Word
  <2>3. CASE k # 0
    BY <1>1, <1>2, <2>3 DEF About, Word
  <2>4. QED
    BY <2>1, <2>2, <2>3
<1>3. ASSUME NEW s \in Sessions, NEW k \in 0 .. Len(t), NEW n \in 1 .. Len(t) + 1,
             LastBefore(t, s, k, n)
      PROVE  LastBefore(q, s, Old(s, k), n + 1)
  <2>1. About(q, s, Old(s, k)) /\ k \in 0 .. n - 1
    BY <1>2, <1>3 DEF LastBefore
  <2>2. Old(s, k) \in 0 .. n
    BY <1>1, <2>1
  <2>3. ASSUME NEW j \in 1 .. n, j > Old(s, k) PROVE ~About(q, s, j)
    <3>1. CASE j = 1
      <4>1. Old(s, k) = 0
        BY <2>2, <2>3, <3>1
      <4>2. QED
        BY <1>1, <3>1, <4>1
    <3>2. CASE j # 1
      <4>1. j - 1 \in 1 .. n - 1 /\ j - 1 > k /\ j - 1 \in 1 .. Len(t)
        BY <1>1, <2>1, <2>3, <3>2
      <4>2. ~About(t, s, j - 1)
        BY <1>3, <4>1 DEF LastBefore
      <4>3. t[j - 1] = q[j]
        BY <1>1, <4>1
      <4>4. QED
        BY <4>1, <4>2, <4>3 DEF About
    <3>3. QED
      BY <3>1, <3>2
  <2>4. QED
    BY <1>1, <2>1, <2>2, <2>3 DEF LastBefore
<1>4. LastWordAgrees(t, after, entries)
  <2> SUFFICES ASSUME NEW s \in Sessions, NEW k \in 0 .. Len(t), LastBefore(t, s, k, Len(t) + 1)
               PROVE  \/ Word(t, after, s, k) = entries[s]
                      \/ entries[s] = None /\ Gone(Word(t, after, s, k))
    BY DEF LastWordAgrees
  <2>1. LastBefore(q, s, Old(s, k), Len(q) + 1)
    BY <1>1, <1>3
  <2>2. Old(s, k) \in 0 .. Len(q) /\ Word(t, after, s, k) = Word(q, shown, s, Old(s, k))
    BY <1>2 DEF LastBefore
  <2>3. QED
    BY <2>1, <2>2 DEF Said, LastWordAgrees
<1>5. RemovalFollowsCompletion(t, after)
  <2> SUFFICES ASSUME NEW s \in Sessions, NEW i \in 1 .. Len(t), NEW k \in 0 .. Len(t),
                      About(t, s, i), t[i].owner = s, LastBefore(t, s, k, i)
               PROVE  Gone(Word(t, after, s, k))
    BY DEF RemovalFollowsCompletion
  <2>1. LastBefore(q, s, Old(s, k), i + 1)
    BY <1>1, <1>3
  <2>2. Old(s, k) \in 0 .. Len(q) /\ Word(t, after, s, k) = Word(q, shown, s, Old(s, k))
    BY <1>2 DEF LastBefore
  <2>3. i + 1 \in 1 .. Len(q) /\ About(q, s, i + 1) /\ q[i + 1].owner = s
    BY <1>1 DEF About
  <2>4. QED
    BY <2>1, <2>2, <2>3 DEF Said, RemovalFollowsCompletion
<1>6. QED
  BY <1>4, <1>5 DEF Said

\* The turns of a change are appended, one a broadcast that carries the entry the
\* change makes; if the session's own task makes it, the entry was completed.
LEMMA AppendSaid ==
    ASSUME NEW q \in Seq(Turn), NEW new \in Seq(Turn), NEW shown, NEW entries \in Snapshot,
           Said(q, shown, entries),
           NEW b \in 1 .. Len(new), NEW s \in Sessions,
           new[b].task = "broadcast", new[b].session = s,
           \A i \in 1 .. Len(new) : i # b => new[i].task # "broadcast",
           new[b].owner = s => entries[s] # None /\ InactiveCompleted(entries[s])
    PROVE  Said(q \o new, shown, [entries EXCEPT ![s] = new[b].status])
<1> DEFINE p == q \o new
           after == [entries EXCEPT ![s] = new[b].status]
<1>1. /\ Len(p) = Len(q) + Len(new) /\ Len(q) \in Nat /\ Len(new) \in Nat /\ Len(p) \in Nat
      /\ \A i \in 1 .. Len(p) : p[i] = IF i <= Len(q) THEN q[i] ELSE new[i - Len(q)]
  BY ConcatProperties, LenProperties
<1>2. \A x \in Sessions, k \in 0 .. Len(q) :
          (About(p, x, k) <=> About(q, x, k)) /\ Word(p, shown, x, k) = Word(q, shown, x, k)
  BY <1>1 DEF About, Word
<1>3. \A x \in Sessions, k \in 0 .. Len(p) :
          k > Len(q) => (About(p, x, k) <=> x = s /\ k = Len(q) + b)
  <2> SUFFICES ASSUME NEW x \in Sessions, NEW k \in 0 .. Len(p), k > Len(q)
               PROVE  About(p, x, k) <=> x = s /\ k = Len(q) + b
    OBVIOUS
  <2>1. k \in 1 .. Len(p) /\ k # 0 /\ p[k] = new[k - Len(q)] /\ k - Len(q) \in 1 .. Len(new)
    BY <1>1
  <2>2. CASE k - Len(q) = b
    BY <1>1, <2>1, <2>2 DEF About
  <2>3. CASE k - Len(q) # b
    <3>1. p[k].task # "broadcast"
      BY <2>1, <2>3
    <3>2. k # Len(q) + b
      BY <1>1, <2>3
    <3>3. QED
      BY <2>1, <3>1, <3>2 DEF About
  <2>4. QED
    BY <2>2, <2>3
<1>4. /\ Len(q) + b \in 1 .. Len(p) /\ Len(q) + b > Len(q)
      /\ p[Len(q) + b] = new[b] /\ About(p, s, Len(q) + b)
  <2>1. Len(q) + b \in 1 .. Len(p) /\ Len(q) + b > Len(q) /\ (Len(q) + b) - Len(q) = b
    BY <1>1
  <2>2. QED
    BY <1>1, <1>3, <2>1
<1>5. \A x \in Sessions, k \in 0 .. Len(q), n \in 1 .. Len(q) + 1 :
          LastBefore(p, x, k, n) => LastBefore(q, x, k, n)
  BY <1>1, <1>2 DEF LastBefore
<1>6. LastWordAgrees(p, shown, after)
  <2> SUFFICES ASSUME NEW x \in Sessions, NEW k \in 0 .. Len(p), LastBefore(p, x, k, Len(p) + 1)
               PROVE  \/ Word(p, shown, x, k) = after[x]
                      \/ after[x] = None /\ Gone(Word(p, shown, x, k))
    BY DEF LastWordAgrees
  <2>1. CASE x = s
    <3>1. k = Len(q) + b
      <4>1. ~(Len(q) + b > k)
        BY <1>1, <1>4, <2>1 DEF LastBefore
      <4>2. k > Len(q) /\ About(p, x, k)
        BY <1>1, <1>4, <4>1 DEF LastBefore
      <4>3. QED
        BY <1>3, <4>2
    <3>2. Word(p, shown, x, k) = new[b].status
      BY <1>1, <1>4, <3>1 DEF Word
    <3>3. after[x] = new[b].status
      BY <2>1 DEF Snapshot
    <3>4. QED
      BY <3>2, <3>3
  <2>2. CASE x # s
    <3>1. About(p, x, k)
      BY DEF LastBefore
    <3>2. k \in 0 .. Len(q)
      BY <1>1, <1>3, <2>2, <3>1
    <3>3. LastBefore(p, x, k, Len(q) + 1)
      BY <1>1, <3>2 DEF LastBefore
    <3>4. LastBefore(q, x, k, Len(q) + 1)
      BY <1>1, <1>5, <3>2, <3>3
    <3>5. after[x] = entries[x]
      BY <2>2 DEF Snapshot
    <3>6. QED
      BY <1>2, <3>2, <3>4, <3>5 DEF Said, LastWordAgrees
  <2>3. QED
    BY <2>1, <2>2
<1>7. RemovalFollowsCompletion(p, shown)
  <2> SUFFICES ASSUME NEW x \in Sessions, NEW i \in 1 .. Len(p), NEW k \in 0 .. Len(p),
                      About(p, x, i), p[i].owner = x, LastBefore(p, x, k, i)
               PROVE  Gone(Word(p, shown, x, k))
    BY DEF RemovalFollowsCompletion
  <2>1. CASE i <= Len(q)
    <3>1. /\ i \in 1 .. Len(q) /\ About(q, x, i) /\ q[i].owner = x
          /\ k \in 0 .. Len(q)
      BY <1>1, <1>2, <2>1 DEF LastBefore
    <3>2. LastBefore(q, x, k, i)
      BY <1>1, <1>5, <3>1
    <3>3. QED
      BY <1>2, <3>1, <3>2 DEF Said, RemovalFollowsCompletion
  <2>2. CASE ~(i <= Len(q))
    <3>1. x = s /\ i = Len(q) + b /\ new[b].owner = s
      BY <1>1, <1>3, <1>4, <2>2
    <3>2. k \in 0 .. Len(q)
      <4>1. About(p, x, k) /\ k \in 0 .. i - 1
        BY DEF LastBefore
      <4>2. k # Len(q) + b
        BY <1>1, <3>1, <4>1
      <4>3. ~(k > Len(q))
        BY <1>3, <4>1, <4>2
      <4>4. QED
        BY <1>1, <4>3
    <3>3. LastBefore(p, x, k, Len(q) + 1)
      BY <1>1, <3>1, <3>2 DEF LastBefore
    <3>4. LastBefore(q, x, k, Len(q) + 1)
      BY <1>1, <1>5, <3>2, <3>3
    <3>5. Word(q, shown, s, k) = entries[s]
      BY <3>1, <3>2, <3>4 DEF Said, LastWordAgrees
    <3>6. QED
      BY <1>2, <3>1, <3>2, <3>5 DEF Gone
  <2>3. QED
    BY <2>1, <2>2
<1>8. QED
  BY <1>6, <1>7 DEF Said

\* Sessions' own tasks are cancelled.
LEMMA DropSaid ==
    ASSUME NEW q \in Seq(Turn), Distinct(q), OwnTurns(q), NEW shown, NEW entries,
           Said(q, shown, entries), NEW owners \in SUBSET Sessions
    PROVE  Said(DropTurns(q, owners), shown, entries)
<1> DEFINE d == DropTurns(q, owners)
<1>1. /\ Len(d) = Len(q) /\ Len(q) \in Nat
      /\ \A i \in 1 .. Len(q) : q[i] \in Turn
      /\ \A i \in 1 .. Len(q) :
            d[i] = IF q[i].owner \in owners THEN [q[i] EXCEPT !.task = "cancelled"] ELSE q[i]
  BY DropTurnsProperties, LenProperties, ElementOfSeq
<1>2. \A i \in 1 .. Len(q) :
         /\ d[i].owner = q[i].owner /\ d[i].session = q[i].session /\ d[i].status = q[i].status
         /\ d[i].task = IF q[i].owner \in owners THEN "cancelled" ELSE q[i].task
  BY <1>1 DEF Turn
<1>3. \A x \in Sessions, k \in 0 .. Len(q) :
         /\ Word(d, shown, x, k) = Word(q, shown, x, k)
         /\ About(d, x, k) => About(q, x, k)
         /\ About(q, x, k) /\ ~About(d, x, k) =>
               /\ k \in 1 .. Len(q) /\ q[k].owner = x /\ x \in owners
               /\ q[k].task = "broadcast" /\ q[k].status = None
  BY <1>1, <1>2 DEF About, Word, OwnTurns
<1>4. LastWordAgrees(d, shown, entries)
  <2> SUFFICES ASSUME NEW x \in Sessions, NEW k \in 0 .. Len(q), LastBefore(d, x, k, Len(q) + 1)
               PROVE  \/ Word(q, shown, x, k) = entries[x]
                      \/ entries[x] = None /\ Gone(Word(q, shown, x, k))
    BY <1>1, <1>3 DEF LastWordAgrees
  <2>0. /\ About(q, x, k)
        /\ \A j \in 1 .. Len(q) : j > k => ~About(d, x, j)
    BY <1>1, <1>3 DEF LastBefore
  <2>1. CASE \E i \in 1 .. Len(q) : i > k /\ About(q, x, i)
    <3>1. PICK i \in 1 .. Len(q) : i > k /\ About(q, x, i)
      BY <2>1
    <3>2. q[i].owner = x /\ q[i].task = "broadcast" /\ q[i].status = None
      BY <1>1, <1>3, <2>0, <3>1
    <3>3. \A j \in 1 .. Len(q) : j > k /\ About(q, x, j) => j = i
      BY <1>1, <1>3, <2>0, <3>2 DEF Distinct
    <3>4. LastBefore(q, x, i, Len(q) + 1)
      BY <1>1, <3>1, <3>3 DEF LastBefore
    <3>5. LastBefore(q, x, k, i)
      BY <1>1, <2>0, <3>1, <3>3 DEF LastBefore
    <3>6. Gone(Word(q, shown, x, k))
      BY <3>1, <3>2, <3>5 DEF Said, RemovalFollowsCompletion
    <3>7. Word(q, shown, x, i) = None
      BY <1>1, <3>2 DEF Word
    <3>8. entries[x] = None
      BY <1>1, <3>4, <3>7 DEF Said, LastWordAgrees
    <3>9. QED
      BY <3>6, <3>8
  <2>2. CASE ~\E i \in 1 .. Len(q) : i > k /\ About(q, x, i)
    <3>1. LastBefore(q, x, k, Len(q) + 1)
      BY <1>1, <2>0, <2>2 DEF LastBefore
    <3>2. QED
      BY <3>1 DEF Said, LastWordAgrees
  <2>3. QED
    BY <2>1, <2>2
<1>5. RemovalFollowsCompletion(d, shown)
  <2> SUFFICES ASSUME NEW x \in Sessions, NEW i \in 1 .. Len(q), NEW k \in 0 .. Len(q),
                      About(d, x, i), d[i].owner = x, LastBefore(d, x, k, i)
               PROVE  Gone(Word(q, shown, x, k))
    BY <1>1, <1>3 DEF RemovalFollowsCompletion
  <2>1. x \notin owners /\ q[i].owner = x
    BY <1>1, <1>2 DEF About
  <2>2. \A j \in 0 .. Len(q) : About(d, x, j) <=> About(q, x, j)
    BY <1>3, <2>1
  <2>3. LastBefore(q, x, k, i) /\ About(q, x, i)
    BY <1>1, <2>2 DEF LastBefore
  <2>4. QED
    BY <2>1, <2>3 DEF Said, RemovalFollowsCompletion
<1>6. QED
  BY <1>4, <1>5 DEF Said

-----------------------------------------------------------------------------
(* What each step does to the words *)

LEMMA PopCarries ==
    ASSUME TypeInv, Turned, NEW after, Carries(ready, view, registry),
           after = IF Front.task = "broadcast"
                   THEN [view EXCEPT ![Front.session] = Front.status] ELSE view
    PROVE  Carries(Tail(ready), after, registry)
<1>1. ready \in Seq(Turn) /\ ready # <<>> /\ view \in Snapshot
  BY DEF TypeInv, StateOK, QueueOK, LoopOK, Turned
<1>2. \A i \in 1 .. Len(Tail(ready)) : i + 1 \in 1 .. Len(ready) /\ Tail(ready)[i] = ready[i + 1]
  BY <1>1, HeadTailProperties, EmptySeq
<1>3. OwnTurns(Tail(ready)) /\ (~Serving => Silent(Tail(ready)))
  BY <1>2 DEF Carries, OwnTurns, Silent
<1>4. mode = "up" => Said(Tail(ready), after, registry)
  BY <1>1, PopSaid DEF Carries, Front
<1>5. QED
  BY <1>3, <1>4 DEF Carries

LEMMA DropCarries ==
    ASSUME NEW q \in Seq(Turn), Distinct(q), NEW shown, Carries(q, shown, registry),
           NEW owners \in SUBSET Sessions
    PROVE  Carries(DropTurns(q, owners), shown, registry)
<1>1. /\ Len(DropTurns(q, owners)) = Len(q)
      /\ \A i \in 1 .. Len(q) : q[i] \in Turn
      /\ \A i \in 1 .. Len(q) : DropTurns(q, owners)[i] =
            IF q[i].owner \in owners THEN [q[i] EXCEPT !.task = "cancelled"] ELSE q[i]
  BY DropTurnsProperties, ElementOfSeq
<1>2. \A i \in 1 .. Len(q) :
         /\ DropTurns(q, owners)[i].owner = q[i].owner
         /\ DropTurns(q, owners)[i].session = q[i].session
         /\ DropTurns(q, owners)[i].status = q[i].status
         /\ DropTurns(q, owners)[i].task \in {"cancelled", q[i].task}
  BY <1>1 DEF Turn
<1>3. OwnTurns(DropTurns(q, owners))
  BY <1>1, <1>2 DEF Carries, OwnTurns
<1>4. ~Serving => Silent(DropTurns(q, owners))
  BY <1>1, <1>2 DEF Carries, Silent
<1>5. QED
  BY <1>3, <1>4, DropSaid DEF Carries

LEMMA NotifyCarries ==
    ASSUME TypeInv, MirrorInv, NEW o \in Owners, NEW s \in Sessions, NEW status \in Status \cup {None},
           Notify(o, s, status), mode' = mode, view' = view,
           registry' = [registry EXCEPT ![s] = status],
           o \in Sessions => /\ s = o /\ status = None
                             /\ registry[s] # None /\ InactiveCompleted(registry[s])
    PROVE  MirrorInv'
<1> DEFINE new == Turns(o, s, status)
<1>1. ready \in Seq(Turn) /\ registry \in Snapshot
  BY DEF TypeInv, StateOK, QueueOK, LoopOK
<1>2. /\ ready' = ready \o new /\ new \in Seq(Turn)
      /\ Len(ready') = Len(ready) + Len(new) /\ Len(ready) \in Nat /\ Len(new) \in Nat
      /\ \A i \in 1 .. Len(ready') :
            ready'[i] = IF i <= Len(ready) THEN ready[i] ELSE new[i - Len(ready)]
  BY <1>1, TurnsProperties, ConcatProperties, LenProperties DEF Notify
<1>3. \A i \in 1 .. Len(ready') : \/ i \in 1 .. Len(ready) /\ ready'[i] = ready[i]
                                  \/ i - Len(ready) \in 1 .. Len(new) /\ ready'[i] = new[i - Len(ready)]
  BY <1>2
<1>4. OwnTurns(ready')
  <2>1. \A i \in 1 .. Len(new) : new[i].owner = o /\ new[i].session = s /\ new[i].status = status
    BY TurnsProperties
  <2>2. \A i \in 1 .. Len(new) :
           new[i].owner \in Sessions => new[i].session = new[i].owner /\ new[i].status = None
    BY <2>1
  <2>3. OwnTurns(ready)
    BY DEF MirrorInv, Carries
  <2>4. QED
    BY <1>3, <2>2, <2>3 DEF OwnTurns
<1>5. ~Serving => Silent(ready')
  BY <1>3, TurnsProperties DEF MirrorInv, Carries, Silent
<1>6. Serving' = Serving
  BY DEF Serving
<1>7. ASSUME mode = "up" PROVE Said(ready', view', registry')
  <2>1. Serving /\ Said(ready, view, registry)
    BY <1>7 DEF Serving, MirrorInv, Carries
  <2>2. PICK b \in 1 .. Len(new) : new[b].task = "broadcast"
    BY <2>1, TurnsProperties
  <2>3. /\ new[b].session = s /\ new[b].owner = o /\ new[b].status = status
        /\ \A i \in 1 .. Len(new) : i # b => new[i].task # "broadcast"
    BY <2>2, TurnsProperties
  <2>4. new[b].owner = s => registry[s] # None /\ InactiveCompleted(registry[s])
    BY <2>3
  <2>5. Said(ready \o new, view, [registry EXCEPT ![s] = new[b].status])
    BY <1>1, <1>2, <2>1, <2>2, <2>3, <2>4, AppendSaid
  <2>6. QED
    BY <1>2, <2>3, <2>5
<1>8. QED
  BY <1>4, <1>5, <1>6, <1>7 DEF MirrorInv, Carries

\* Nothing of it changes.
LEMMA SameCarries ==
    ASSUME MirrorInv, UNCHANGED <<ready, view, registry, mode>> PROVE MirrorInv'
BY DEF MirrorInv, Carries, Serving

LEMMA MirrorWriters ==
    ASSUME TypeInv, MirrorInv, NEW w \in Writers, NEW s \in Sessions,
           Upsert(w, s) \/ MarkRead(w, s) \/ Remove(w, s)
    PROVE  MirrorInv'
<1>1. w \in Owners /\ w \notin Sessions
  BY OthersAreNotSessions
<1>2. registry \in Snapshot
  BY DEF TypeInv, StateOK, QueueOK, LoopOK
<1>3. CASE Upsert(w, s)
  <2>1. PICK state \in ReportedStates, live \in BOOLEAN :
           /\ registry' = [registry EXCEPT ![s] = [state |-> state, live |-> live, at |-> now]]
           /\ Notify(w, s, [state |-> state, live |-> live, at |-> now])
    BY <1>3 DEF Upsert, Register
  <2>2. [state |-> state, live |-> live, at |-> now] \in Status
    BY StatesAssumption DEF Status, TypeInv, StateOK, QueueOK, LoopOK
  <2>3. QED
    BY <1>1, <1>3, <2>1, <2>2, NotifyCarries DEF Upsert, Register, life
<1>4. CASE MarkRead(w, s)
  <2>1. registry[s] \in Status /\ registry' = [registry EXCEPT ![s] = registry[s]]
    BY <1>2, <1>4 DEF MarkRead, Snapshot
  <2>2. QED
    BY <1>1, <1>4, <2>1, NotifyCarries DEF MarkRead, life
<1>5. CASE Remove(w, s)
  BY <1>1, <1>5, NotifyCarries DEF Remove, Register, life
<1>6. QED
  BY <1>3, <1>4, <1>5

LEMMA MirrorLoop == ASSUME TypeInv, MirrorInv, Loop PROVE MirrorInv'
<1>1. Carries(ready, view, registry)
  BY DEF MirrorInv
<1>2. CASE Broadcast
  <2>1. /\ Turned /\ ready' = Tail(ready) /\ registry' = registry /\ mode' = mode
        /\ view' = IF Front.task = "broadcast"
                   THEN [view EXCEPT ![Front.session] = Front.status] ELSE view
    BY <1>2 DEF Broadcast, life
  <2>2. Carries(Tail(ready), view', registry)
    BY <1>1, <2>1, PopCarries
  <2>3. QED
    BY <2>1, <2>2 DEF MirrorInv, Carries, Serving
<1>3. CASE SkipCancelled \/ HandleUpdated
  <2>1. /\ Turned /\ ready' = Tail(ready) /\ registry' = registry /\ mode' = mode /\ view' = view
        /\ view = IF Front.task = "broadcast"
                  THEN [view EXCEPT ![Front.session] = Front.status] ELSE view
    BY <1>3 DEF SkipCancelled, HandleUpdated, life
  <2>2. Carries(Tail(ready), view, registry)
    BY <1>1, <2>1, PopCarries
  <2>3. QED
    BY <2>1, <2>2 DEF MirrorInv, Carries, Serving
<1>4. CASE HandleRemoved
  <2>1. /\ Turned /\ registry' = registry /\ mode' = mode /\ view' = view
        /\ view = IF Front.task = "broadcast"
                  THEN [view EXCEPT ![Front.session] = Front.status] ELSE view
        /\ ready' = DropTurns(Tail(ready), CleanupOwner(Front.session))
    BY <1>4 DEF HandleRemoved, CancelCalls, life
  <2>2. Carries(Tail(ready), view, registry)
    BY <1>1, <2>1, PopCarries
  <2>3. /\ Front \in Turn /\ Tail(ready) \in Seq(Turn) /\ Distinct(Tail(ready))
    BY <2>1, PopProperties DEF TypeInv
  <2>4. CleanupOwner(Front.session) \in SUBSET Sessions
    BY <2>3 DEF CleanupOwner, Turn
  <2>5. Carries(DropTurns(Tail(ready), CleanupOwner(Front.session)), view, registry)
    BY <2>2, <2>3, <2>4, DropCarries
  <2>6. QED
    BY <2>1, <2>5 DEF MirrorInv, Carries, Serving
<1>5. QED
  BY <1>2, <1>3, <1>4 DEF Loop

LEMMA MirrorReact ==
    ASSUME TypeInv, MirrorInv, NEW o \in Owners, ReactToUpdated(o) PROVE MirrorInv'
<1>1. registry' = registry /\ mode' = mode /\ view' = view
  BY DEF ReactToUpdated, life
<1>2. ready' = ready \/ ready' = DropTurns(ready, CleanupOwner(call[o].session))
  BY DEF ReactToUpdated, UpdateCompletedCleanup, CancelCalls
<1>3. CASE ready' = ready
  BY <1>1, <1>3, SameCarries
<1>4. CASE ready' = DropTurns(ready, CleanupOwner(call[o].session))
  <2>1. ready \in Seq(Turn) /\ Distinct(ready)
    BY DEF TypeInv, QueueOK, LoopOK
  <2>2. CleanupOwner(call[o].session) \in SUBSET Sessions
    <3>1. call[o] \in Call
      BY DEF ReactToUpdated, Idle, TypeInv, StateOK, QueueOK, LoopOK
    <3>2. QED
      BY <3>1 DEF CleanupOwner, Call
  <2>3. Carries(ready', view, registry)
    BY <1>4, <2>1, <2>2, DropCarries DEF MirrorInv
  <2>4. QED
    BY <1>1, <2>3 DEF MirrorInv, Carries, Serving
<1>5. QED
  BY <1>2, <1>3, <1>4

LEMMA MirrorRemoveCompleted ==
    ASSUME TypeInv, MirrorInv, NEW s \in Sessions, RemoveCompleted(s) PROVE MirrorInv'
<1>1. mode' = mode /\ view' = view /\ s \in Owners
  BY DEF RemoveCompleted, Register, life, Owners
<1>2. CASE StillCompleted(s)
  BY <1>1, <1>2, NotifyCarries DEF RemoveCompleted, Register, StillCompleted
<1>3. CASE ~StillCompleted(s)
  BY <1>1, <1>3, SameCarries DEF RemoveCompleted, Register, loop
<1>4. QED
  BY <1>2, <1>3

\* A client that connects when the server starts is shown the registry.
LEMMA MirrorServe ==
    ASSUME TypeInv, MirrorInv, StartServing \/ PruneDone PROVE MirrorInv'
<1>1. /\ mode \in {"restoring", "pruning"} /\ mode' = "up"
      /\ ready' = ready /\ view' = registry /\ registry' = registry
  BY DEF StartServing, PruneDone, Serve, loop
<1>2. OwnTurns(ready) /\ Silent(ready)
  BY <1>1 DEF MirrorInv, Carries, Serving
<1>3. \A s \in Sessions, k \in 0 .. Len(ready) : About(ready, s, k) => k = 0
  BY <1>2 DEF About, Silent
<1>4. LastWordAgrees(ready, registry, registry)
  BY <1>3 DEF LastWordAgrees, LastBefore, Word
<1>5. RemovalFollowsCompletion(ready, registry)
  BY <1>2 DEF RemovalFollowsCompletion, About, Silent
<1>6. QED
  BY <1>1, <1>2, <1>4, <1>5 DEF MirrorInv, Carries, Serving, Said

LEMMA MirrorHalt == ASSUME Crash \/ Exit PROVE MirrorInv'
<1>1. ready' = <<>> /\ mode' = "down"
  BY DEF Crash, Exit, Halt
<1>2. QED
  BY <1>1 DEF MirrorInv, Carries, OwnTurns, Silent

LEMMA MirrorBeginStop == ASSUME TypeInv, MirrorInv, BeginStop PROVE MirrorInv'
<1>1. mode' = "stopping"
  BY DEF BeginStop
<1>2. PICK owners : ready' = DropTurns(ready, owners)
  BY DEF BeginStop, CancelCalls
<1>3. ready \in Seq(Turn)
  BY DEF TypeInv, StateOK, QueueOK, LoopOK
<1>4. /\ Len(ready') = Len(ready)
      /\ \A i \in 1 .. Len(ready) : ready[i] \in Turn
      /\ \A i \in 1 .. Len(ready) : ready'[i] =
            IF ready[i].owner \in owners THEN [ready[i] EXCEPT !.task = "cancelled"] ELSE ready[i]
  BY <1>2, <1>3, DropTurnsProperties, ElementOfSeq
<1>5. OwnTurns(ready')
  BY <1>4 DEF MirrorInv, Carries, OwnTurns, Turn
<1>6. QED
  BY <1>1, <1>5 DEF MirrorInv, Carries, Serving

LEMMA MirrorLifecycle == ASSUME TypeInv, MirrorInv, Lifecycle PROVE MirrorInv'
<1>1. CASE Start \/ PruneSnapshot \/ SaveLast \/ SavedLast
  <2>1. /\ UNCHANGED <<ready, view, registry>> /\ Serving' = Serving /\ mode' # "up"
    BY <1>1 DEF Start, PruneSnapshot, SaveLast, SavedLast, loop, Serving
  <2>2. QED
    BY <2>1 DEF MirrorInv, Carries
<1>2. ASSUME NEW s \in Sessions, RestoreOne(s) PROVE MirrorInv'
  <2>1. mode' = mode /\ view' = view /\ mode = "restoring"
    BY <1>2 DEF RestoreOne, Register
  <2>2. CASE UNCHANGED <<registry, loop>>
    BY <2>1, <2>2, SameCarries DEF loop
  <2>3. CASE registry' = [registry EXCEPT ![s] = image[s]] /\ Notify(Boot, s, image[s])
    <3>1. image[s] \in Status \cup {None}
      BY DEF TypeInv, StateOK, QueueOK, LoopOK, Snapshot
    <3>2. QED
      BY <2>1, <2>3, <3>1, OthersAreNotSessions, NotifyCarries
  <2>4. QED
    BY <1>2, <2>2, <2>3 DEF RestoreOne, Register
<1>3. QED
  BY <1>1, <1>2, MirrorServe, MirrorHalt DEF Lifecycle

LEMMA MirrorStep == TypeInv /\ MirrorInv /\ [Next]_vars => MirrorInv'
<1> SUFFICES ASSUME TypeInv, MirrorInv, [Next]_vars PROVE MirrorInv'
  OBVIOUS
<1>1. CASE Environment
  BY <1>1, MirrorWriters, MirrorHalt, MirrorBeginStop DEF Environment
<1>2. CASE Loop \/ Lifecycle
  BY <1>2, MirrorLoop, MirrorLifecycle
<1>3. CASE WriteOrphan \/ Tick
  BY <1>3, SameCarries DEF WriteOrphan, Tick, loop, life
<1>4. ASSUME NEW o \in Owners, WriteSnapshot(o) \/ FinishRemoved(o) \/ Notified(o) PROVE MirrorInv'
  BY <1>4, SameCarries DEF WriteSnapshot, FinishRemoved, Notified, life
<1>5. ASSUME NEW o \in Owners, ReactToUpdated(o) PROVE MirrorInv'
  BY <1>5, MirrorReact
<1>6. ASSUME NEW s \in Sessions, RemoveCompleted(s) PROVE MirrorInv'
  BY <1>6, MirrorRemoveCompleted
<1>7. CASE UNCHANGED vars
  BY <1>7, SameCarries DEF vars, loop, life
<1>8. QED
  BY <1>1, <1>2, <1>3, <1>4, <1>5, <1>6, <1>7 DEF Next, Resume

LEMMA InitMirrorInv == Init => MirrorInv
BY DEF Init, MirrorInv, Carries, OwnTurns, Silent

-----------------------------------------------------------------------------
\* However many writers' changes overlap, and whatever cleanups cancel, a widget
\* to which no word about a session is on its way shows what the registry holds,
\* but for a completed one whose removal was never broadcast.
THEOREM WidgetFollowsRegistry == Spec => []MirrorInSync
<1>1. TypeInv /\ MirrorInv => MirrorInSync
  <2> SUFFICES ASSUME TypeInv, MirrorInv, mode = "up", NEW s \in Sessions, ~BroadcastDue(s)
               PROVE  view[s] = registry[s] \/ (registry[s] = None /\ InactiveCompleted(view[s]))
    BY DEF MirrorInSync
  <2>1. Len(ready) \in Nat /\ DOMAIN ready = 1 .. Len(ready)
    BY LenProperties DEF TypeInv, StateOK, QueueOK, LoopOK
  <2>2. \A j \in 1 .. Len(ready) : ~About(ready, s, j)
    BY <2>1 DEF BroadcastDue, About
  <2>3. LastBefore(ready, s, 0, Len(ready) + 1)
    BY <2>1, <2>2 DEF LastBefore, About
  <2>4. \/ Word(ready, view, s, 0) = registry[s]
        \/ registry[s] = None /\ Gone(Word(ready, view, s, 0))
    BY <2>1, <2>3 DEF MirrorInv, Carries, Said, LastWordAgrees
  <2>5. QED
    BY <2>4 DEF Word, Gone
<1>2. Init => TypeInv /\ CleanupOK /\ MirrorInv
  BY InitTypeInv, InitMirrorInv
<1>3. TypeInv /\ CleanupOK /\ MirrorInv /\ [Next]_vars => (TypeInv /\ CleanupOK /\ MirrorInv)'
  BY TypeInvStep, CleanupStep, MirrorStep
<1>4. QED
  BY <1>1, <1>2, <1>3, PTL DEF Spec

=============================================================================
