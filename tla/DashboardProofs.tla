--------------------------- MODULE DashboardProofs ---------------------------
(***************************************************************************)
(* Proofs about Dashboard, for any clients, sessions, marks and bounds: its *)
(* types; that a widget to which nothing is on its way, and which was not  *)
(* told an older change after the newest, shows what the registry holds;   *)
(* and that what widgets are told is what the abstract mirror allows.      *)
(*                                                                         *)
(* Where a broadcast is, and behind which others, does not matter here: a  *)
(* change that a widget is owed is in some broadcast that has the widget   *)
(* left, and what it was told last is the last word on its way to it.      *)
(***************************************************************************)
EXTENDS Dashboard, SequenceTheorems, FiniteSetTheorems, TLAPS

-----------------------------------------------------------------------------
(* The invariants *)

\* A connection's task that answers, or is about to, has the request.
TaskHolds ==
    \A c \in Clients :
        task[c].phase \in {"sending", "changing", "replying"} => task[c].request \in Request

TypeInv == TypeOK /\ TaskHolds

\* The newest change of a session is what the registry holds; the connections
\* that a broadcast found dead are.
CastsInv ==
    \A x \in Broadcasts :
        /\ x.newest => x.change.status = registry[x.change.session]
        /\ \A d \in x.dead : Gone(d)

\* A widget that listens is told of every change.
Listening(w) == client[w] \in {"greeting", "on"}
Served == \A w \in Widgets : Listening(w) => w \in writers

\* x has the newest change of s still to tell w.
Owes(x, w, s) ==
    x.newest /\ x.change.session = s /\ (~x.begun \/ w \in Range(x.left))

Owed ==
    \A w \in Widgets, s \in Sessions :
        Listening(w) /\ news[w][s] = "due" => \E x \in Broadcasts : Owes(x, w, s)

\* What message says of session s, if it is a word about it.
About(message, s) ==
    message.type = "snapshot" \/ (message.type = "change" /\ message.session = s)
Says(message, s) ==
    IF message.type = "snapshot" THEN message.sessions[s] ELSE message.status

\* The last word about s among the messages q, or else what was heard, is entry.
LastSays(q, said, entry, s) ==
    /\ \A i \in DOMAIN q :
          About(q[i], s) /\ (\A j \in DOMAIN q : i < j => ~About(q[j], s)) => Says(q[i], s) = entry
    /\ (\A i \in DOMAIN q : ~About(q[i], s)) => said = entry

Told ==
    \A w \in Widgets, s \in Sessions :
        Listening(w) /\ news[w][s] = "told" => LastSays(stream[w], heard[w][s], registry[s], s)

WordInv == CastsInv /\ Served /\ Owed /\ Told

\* Before the first click no widget is answered.
Unasked ==
    asks = 0 => \A w \in Widgets :
        /\ asked[w] = <<>> /\ task[w].phase \in {"none", "reading", "draining"}
        /\ \A i \in DOMAIN stream[w] : stream[w][i].type # "action_result"

\* Pets differ from what the widget has heard as clicks and answers say.
PetsFollow ==
    \A w \in Widgets, s \in Sessions : pets[w][s] # heard[w][s] =>
        /\ asks > 0 /\ pets[w][s] # None /\ heard[w][s] # None
        /\ pets[w][s].state \in {heard[w][s].state, "running"}
        /\ pets[w][s].unread => heard[w][s].unread

\* Whatever is on its way to a widget or has reached it, the registry held.
Held ==
    /\ \A s \in Sessions : registry[s] \in past[s]
    /\ \A x \in Broadcasts : x.change.status \in past[x.change.session]
    /\ \A w \in Widgets, s \in Sessions :
          /\ heard[w][s] \in past[s]
          /\ \A i \in DOMAIN stream[w] : About(stream[w][i], s) => Says(stream[w][i], s) \in past[s]

IInv == TypeInv /\ WordInv /\ Unasked /\ PetsFollow /\ Held

-----------------------------------------------------------------------------
(* Sequences and messages *)

\* Taking the first of a sequence away.
LEMMA WithoutFirst ==
    ASSUME NEW S, NEW q \in Seq(S), q # <<>>
    PROVE  /\ Tail(q) \in Seq(S) /\ Len(Tail(q)) = Len(q) - 1 /\ Len(q) \in Nat \ {0}
           /\ DOMAIN q = 1 .. Len(q) /\ DOMAIN Tail(q) = 1 .. Len(q) - 1
           /\ \A j \in 1 .. Len(q) - 1 : Tail(q)[j] = q[j + 1]
           /\ Head(q) \in S /\ Head(q) = q[1]
<1>1. Len(q) \in Nat \ {0} /\ DOMAIN q = 1 .. Len(q)
  BY LenProperties, EmptySeq
<1>2. Tail(q) \in Seq(S) /\ Len(Tail(q)) = Len(q) - 1
      /\ \A j \in 1 .. Len(q) - 1 : Tail(q)[j] = q[j + 1]
  BY HeadTailProperties
<1>3. DOMAIN Tail(q) = 1 .. Len(q) - 1
  BY <1>1, <1>2
<1> QED  BY <1>1, <1>2, <1>3, HeadTailProperties

\* Adding to the end of a sequence.
LEMMA WithLast ==
    ASSUME NEW S, NEW q \in Seq(S), NEW x \in S
    PROVE  /\ Append(q, x) \in Seq(S) /\ Len(Append(q, x)) = Len(q) + 1 /\ Len(q) \in Nat
           /\ DOMAIN q = 1 .. Len(q) /\ DOMAIN Append(q, x) = 1 .. Len(q) + 1
           /\ \A j \in 1 .. Len(q) : Append(q, x)[j] = q[j]
           /\ Append(q, x)[Len(q) + 1] = x
<1>1. Append(q, x) \in Seq(S) /\ Len(Append(q, x)) = Len(q) + 1 /\ Len(q) \in Nat
      /\ DOMAIN q = 1 .. Len(q)
  BY AppendProperties, LenProperties
<1>2. DOMAIN Append(q, x) = 1 .. Len(q) + 1
  BY <1>1
<1> QED  BY <1>1, <1>2, AppendProperties

\* The empty sequence has no elements.
LEMMA NoElements == \A S : <<>> \in Seq(S) /\ DOMAIN <<>> = {} /\ Len(<<>>) = 0
  OBVIOUS

\* The kinds of message and what each holds.
LEMMA MessageKinds ==
    ASSUME NEW m \in Message
    PROVE  \/ /\ m.type = "change" /\ m.session \in Sessions /\ m.status \in Entry /\ m \in Change
           \/ /\ m.type = "snapshot" /\ m.sessions \in [Sessions -> Entry]
           \/ /\ m.type = "action_result" /\ m.session \in Sessions /\ m.action \in Asked
              /\ m.ok \in BOOLEAN
  BY DEF Message, Change

\* Every connection's stream after a write.
LEMMA WrittenType ==
    ASSUME stream \in [Clients -> Seq(Message)], NEW cs, NEW m \in Message
    PROVE  /\ Written(cs, m) \in [Clients -> Seq(Message)]
           /\ \A c \in Clients : Written(cs, m)[c] =
                 IF c \in cs /\ ~Gone(c) THEN Append(stream[c], m) ELSE stream[c]
           /\ paused \subseteq Clients => Full(Written(cs, m)) \subseteq Clients
           /\ paused \subseteq Full(Written(cs, m))
<1>1. \A c \in Clients : Append(stream[c], m) \in Seq(Message)
  BY WithLast
<1> QED  BY <1>1 DEF Written, Full

\* What a sequence holds, without its first or with one more.
LEMMA RangeTail ==
    ASSUME NEW S, NEW q \in Seq(S), q # <<>>
    PROVE  /\ Range(q) = {Head(q)} \cup Range(Tail(q)) /\ Head(q) \in S /\ Tail(q) \in Seq(S)
<1>1. /\ Tail(q) \in Seq(S) /\ Len(q) \in Nat \ {0}
      /\ DOMAIN q = 1 .. Len(q) /\ DOMAIN Tail(q) = 1 .. Len(q) - 1
      /\ \A j \in 1 .. Len(q) - 1 : Tail(q)[j] = q[j + 1]
      /\ Head(q) \in S /\ Head(q) = q[1]
  BY WithoutFirst
<1>2. ASSUME NEW j \in DOMAIN q PROVE q[j] \in {Head(q)} \cup Range(Tail(q))
  <2>1. CASE j = 1
    BY <1>1, <2>1
  <2>2. CASE j # 1
    <3>1. j - 1 \in 1 .. Len(q) - 1 /\ (j - 1) + 1 = j
      BY <1>1, <2>2
    <3>2. Tail(q)[j - 1] = q[j] /\ j - 1 \in DOMAIN Tail(q)
      BY <1>1, <3>1
    <3> QED  BY <3>2 DEF Range
  <2> QED  BY <2>1, <2>2
<1>3. ASSUME NEW j \in DOMAIN Tail(q) PROVE Tail(q)[j] \in Range(q)
  <2>1. j + 1 \in DOMAIN q /\ Tail(q)[j] = q[j + 1]
    BY <1>1
  <2> QED  BY <2>1 DEF Range
<1>4. Head(q) \in Range(q)
  BY <1>1 DEF Range
<1>5. Range(q) \subseteq {Head(q)} \cup Range(Tail(q))
  BY <1>2 DEF Range
<1>6. Range(Tail(q)) \subseteq Range(q)
  BY <1>3 DEF Range
<1> QED  BY <1>1, <1>4, <1>5, <1>6

LEMMA RangeAppend ==
    ASSUME NEW S, NEW q \in Seq(S), NEW x \in S
    PROVE  Append(q, x) \in Seq(S) /\ Range(Append(q, x)) = Range(q) \cup {x}
<1>1. /\ Append(q, x) \in Seq(S) /\ Len(q) \in Nat
      /\ DOMAIN q = 1 .. Len(q) /\ DOMAIN Append(q, x) = 1 .. Len(q) + 1
      /\ \A j \in 1 .. Len(q) : Append(q, x)[j] = q[j]
      /\ Append(q, x)[Len(q) + 1] = x
  BY WithLast
<1>2. ASSUME NEW j \in DOMAIN Append(q, x) PROVE Append(q, x)[j] \in Range(q) \cup {x}
  <2>1. CASE j = Len(q) + 1
    BY <1>1, <2>1
  <2>2. CASE j # Len(q) + 1
    <3>1. j \in DOMAIN q /\ Append(q, x)[j] = q[j]
      BY <1>1, <2>2
    <3> QED  BY <3>1 DEF Range
  <2> QED  BY <2>1, <2>2
<1>3. ASSUME NEW j \in DOMAIN q PROVE q[j] \in Range(Append(q, x))
  <2>1. j \in DOMAIN Append(q, x) /\ Append(q, x)[j] = q[j]
    BY <1>1
  <2> QED  BY <2>1 DEF Range
<1>4. x \in Range(Append(q, x))
  <2>1. Len(q) + 1 \in DOMAIN Append(q, x)
    BY <1>1
  <2> QED  BY <1>1, <2>1 DEF Range
<1>5. Range(Append(q, x)) \subseteq Range(q) \cup {x}
  BY <1>2 DEF Range
<1>6. Range(q) \subseteq Range(Append(q, x))
  BY <1>3 DEF Range
<1> QED  BY <1>1, <1>4, <1>5, <1>6

\* What comes after place i of a sequence.
LEMMA RangeRest ==
    ASSUME NEW S, NEW q \in Seq(S), NEW i \in DOMAIN q
    PROVE  /\ SubSeq(q, i + 1, Len(q)) \in Seq(S)
           /\ Range(q) \ {q[j] : j \in 1 .. i} \subseteq Range(SubSeq(q, i + 1, Len(q)))
           /\ {q[j] : j \in 1 .. i} \subseteq Range(q)
<1>1. Len(q) \in Nat /\ DOMAIN q = 1 .. Len(q) /\ i \in 1 .. Len(q) /\ \A j \in 1 .. Len(q) : q[j] \in S
  BY LenProperties, ElementOfSeq
<1> DEFINE r == SubSeq(q, i + 1, Len(q))
<1>2. i + 1 \in Int /\ Len(q) \in Int /\ \A j \in i + 1 .. Len(q) : q[j] \in S
  BY <1>1
<1>3. /\ r \in Seq(S)
      /\ Len(r) = IF i + 1 <= Len(q) THEN Len(q) - (i + 1) + 1 ELSE 0
      /\ \A j \in 1 .. Len(q) - (i + 1) + 1 : r[j] = q[i + 1 + j - 1]
  BY <1>2, SubSeqProperties
<1> HIDE DEF r
<1>4. DOMAIN r = 1 .. Len(r)
  BY <1>3, LenProperties
<1>5. ASSUME NEW j \in DOMAIN q, ~(j \in 1 .. i) PROVE q[j] \in Range(r)
  <2>1. j - i \in 1 .. Len(q) - (i + 1) + 1 /\ i + 1 + (j - i) - 1 = j /\ i + 1 <= Len(q)
    BY <1>1, <1>5
  <2>2. r[j - i] = q[j]
    BY <1>3, <2>1
  <2>3. j - i \in DOMAIN r
    BY <1>3, <1>4, <2>1
  <2> QED  BY <2>2, <2>3 DEF Range
<1>6. Range(q) \ {q[j] : j \in 1 .. i} \subseteq Range(r)
  BY <1>5 DEF Range
<1>7. \A j \in 1 .. i : j \in DOMAIN q
  BY <1>1
<1> QED  BY <1>3, <1>6, <1>7 DEF r, Range

-----------------------------------------------------------------------------
(* The broadcasts *)

LEMMA BroadcastsType ==
    ASSUME TypeOK
    PROVE  /\ Broadcasts \subseteq Cast
           /\ \A x \in Cast : x.change \in Change /\ x.change \in Message
                              /\ x.change.session \in Sessions /\ x.change.status \in Entry
                              /\ x.change.type = "change"
<1>1. Range(ready) \subseteq Cast /\ \A c \in Clients : Range(waits[c]) \subseteq Cast
  BY RangeOfSeq DEF TypeOK
<1> QED  BY <1>1 DEF Broadcasts, Cast, Change, Message

\* A broadcast after a change of s; and after the connection c takes data again
\* or is lost.
Out(x, s) == [x EXCEPT !.newest = @ /\ x.change.session # s]
Woken(x, c, lost) == [x EXCEPT !.dead = IF lost THEN @ \cup {c} ELSE @]

LEMMA OutType ==
    ASSUME NEW x \in Cast, NEW s
    PROVE  /\ Out(x, s) \in Cast
           /\ Out(x, s).change = x.change /\ Out(x, s).begun = x.begun
           /\ Out(x, s).left = x.left /\ Out(x, s).dead = x.dead
           /\ Out(x, s).newest <=> x.newest /\ x.change.session # s
<1> DEFINE n == x.newest /\ x.change.session # s
<1>1. n \in BOOLEAN /\ Out(x, s) = [x EXCEPT !.newest = n]
  BY DEF Cast, Out
<1> HIDE DEF n
<1>2. /\ Out(x, s) \in Cast
      /\ Out(x, s).change = x.change /\ Out(x, s).begun = x.begun
      /\ Out(x, s).left = x.left /\ Out(x, s).dead = x.dead /\ Out(x, s).newest = n
  BY <1>1 DEF Cast
<1> QED  BY <1>2 DEF n

LEMMA WokenType ==
    ASSUME NEW x \in Cast, NEW c \in Clients, NEW lost
    PROVE  /\ Woken(x, c, lost) \in Cast
           /\ Woken(x, c, lost).change = x.change /\ Woken(x, c, lost).begun = x.begun
           /\ Woken(x, c, lost).left = x.left /\ Woken(x, c, lost).newest = x.newest
           /\ Woken(x, c, lost).dead = IF lost THEN x.dead \cup {c} ELSE x.dead
<1> DEFINE d == IF lost THEN x.dead \cup {c} ELSE x.dead
<1>1. d \in SUBSET Clients /\ Woken(x, c, lost) = [x EXCEPT !.dead = d]
  BY DEF Cast, Woken
<1> HIDE DEF d
<1>2. /\ Woken(x, c, lost) \in Cast
      /\ Woken(x, c, lost).change = x.change /\ Woken(x, c, lost).begun = x.begun
      /\ Woken(x, c, lost).left = x.left /\ Woken(x, c, lost).newest = x.newest
      /\ Woken(x, c, lost).dead = d
  BY <1>1 DEF Cast
<1> QED  BY <1>2 DEF d

LEMMA WokenSame ==
    \A x \in Cast, c \in Clients, lost \in BOOLEAN :
        /\ Woken(x, c, lost).change = x.change /\ Woken(x, c, lost).begun = x.begun
        /\ Woken(x, c, lost).left = x.left /\ Woken(x, c, lost).newest = x.newest
<1> TAKE x \in Cast, c \in Clients, lost \in BOOLEAN
<1> QED  BY DEF Cast, Woken

\* A sequence whose elements are replaced one by one.
LEMMA Replaced ==
    ASSUME NEW q \in Seq(Cast), NEW r, DOMAIN r = DOMAIN q, r = [i \in DOMAIN q |-> r[i]],
           \A i \in DOMAIN q : r[i] \in Cast
    PROVE  r \in Seq(Cast)
<1>1. Len(q) \in Nat /\ DOMAIN q = 1 .. Len(q)
  BY LenProperties
<1>2. r \in [1 .. Len(q) -> Cast]
  BY <1>1
<1> QED  BY <1>1, <1>2, IsASeq

LEMMA OutdatedType ==
    ASSUME NEW q \in Seq(Cast), NEW s
    PROVE  /\ Outdated(q, s) \in Seq(Cast)
           /\ Range(Outdated(q, s)) = {Out(x, s) : x \in Range(q)}
<1>1. \A i \in DOMAIN q : q[i] \in Cast
  BY ElementOfSeq, LenProperties
<1>2. /\ DOMAIN Outdated(q, s) = DOMAIN q
      /\ Outdated(q, s) = [i \in DOMAIN q |-> Outdated(q, s)[i]]
      /\ \A i \in DOMAIN q : Outdated(q, s)[i] = Out(q[i], s)
  BY DEF Outdated, Out
<1>3. \A i \in DOMAIN q : Outdated(q, s)[i] \in Cast
  BY <1>1, <1>2, OutType
<1>4. Outdated(q, s) \in Seq(Cast)
  BY <1>2, <1>3, Replaced
<1> QED  BY <1>2, <1>4 DEF Range

\* A change is made: the broadcasts there are, and its own.
Fresh(o, s, e) ==
    [change |-> [type |-> "change", session |-> s, status |-> e], owner |-> o,
     newest |-> TRUE, begun |-> FALSE, left |-> <<>>, dead |-> {}]

LEMMA PublishType ==
    ASSUME TypeOK, NEW o \in Clients \cup {None}, NEW s \in Sessions, NEW e \in Entry,
           Publish(o, s, e)
    PROVE  /\ registry' \in [Sessions -> Entry] /\ past' \in [Sessions -> SUBSET Entry]
           /\ \A r \in Sessions : registry'[r] = IF r = s THEN e ELSE registry[r]
           /\ \A r \in Sessions : past'[r] = IF r = s THEN past[r] \cup {e} ELSE past[r]
           /\ ready' \in Seq(Cast) /\ waits' \in [Clients -> Seq(Cast)]
           /\ news' \in [Widgets -> [Sessions -> News]]
           /\ Fresh(o, s, e) \in Cast
           /\ Broadcasts' = {Out(x, s) : x \in Broadcasts} \cup {Fresh(o, s, e)}
<1>1. Fresh(o, s, e) \in Cast
  BY NoElements DEF Fresh, Cast, Change
<1>2. ready' = Append(Outdated(ready, s), Fresh(o, s, e)) /\ waits' = [c \in Clients |-> Outdated(waits[c], s)]
  BY DEF Publish, Fresh
<1>3. /\ ready \in Seq(Cast) /\ Outdated(ready, s) \in Seq(Cast)
      /\ Range(Outdated(ready, s)) = {Out(x, s) : x \in Range(ready)}
  BY OutdatedType DEF TypeOK
<1>4. ready' \in Seq(Cast) /\ Range(ready') = {Out(x, s) : x \in Range(ready)} \cup {Fresh(o, s, e)}
  BY <1>1, <1>2, <1>3, RangeAppend
<1>5. \A c \in Clients : /\ waits'[c] \in Seq(Cast)
                         /\ Range(waits'[c]) = {Out(x, s) : x \in Range(waits[c])}
  BY <1>2, OutdatedType DEF TypeOK
<1>6. waits' \in [Clients -> Seq(Cast)]
  BY <1>2, <1>5
<1>7. Broadcasts' = {Out(x, s) : x \in Broadcasts} \cup {Fresh(o, s, e)}
  <2> DEFINE old == UNION {Range(waits[c]) : c \in Clients}
             new == UNION {Range(waits'[c]) : c \in Clients}
  <2>1. Broadcasts' = Range(ready') \cup new /\ Broadcasts = Range(ready) \cup old
    BY DEF Broadcasts
  <2>2. ASSUME NEW y \in new PROVE y \in {Out(x, s) : x \in old}
    <3>1. PICK c \in Clients : y \in Range(waits'[c])
      OBVIOUS
    <3>2. PICK x \in Range(waits[c]) : y = Out(x, s)
      BY <1>5, <3>1
    <3> QED  BY <3>2
  <2>3. ASSUME NEW x \in old PROVE Out(x, s) \in new
    <3>1. PICK c \in Clients : x \in Range(waits[c])
      OBVIOUS
    <3>2. Out(x, s) \in Range(waits'[c])
      BY <1>5, <3>1
    <3> QED  BY <3>2
  <2> HIDE DEF old, new
  <2> QED  BY <1>4, <2>1, <2>2, <2>3
<1>8. /\ registry' \in [Sessions -> Entry] /\ past' \in [Sessions -> SUBSET Entry]
      /\ \A r \in Sessions : registry'[r] = IF r = s THEN e ELSE registry[r]
      /\ \A r \in Sessions : past'[r] = IF r = s THEN past[r] \cup {e} ELSE past[r]
  BY DEF Publish, TypeOK
<1>9. news' \in [Widgets -> [Sessions -> News]]
  BY DEF Publish, TypeOK, News
<1> QED  BY <1>1, <1>4, <1>6, <1>7, <1>8, <1>9

\* A connection wakes those who wait for it: no broadcast comes or goes.
LEMMA WakeType ==
    ASSUME TypeOK, NEW c \in Clients, NEW lost \in BOOLEAN, Wake(c, lost)
    PROVE  /\ ready' \in Seq(Cast) /\ waits' \in [Clients -> Seq(Cast)]
           /\ \A y \in Broadcasts' : y \in Broadcasts \/ \E x \in Broadcasts : y = Woken(x, c, lost)
           /\ \A x \in Broadcasts : x \in Broadcasts' \/ Woken(x, c, lost) \in Broadcasts'
<1> DEFINE q == waits[c]
           r == [i \in DOMAIN q |-> Woken(q[i], c, lost)]
<1>1. q \in Seq(Cast) /\ ready \in Seq(Cast)
  BY DEF TypeOK
<1>2. \A i \in DOMAIN q : q[i] \in Cast
  BY <1>1, ElementOfSeq, LenProperties
<1>3. DOMAIN r = DOMAIN q /\ r = [i \in DOMAIN q |-> r[i]] /\ \A i \in DOMAIN q : r[i] = Woken(q[i], c, lost)
  OBVIOUS
<1>4. ready' = ready \o r /\ waits' = [waits EXCEPT ![c] = <<>>]
  BY DEF Wake, Woken
<1> HIDE DEF r, q
<1>5. r \in Seq(Cast)
  <2>1. ASSUME NEW i \in DOMAIN q PROVE r[i] \in Cast
    <3>1. q[i] \in Cast /\ r[i] = Woken(q[i], c, lost)
      BY <1>2, <1>3
    <3>2. Woken(q[i], c, lost) \in Cast
      BY <3>1, WokenType
    <3> QED  BY <3>1, <3>2
  <2> QED  BY <1>1, <1>3, <2>1, Replaced
<1>6. Range(r) = {Woken(x, c, lost) : x \in Range(q)}
  BY <1>3 DEF Range
<1>7. ready' \in Seq(Cast) /\ Range(ready') = Range(ready) \cup Range(r)
  BY <1>1, <1>4, <1>5, RangeConcatenation, ConcatProperties
<1>8. waits' \in [Clients -> Seq(Cast)] /\ \A d \in Clients : Range(waits'[d]) = IF d = c THEN {} ELSE Range(waits[d])
  <2>1. <<>> \in Seq(Cast) /\ Range(<<>>) = {}
    BY NoElements DEF Range
  <2> QED  BY <1>4, <2>1 DEF TypeOK
<1>9. Range(q) = Range(waits[c])
  BY DEF q
<1>10. \A y \in Broadcasts' : y \in Broadcasts \/ y \in Range(r)
  BY <1>7, <1>8 DEF Broadcasts
<1>11. \A x \in Broadcasts : x \in Broadcasts' \/ x \in Range(q)
  BY <1>7, <1>8, <1>9 DEF Broadcasts
<1>12. Range(r) \subseteq Broadcasts' /\ Range(q) \subseteq Broadcasts
  BY <1>7, <1>9 DEF Broadcasts
<1> QED  BY <1>6, <1>7, <1>8, <1>10, <1>11, <1>12

\* The broadcasts besides the one whose turn it is.
Others == Range(Tail(ready)) \cup UNION {Range(waits[c]) : c \in Clients}

\* The broadcast whose turn it is, cast once it has its list, tells cs of its
\* change, and is over or has the rest still to tell.
Goes(cast, cs) ==
    /\ ready # <<>> /\ Head(ready) \in Cast /\ cast.change = Head(ready).change
    /\ cast.newest = Head(ready).newest /\ cast.dead = Head(ready).dead
    /\ Range(cast.left) = IF Head(ready).begun THEN Range(Head(ready).left) ELSE writers
    /\ cs \subseteq Range(cast.left) /\ Tell(cast, cs)
    /\ ready' \in Seq(Cast) /\ waits' \in [Clients -> Seq(Cast)]
    /\ \/ /\ cs = Range(cast.left) /\ Broadcasts' = Others
          /\ writers' = writers \ (cast.dead \cup {c \in cs : Gone(c)})
       \/ /\ UNCHANGED writers
          /\ \E rest \in Cast :
                /\ rest.change = cast.change /\ rest.newest = cast.newest
                /\ rest.dead = cast.dead \cup {c \in cs : Gone(c)}
                /\ Range(cast.left) \ cs \subseteq Range(rest.left)
                /\ Broadcasts' = Others \cup {rest}

LEMMA FrontCast ==
    ASSUME TypeOK, ready # <<>>
    PROVE  Head(ready) \in Cast /\ Broadcasts = Others \cup {Head(ready)} /\ Tail(ready) \in Seq(Cast)
<1>1. ready \in Seq(Cast)
  BY DEF TypeOK
<1>2. Range(ready) = {Head(ready)} \cup Range(Tail(ready)) /\ Head(ready) \in Cast /\ Tail(ready) \in Seq(Cast)
  BY <1>1, RangeTail
<1> QED  BY <1>2 DEF Broadcasts, Others

\* The rest of a broadcast that has told the first i connections of its list.
LEMMA RestType ==
    ASSUME NEW cast \in Cast, NEW i \in DOMAIN cast.left, NEW d,
           d = cast.dead \cup {c \in {cast.left[j] : j \in 1 .. i} : Gone(c)}
    PROVE  LET rest == [cast EXCEPT !.left = SubSeq(@, i + 1, Len(@)), !.dead = d]
               cs == {cast.left[j] : j \in 1 .. i}
           IN  /\ rest \in Cast /\ rest.change = cast.change /\ rest.newest = cast.newest
               /\ rest.dead = cast.dead \cup {c \in cs : Gone(c)}
               /\ Range(cast.left) \ cs \subseteq Range(rest.left)
               /\ cs \subseteq Range(cast.left) /\ cs \subseteq Clients
<1> DEFINE r == SubSeq(cast.left, i + 1, Len(cast.left))
           cs == {cast.left[j] : j \in 1 .. i}
           rest == [cast EXCEPT !.left = r, !.dead = d]
<1>1. cast.left \in Seq(Clients) /\ cast.dead \subseteq Clients
  BY DEF Cast
<1>2. /\ r \in Seq(Clients) /\ Range(cast.left) \ cs \subseteq Range(r) /\ cs \subseteq Range(cast.left)
  BY <1>1, RangeRest
<1>3. cs \subseteq Clients
  BY <1>1, <1>2, RangeOfSeq
<1>4. d \subseteq Clients /\ d = cast.dead \cup {c \in cs : Gone(c)}
  BY <1>1, <1>3
<1> HIDE DEF r, cs
<1>5. /\ rest \in Cast /\ rest.change = cast.change /\ rest.newest = cast.newest
      /\ rest.dead = d /\ rest.left = r
  BY <1>2, <1>4 DEF Cast
<1> QED  BY <1>2, <1>3, <1>4, <1>5 DEF r, cs

LEMMA CastOn ==
    ASSUME TypeOK, ready # <<>>, NEW cast \in Cast, GoesOn(cast),
           cast.change = Head(ready).change, cast.newest = Head(ready).newest,
           cast.dead = Head(ready).dead,
           Range(cast.left) = IF Head(ready).begun THEN Range(Head(ready).left) ELSE writers
    PROVE  \E cs \in SUBSET Clients : Goes(cast, cs)
<1> DEFINE left == cast.left
           Upto(i)  == {left[j] : j \in 1 .. i}
           Dead(i)  == cast.dead \cup {c \in Upto(i) : Gone(c)}
           Rest(i)  == [cast EXCEPT !.left = SubSeq(@, i + 1, Len(@)), !.dead = Dead(i)]
<1>1. /\ Head(ready) \in Cast /\ Tail(ready) \in Seq(Cast) /\ left \in Seq(Clients)
      /\ Range(left) \subseteq Clients
  BY FrontCast, RangeOfSeq DEF Cast
<1>2. CASE /\ Tell(cast, Range(left)) /\ ready' = Tail(ready)
           /\ writers' = writers \ Dead(Len(left)) /\ UNCHANGED waits
  <2>1. Upto(Len(left)) = Range(left)
    BY <1>1, RangeEquality
  <2>2. Broadcasts' = Others /\ waits' \in [Clients -> Seq(Cast)]
    BY <1>2 DEF Broadcasts, Others, TypeOK
  <2>3. Goes(cast, Range(left))
    BY <1>1, <1>2, <2>1, <2>2 DEF Goes
  <2> QED  BY <1>1, <2>3
<1>3. ASSUME NEW i \in DOMAIN left, Tell(cast, Upto(i)), UNCHANGED writers,
             \/ /\ ready' = Tail(ready)
                /\ waits' = [waits EXCEPT ![left[i]] = Append(@, Rest(i))]
             \/ /\ ready' = Append(Tail(ready), Rest(i))
                /\ UNCHANGED waits
      PROVE  Upto(i) \in SUBSET Clients /\ Goes(cast, Upto(i))
  <2> DEFINE rest == Rest(i)
             cs == Upto(i)
  <2>1. /\ rest \in Cast /\ rest.change = cast.change /\ rest.newest = cast.newest
        /\ rest.dead = cast.dead \cup {c \in cs : Gone(c)}
        /\ Range(left) \ cs \subseteq Range(rest.left)
        /\ cs \subseteq Range(left) /\ cs \subseteq Clients
    BY RestType
  <2>2. left[i] \in Clients
    BY <1>1, ElementOfSeq, LenProperties
  <2>3. \/ /\ ready' = Tail(ready) /\ waits' = [waits EXCEPT ![left[i]] = Append(@, rest)]
        \/ /\ ready' = Append(Tail(ready), rest) /\ UNCHANGED waits
    BY <1>3
  <2> HIDE DEF rest
  <2>4. CASE ready' = Tail(ready) /\ waits' = [waits EXCEPT ![left[i]] = Append(@, rest)]
    <3>1. /\ Append(waits[left[i]], rest) \in Seq(Cast)
          /\ Range(Append(waits[left[i]], rest)) = Range(waits[left[i]]) \cup {rest}
      BY <2>1, <2>2, RangeAppend DEF TypeOK
    <3>2. waits' \in [Clients -> Seq(Cast)]
          /\ \A c \in Clients : Range(waits'[c]) =
                IF c = left[i] THEN Range(waits[c]) \cup {rest} ELSE Range(waits[c])
      BY <2>2, <2>4, <3>1 DEF TypeOK
    <3>3. Broadcasts' = Others \cup {rest}
      <4> DEFINE new == UNION {Range(waits'[c]) : c \in Clients}
                 old == UNION {Range(waits[c]) : c \in Clients}
      <4>1. rest \in new /\ old \subseteq new
        BY <2>2, <3>2
      <4>2. new \subseteq old \cup {rest}
        BY <3>2
      <4>3. Broadcasts' = Range(Tail(ready)) \cup new /\ Others = Range(Tail(ready)) \cup old
        BY <2>4 DEF Broadcasts, Others
      <4> HIDE DEF new, old
      <4> QED  BY <4>1, <4>2, <4>3
    <3>4. ready' \in Seq(Cast)
      BY <1>1, <2>4
    <3> HIDE DEF cs
    <3>5. Goes(cast, cs)
      <4>1. Tell(cast, cs) /\ UNCHANGED writers
        BY <1>3 DEF cs
      <4>2. \E r \in Cast :
               /\ r.change = cast.change /\ r.newest = cast.newest
               /\ r.dead = cast.dead \cup {c \in cs : Gone(c)}
               /\ Range(cast.left) \ cs \subseteq Range(r.left) /\ Broadcasts' = Others \cup {r}
        BY <2>1, <3>3 DEF left
      <4> QED  BY <1>1, <2>1, <3>2, <3>4, <4>1, <4>2 DEF Goes
    <3> QED  BY <2>1, <3>5 DEF cs
  <2>5. CASE ready' = Append(Tail(ready), rest) /\ UNCHANGED waits
    <3>1. ready' \in Seq(Cast) /\ Range(ready') = Range(Tail(ready)) \cup {rest}
      <4>1. Tail(ready) \in Seq(Cast) /\ rest \in Cast
        BY <1>1, <2>1
      <4> DEFINE q == Tail(ready)
      <4> HIDE DEF q
      <4>2. q \in Seq(Cast) => Append(q, rest) \in Seq(Cast) /\ Range(Append(q, rest)) = Range(q) \cup {rest}
        BY <4>1, RangeAppend
      <4> QED  BY <2>5, <4>1, <4>2 DEF q
    <3>2. Broadcasts' = Others \cup {rest} /\ waits' \in [Clients -> Seq(Cast)]
      <4> DEFINE old == UNION {Range(waits[c]) : c \in Clients}
      <4>1. Broadcasts' = Range(ready') \cup old /\ Others = Range(Tail(ready)) \cup old
        BY <2>5 DEF Broadcasts, Others
      <4> HIDE DEF old
      <4> QED  BY <2>5, <3>1, <4>1 DEF TypeOK
    <3> HIDE DEF cs
    <3>3. Goes(cast, cs)
      <4>1. Tell(cast, cs) /\ UNCHANGED writers
        BY <1>3 DEF cs
      <4>2. \E r \in Cast :
               /\ r.change = cast.change /\ r.newest = cast.newest
               /\ r.dead = cast.dead \cup {c \in cs : Gone(c)}
               /\ Range(cast.left) \ cs \subseteq Range(r.left) /\ Broadcasts' = Others \cup {r}
        BY <2>1, <3>2 DEF left
      <4> QED  BY <1>1, <2>1, <3>1, <3>2, <4>1, <4>2 DEF Goes
    <3> QED  BY <2>1, <3>3 DEF cs
  <2> QED  BY <2>3, <2>4, <2>5
<1>4. \/ /\ Tell(cast, Range(left)) /\ ready' = Tail(ready)
         /\ writers' = writers \ Dead(Len(left)) /\ UNCHANGED waits
      \/ \E i \in DOMAIN left :
            /\ Tell(cast, Upto(i)) /\ UNCHANGED writers
            /\ \/ /\ ready' = Tail(ready)
                  /\ waits' = [waits EXCEPT ![left[i]] = Append(@, Rest(i))]
               \/ /\ ready' = Append(Tail(ready), Rest(i))
                  /\ UNCHANGED waits
  BY DEF GoesOn
<1> HIDE DEF Upto, Dead, Rest
<1> QED  BY <1>2, <1>3, <1>4

LEMMA CastSteps ==
    ASSUME TypeOK, CastStep PROVE \E cast \in Cast, cs \in SUBSET Clients : Goes(cast, cs)
<1> DEFINE front == Head(ready)
<1>1. ready # <<>> /\ front \in Cast
  BY FrontCast DEF CastStep
<1>2. CASE front.begun /\ GoesOn(front)
  <2>1. \E cs \in SUBSET Clients : Goes(front, cs)
    BY <1>1, <1>2, CastOn
  <2> QED  BY <1>1, <2>1
<1>3. ASSUME ~front.begun, NEW list \in Listings(writers),
             GoesOn([front EXCEPT !.begun = TRUE, !.left = list])
      PROVE  \E cast \in Cast, cs \in SUBSET Clients : Goes(cast, cs)
  <2> DEFINE cast == [front EXCEPT !.begun = TRUE, !.left = list]
  <2>1. list \in [1 .. Cardinality(writers) -> writers] /\ Range(list) = writers
    BY <1>3 DEF Listings, Bijection, Injection, Surjection, Range
  <2>2. list \in Seq(Clients)
    <3>1. Cardinality(writers) \in Nat
      BY ClientsAssumption, FS_Subset, FS_CardinalityType DEF TypeOK
    <3>2. list \in [1 .. Cardinality(writers) -> Clients]
      BY <2>1 DEF TypeOK
    <3> HIDE DEF cast
    <3> QED  BY <3>1, <3>2, IsASeq
  <2>3. /\ cast \in Cast /\ cast.change = front.change /\ cast.newest = front.newest
        /\ cast.dead = front.dead /\ cast.left = list
    BY <1>1, <2>2 DEF Cast
  <2>4. GoesOn(cast)
    BY <1>3
  <2> HIDE DEF cast
  <2>5. \E cs \in SUBSET Clients : Goes(cast, cs)
    BY <1>1, <1>3, <2>1, <2>3, <2>4, CastOn
  <2> QED  BY <2>3, <2>5
<1>4. \/ front.begun /\ GoesOn(front)
      \/ ~front.begun /\ \E list \in Listings(writers) :
            GoesOn([front EXCEPT !.begun = TRUE, !.left = list])
  BY DEF CastStep
<1> QED  BY <1>2, <1>3, <1>4

-----------------------------------------------------------------------------
(* Types *)

LEMMA InitTypeInv == Init => TypeInv
<1> SUFFICES ASSUME Init PROVE TypeInv
  OBVIOUS
<1>1. ready \in Seq(Cast) /\ waits \in [Clients -> Seq(Cast)]
      /\ stream \in [Clients -> Seq(Message)] /\ asked \in [Clients -> Seq(Request)]
  BY NoElements DEF Init
<1>2. [phase |-> "none", request |-> None, copy |-> None, ok |-> FALSE] \in Task
  BY DEF Task, Entry
<1>3. registry \in [Sessions -> Entry] /\ past \in [Sessions -> SUBSET Entry]
      /\ pets \in [Widgets -> [Sessions -> Entry]] /\ heard \in [Widgets -> [Sessions -> Entry]]
  BY DEF Init, Nothing, Entry
<1>4. asks \in 0 .. MaxAsks /\ order \in [Clients -> Int]
  <2>1. 1 .. Cardinality(Clients) \subseteq Int
    OBVIOUS
  <2>2. order \in [Clients -> 1 .. Cardinality(Clients)]
    BY DEF Init, Orders, Injection
  <2> QED  BY <2>1, <2>2, BoundsAssumption DEF Init
<1>5. news \in [Widgets -> [Sessions -> News]]
  BY DEF Init, News
<1>6. TypeOK
  BY <1>1, <1>2, <1>3, <1>4, <1>5 DEF Init, TypeOK, Phase
<1>7. TaskHolds
  BY DEF Init, TaskHolds
<1> QED  BY <1>6, <1>7 DEF TypeInv

\* A write leaves the streams' types.
LEMMA WriteType ==
    ASSUME TypeOK, NEW cs, NEW m \in Message, Write(cs, m)
    PROVE  /\ stream' \in [Clients -> Seq(Message)] /\ paused' \subseteq Clients
           /\ \A c \in Clients : stream'[c] =
                 IF c \in cs /\ ~Gone(c) THEN Append(stream[c], m) ELSE stream[c]
  BY WrittenType DEF Write, TypeOK

\* A drain that returns lets a task read on, and changes nothing else of it.
TasksGoOn ==
    /\ task' \in [Clients -> Task]
    /\ \A d \in Clients :
          /\ \/ task'[d].phase = task[d].phase
             \/ task[d].phase = "draining" /\ task'[d].phase = "reading"
          /\ task'[d].request = task[d].request /\ task'[d].copy = task[d].copy

LEMMA DrainedType ==
    ASSUME TypeOK, NEW c \in Clients, task' = Drained(c)
    PROVE  TasksGoOn
<1> DEFINE p == IF task[c].phase = "draining" THEN "reading" ELSE task[c].phase
           t == [task[c] EXCEPT !.phase = p]
<1>1. task[c] \in Task
  BY DEF TypeOK
<1>2. t \in Task /\ t.phase = p /\ t.request = task[c].request /\ t.copy = task[c].copy
  BY <1>1 DEF Task
<1>3. task' = [task EXCEPT ![c] = t]
  BY DEF Drained
<1> HIDE DEF t
<1> QED  BY <1>2, <1>3 DEF TypeOK, TasksGoOn

\* What a connection that takes data again, or is lost, changes in the server:
\* broadcasts that wait for it wake, a task whose answer was drained reads on.
Stirs(c, lost) ==
    /\ \A y \in Broadcasts' : y \in Broadcasts \/ \E x \in Broadcasts : y = Woken(x, c, lost)
    /\ \A x \in Broadcasts : x \in Broadcasts' \/ Woken(x, c, lost) \in Broadcasts'
Eased(c) ==
    /\ TasksGoOn /\ ready' \in Seq(Cast) /\ waits' \in [Clients -> Seq(Cast)]
    /\ \E lost \in BOOLEAN : Stirs(c, lost) /\ (lost => Gone(c)')
    /\ paused' \subseteq Clients /\ UNCHANGED <<writers, order, news>>

LEMMA Eases ==
    ASSUME TypeOK, NEW c \in Clients, NEW outcome \in Over, Take(c) \/ Close(c, outcome)
    PROVE  /\ Eased(c) /\ stream' \in [Clients -> Seq(Message)]
           /\ \A d \in Clients : d # c => stream'[d] = stream[d]
           /\ \/ stream[c] # <<>> /\ stream'[c] = Tail(stream[c])
              \/ stream'[c] = <<>> /\ client' = [client EXCEPT ![c] = outcome]
<1>1. ASSUME UNCHANGED <<ready, waits>>
      PROVE  Stirs(c, FALSE) /\ ready' \in Seq(Cast) /\ waits' \in [Clients -> Seq(Cast)]
  BY <1>1 DEF Stirs, Broadcasts, TypeOK
<1>2. ASSUME NEW lost \in BOOLEAN, Wake(c, lost)
      PROVE  Stirs(c, lost) /\ ready' \in Seq(Cast) /\ waits' \in [Clients -> Seq(Cast)]
  BY <1>2, WakeType DEF Stirs
<1>3. paused' \subseteq Clients /\ UNCHANGED <<writers, order, news>>
  BY DEF Take, Close, TypeOK
<1>4. TasksGoOn
  <2>1. CASE task' = Drained(c)
    BY <2>1, DrainedType
  <2>2. CASE task' = task
    BY <2>2 DEF TasksGoOn, TypeOK
  <2> QED  BY <2>1, <2>2 DEF Take, Close
<1>5. CASE Take(c)
  <2>1. stream[c] \in Seq(Message) /\ stream[c] # <<>>
        /\ stream' = [stream EXCEPT ![c] = Tail(stream[c])]
    BY <1>5 DEF Take, TypeOK
  <2>2. Tail(stream[c]) \in Seq(Message)
    BY <2>1, WithoutFirst
  <2>3. Wake(c, FALSE) \/ UNCHANGED <<ready, waits>>
    BY <1>5 DEF Take
  <2>4. Stirs(c, FALSE) /\ ready' \in Seq(Cast) /\ waits' \in [Clients -> Seq(Cast)]
    BY <1>1, <1>2, <2>3
  <2>5. Eased(c)
    BY <1>3, <1>4, <2>4 DEF Eased
  <2>6. stream' \in [Clients -> Seq(Message)] /\ stream'[c] = Tail(stream[c])
        /\ \A d \in Clients : d # c => stream'[d] = stream[d]
    BY <2>1, <2>2 DEF TypeOK
  <2> QED  BY <2>1, <2>5, <2>6
<1>6. CASE Close(c, outcome)
  <2>1. client' = [client EXCEPT ![c] = outcome] /\ stream' = [stream EXCEPT ![c] = <<>>]
        /\ Wake(c, TRUE)
    BY <1>6 DEF Close
  <2>2. Gone(c)'
    BY <2>1 DEF Gone, TypeOK
  <2>3. Eased(c)
    BY <1>2, <1>3, <1>4, <2>1, <2>2 DEF Eased
  <2>4. stream' \in [Clients -> Seq(Message)] /\ stream'[c] = <<>>
        /\ \A d \in Clients : d # c => stream'[d] = stream[d]
    BY <2>1, NoElements DEF TypeOK
  <2> QED  BY <2>1, <2>3, <2>4
<1> QED  BY <1>5, <1>6

\* What those steps leave of the types.
LEMMA TypeEased ==
    ASSUME TypeInv, NEW c \in Clients, Eased(c), stream' \in [Clients -> Seq(Message)],
           UNCHANGED <<registry, past, asks>>, asked' \in [Clients -> Seq(Request)],
           client' \in [Clients -> Phase],
           pets' \in [Widgets -> [Sessions -> Entry]], heard' \in [Widgets -> [Sessions -> Entry]]
    PROVE  TypeInv'
<1>1. \A d \in Clients : task'[d].phase \in {"sending", "changing", "replying"} =>
          task'[d].phase = task[d].phase
  BY DEF Eased, TasksGoOn
<1>2. \A d \in Clients : task'[d].phase \in {"sending", "changing"} => task'[d].copy # None
  BY <1>1 DEF Eased, TasksGoOn, TypeInv, TypeOK
<1>3. /\ ready' \in Seq(Cast) /\ waits' \in [Clients -> Seq(Cast)] /\ writers' \subseteq Clients
      /\ order' \in [Clients -> Int] /\ task' \in [Clients -> Task] /\ paused' \subseteq Clients
      /\ news' \in [Widgets -> [Sessions -> News]]
      /\ registry' \in [Sessions -> Entry] /\ past' \in [Sessions -> SUBSET Entry]
      /\ asks' \in 0 .. MaxAsks
  BY DEF Eased, TasksGoOn, TypeInv, TypeOK
<1>4. TypeOK'
  BY <1>2, <1>3 DEF TypeOK
<1>5. TaskHolds'
  BY <1>1 DEF Eased, TasksGoOn, TypeInv, TaskHolds
<1> QED  BY <1>4, <1>5 DEF TypeInv

\* The messages a widget applies leave statuses.
LEMMA AppliedType ==
    ASSUME TypeOK, NEW w \in Widgets, NEW m \in Message
    PROVE  Applied(w, m) \in [Sessions -> Entry]
<1>1. pets[w] \in [Sessions -> Entry]
  BY DEF TypeOK
<1>2. CASE m.type = "snapshot"
  BY <1>2, MessageKinds DEF Applied
<1>3. CASE m.type = "change"
  BY <1>1, <1>3, MessageKinds DEF Applied
<1>4. CASE m.type = "action_result"
  <2>1. m.session \in Sessions /\ m.type # "snapshot" /\ m.type # "change"
    BY <1>4, MessageKinds
  <2>2. CASE pets[w][m.session] = None \/ ~m.ok
    BY <1>1, <2>1, <2>2 DEF Applied
  <2>3. CASE ~(pets[w][m.session] = None \/ ~m.ok)
    <3> DEFINE pet == pets[w][m.session]
               st == IF m.action = "send_reply" THEN "running" ELSE pet.state
               un == pet.unread /\ m.action # "mark_read"
    <3>1. pet \in Status
      BY <1>1, <2>1, <2>3 DEF Entry
    <3>2. st \in AttentionState /\ un \in BOOLEAN
      BY <3>1 DEF Status, AttentionState
    <3>3. [[pet EXCEPT !.state = st] EXCEPT !.unread = un] \in Entry
      BY <3>1, <3>2 DEF Status, Entry
    <3>4. Applied(w, m) = [pets[w] EXCEPT ![m.session] = [[pet EXCEPT !.state = st] EXCEPT !.unread = un]]
      BY <1>1, <2>1, <2>3, <3>1 DEF Applied, Status
    <3> QED  BY <1>1, <3>3, <3>4
  <2> QED  BY <2>2, <2>3
<1> QED  BY <1>2, <1>3, <1>4, MessageKinds

LEMMA TypeListen ==
    ASSUME TypeInv, NEW w \in Widgets, Listen(w) PROVE TypeInv'
<1>1. w \in Clients /\ stream[w] \in Seq(Message) /\ stream[w] # <<>> /\ TypeOK
  BY DEF Listen, Take, TypeInv, TypeOK, Clients
<1>2. Eased(w) /\ stream' \in [Clients -> Seq(Message)]
  BY <1>1, Eases DEF Listen, Over
<1> DEFINE m == Head(stream[w])
<1>3. m \in Message
  BY <1>1, WithoutFirst
<1>4. pets' = [pets EXCEPT ![w] = Applied(w, m)] /\ Applied(w, m) \in [Sessions -> Entry]
  BY <1>1, <1>3, AppliedType DEF Listen
<1> DEFINE h == CASE m.type = "snapshot" -> m.sessions
                  [] m.type = "change"   -> [heard[w] EXCEPT ![m.session] = m.status]
                  [] OTHER               -> heard[w]
<1>5. heard' = [heard EXCEPT ![w] = h]
  BY DEF Listen
<1>6. h \in [Sessions -> Entry]
  BY <1>1, <1>3, MessageKinds DEF TypeOK
<1> HIDE DEF h, m
<1>7. pets' \in [Widgets -> [Sessions -> Entry]] /\ heard' \in [Widgets -> [Sessions -> Entry]]
  BY <1>1, <1>4, <1>5, <1>6 DEF TypeOK
<1>8. client' \in [Clients -> Phase]
  BY <1>1 DEF Listen, TypeOK, Phase
<1>9. UNCHANGED <<registry, past, asks>> /\ asked' \in [Clients -> Seq(Request)]
  BY <1>1 DEF Listen, TypeOK
<1> QED  BY <1>1, <1>2, <1>7, <1>8, <1>9, TypeEased

LEMMA TypeClosed ==
    ASSUME TypeInv, NEW c \in Clients, NEW outcome \in Over, Close(c, outcome),
           UNCHANGED <<registry, past, asked, pets, heard, asks>>
    PROVE  TypeInv'
<1>1. Eased(c) /\ stream' \in [Clients -> Seq(Message)]
  BY Eases DEF TypeInv
<1>2. client' \in [Clients -> Phase]
  BY DEF Close, TypeInv, TypeOK, Over, Phase
<1> QED  BY <1>1, <1>2, TypeEased DEF TypeInv, TypeOK

LEMMA TypeGreet ==
    ASSUME TypeInv, NEW k \in Commands, NEW s \in Sessions, Greet(k, s) PROVE TypeInv'
<1>1. k \in Clients /\ TypeOK
  BY DEF TypeInv, Clients
<1>2. Eased(k) /\ stream' \in [Clients -> Seq(Message)]
  BY <1>1, Eases DEF Greet, Over
<1>3. PICK action \in Actions :
          asked' = [asked EXCEPT ![k] = Append(@, [session |-> s, action |-> action])]
  BY DEF Greet
<1>4. [session |-> s, action |-> action] \in Request /\ asked[k] \in Seq(Request)
  BY <1>1, StatesAssumption DEF Request, TypeOK
<1>5. Append(asked[k], [session |-> s, action |-> action]) \in Seq(Request)
  BY <1>4, WithLast
<1>6. asked' \in [Clients -> Seq(Request)]
  BY <1>1, <1>3, <1>5 DEF TypeOK
<1>7. client' \in [Clients -> Phase]
  BY <1>1 DEF Greet, TypeOK, Phase
<1> QED  BY <1>1, <1>2, <1>6, <1>7, TypeEased DEF Greet, TypeOK

LEMMA TypeAwait ==
    ASSUME TypeInv, NEW k \in Commands, Await(k) \/ TimeOut(k) PROVE TypeInv'
<1>1. k \in Clients /\ TypeOK
  BY DEF TypeInv, Clients
<1>2. UNCHANGED <<registry, past, asked, pets, heard, asks>>
  BY DEF Await, TimeOut
<1>3. ASSUME NEW outcome \in {"ok", "refused", "timed_out"}, Close(k, outcome)
      PROVE  TypeInv'
  BY <1>1, <1>2, <1>3, TypeClosed DEF Over
<1>4. CASE Take(k) /\ UNCHANGED client
  <2>1. Eased(k) /\ stream' \in [Clients -> Seq(Message)]
    BY <1>1, <1>4, Eases DEF Over
  <2> QED  BY <1>1, <1>2, <1>4, <2>1, TypeEased DEF TypeOK
<1>5. \/ Close(k, "ok") \/ Close(k, "refused") \/ Close(k, "timed_out")
      \/ Take(k) /\ UNCHANGED client
  BY DEF Await, TimeOut
<1> QED  BY <1>3, <1>4, <1>5

\* A task that replaces one.
LEMMA TaskReplaced ==
    ASSUME TypeInv, NEW c \in Clients, NEW t \in Task, task' = [task EXCEPT ![c] = t],
           t.phase \in {"sending", "changing"} => t.copy # None,
           t.phase \in {"sending", "changing", "replying"} => t.request \in Request
    PROVE  /\ task' \in [Clients -> Task] /\ TaskHolds'
           /\ \A d \in Clients : task'[d].phase \in {"sending", "changing"} => task'[d].copy # None
<1>1. task' \in [Clients -> Task] /\ \A d \in Clients : task'[d] = IF d = c THEN t ELSE task[d]
  BY DEF TypeInv, TypeOK
<1> QED  BY <1>1 DEF TypeInv, TypeOK, TaskHolds

\* Another phase of a task is a task.
LEMMA PhaseType ==
    ASSUME NEW t \in Task,
           NEW p \in {"none", "reading", "sending", "changing", "replying", "draining"}
    PROVE  /\ [t EXCEPT !.phase = p] \in Task
           /\ [t EXCEPT !.phase = p].phase = p
           /\ [t EXCEPT !.phase = p].request = t.request
           /\ [t EXCEPT !.phase = p].copy = t.copy
  BY DEF Task

\* An answer or a greeting is written to its own connection.
LEMMA TypeConnect ==
    ASSUME TypeInv, NEW c \in Clients, Connect(c) PROVE TypeInv'
<1> DEFINE m == [type |-> "snapshot", sessions |-> registry]
           p == IF c \in paused' /\ ~Gone(c) THEN "draining" ELSE "reading"
           t == [task[c] EXCEPT !.phase = p]
<1>1. TypeOK /\ m \in Message /\ task[c] \in Task
  BY DEF TypeInv, TypeOK, Message
<1>2. Write({c}, m) /\ task' = [task EXCEPT ![c] = t]
  BY DEF Connect, Send
<1>3. stream' \in [Clients -> Seq(Message)] /\ paused' \subseteq Clients
  BY <1>1, <1>2, WriteType
<1>4. p \in {"reading", "draining"}
  OBVIOUS
<1> HIDE DEF p, m
<1>5. t \in Task /\ t.phase = p
  <2>1. \A q \in {"reading", "draining"} :
            [task[c] EXCEPT !.phase = q] \in Task /\ [task[c] EXCEPT !.phase = q].phase = q
    BY <1>1 DEF Task
  <2> QED  BY <1>4, <2>1
<1> HIDE DEF t
<1>6. /\ task' \in [Clients -> Task] /\ TaskHolds'
      /\ \A d \in Clients : task'[d].phase \in {"sending", "changing"} => task'[d].copy # None
  BY <1>2, <1>4, <1>5, TaskReplaced
<1>7. /\ client' \in [Clients -> Phase] /\ writers' \subseteq Clients /\ order' \in [Clients -> Int]
      /\ news' \in [Widgets -> [Sessions -> News]]
      /\ UNCHANGED <<registry, past, ready, waits, asked, pets, heard, asks>>
  <2>1. order' \in [Clients -> 1 .. Cardinality(Clients)] /\ 1 .. Cardinality(Clients) \subseteq Int
    BY DEF Connect, Orders, Injection
  <2> QED  BY <1>1, <2>1 DEF Connect, TypeOK, Phase, News
<1>8. TypeOK'
  BY <1>1, <1>3, <1>6, <1>7 DEF TypeOK
<1> QED  BY <1>6, <1>8 DEF TypeInv

LEMMA TypeReply ==
    ASSUME TypeInv, NEW c \in Clients, Reply(c) PROVE TypeInv'
<1> DEFINE r == task[c].request
           m == [type |-> "action_result", session |-> r.session, action |-> r.action,
                 ok |-> task[c].ok]
           t == [phase |-> IF c \in paused' /\ ~Gone(c) THEN "draining" ELSE "reading",
                 request |-> None, copy |-> None, ok |-> FALSE]
<1>1. TypeOK /\ task[c] \in Task /\ task[c].phase \in {"replying", "changing"}
  BY DEF Reply, TypeInv, TypeOK
<1>2. r \in Request /\ task[c].ok \in BOOLEAN
  BY <1>1 DEF Task, TypeInv, TaskHolds
<1>3. m \in Message
  BY <1>2 DEF Request, Message
<1>4. Write({c}, m) /\ task' = [task EXCEPT ![c] = t]
  BY DEF Reply
<1>5. t \in Task /\ t.phase \in {"reading", "draining"}
  BY DEF Task, Entry
<1> HIDE DEF m, t
<1>6. stream' \in [Clients -> Seq(Message)] /\ paused' \subseteq Clients
  BY <1>1, <1>3, <1>4, WriteType
<1>7. /\ task' \in [Clients -> Task] /\ TaskHolds'
      /\ \A d \in Clients : task'[d].phase \in {"sending", "changing"} => task'[d].copy # None
  BY <1>4, <1>5, TaskReplaced
<1>8. TypeOK'
  BY <1>1, <1>6, <1>7 DEF Reply, NoChange, TypeOK, gui
<1> QED  BY <1>7, <1>8 DEF TypeInv

LEMMA TypeHangup ==
    ASSUME TypeInv, NEW c \in Clients, Hangup(c) PROVE TypeInv'
<1> DEFINE t == [task[c] EXCEPT !.phase = "none"]
<1>1. TypeOK /\ task[c] \in Task
  BY DEF TypeInv, TypeOK
<1>2. t \in Task /\ t.phase = "none" /\ task' = [task EXCEPT ![c] = t]
  BY <1>1, PhaseType DEF Hangup
<1> HIDE DEF t
<1>3. /\ task' \in [Clients -> Task] /\ TaskHolds'
      /\ \A d \in Clients : task'[d].phase \in {"sending", "changing"} => task'[d].copy # None
  BY <1>2, TaskReplaced
<1>4. TypeOK'
  BY <1>1, <1>3 DEF Hangup, NoChange, TypeOK, wire, gui
<1> QED  BY <1>3, <1>4 DEF TypeInv

\* A task goes on, with a change made or without.
LEMMA TypeGoesOn ==
    ASSUME TypeInv, NEW c \in Clients, NEW t \in Task, task' = [task EXCEPT ![c] = t],
           t.phase \in {"sending", "changing", "replying"}, t.request \in Request,
           t.phase \in {"sending", "changing"} => t.copy # None,
           NoChange \/ \E s \in Sessions, e \in Entry : Publish(c, s, e),
           asked' \in [Clients -> Seq(Request)],
           UNCHANGED <<writers, order, stream, paused, client, pets, heard, asks>>
    PROVE  TypeInv'
<1>1. TypeOK
  BY DEF TypeInv
<1>2. /\ registry' \in [Sessions -> Entry] /\ past' \in [Sessions -> SUBSET Entry]
      /\ ready' \in Seq(Cast) /\ waits' \in [Clients -> Seq(Cast)]
      /\ news' \in [Widgets -> [Sessions -> News]]
  <2>1. CASE NoChange
    BY <1>1, <2>1 DEF NoChange, TypeOK
  <2>2. ASSUME NEW s \in Sessions, NEW e \in Entry, Publish(c, s, e)
        PROVE  /\ registry' \in [Sessions -> Entry] /\ past' \in [Sessions -> SUBSET Entry]
               /\ ready' \in Seq(Cast) /\ waits' \in [Clients -> Seq(Cast)]
               /\ news' \in [Widgets -> [Sessions -> News]]
    BY <1>1, <2>2, PublishType
  <2> QED  BY <2>1, <2>2
<1>3. /\ task' \in [Clients -> Task] /\ TaskHolds'
      /\ \A d \in Clients : task'[d].phase \in {"sending", "changing"} => task'[d].copy # None
  BY TaskReplaced
<1>4. TypeOK'
  BY <1>1, <1>2, <1>3 DEF TypeOK
<1> QED  BY <1>3, <1>4 DEF TypeInv

\* What a request that is served changes, and what is sent.
LEMMA Requests ==
    ASSUME TypeInv, NEW c \in Clients, Serve(c) \/ Sent(c)
    PROVE  /\ NoChange \/ \E s \in Sessions, e \in Entry : Publish(c, s, e)
           /\ UNCHANGED <<writers, order, stream, paused, client, pets, heard, asks>>
           /\ asked' \in [Clients -> Seq(Request)]
           /\ \E t \in Task : /\ task' = [task EXCEPT ![c] = t] /\ t.request \in Request
                              /\ t.phase \in {"sending", "changing", "replying"}
                              /\ t.phase \in {"sending", "changing"} => t.copy # None
<1>1. TypeOK /\ UNCHANGED <<writers, order, stream, paused, client, pets, heard, asks>>
  BY DEF TypeInv, Serve, Sent, wire, gui
<1>2. CASE Sent(c)
  <2> DEFINE s == task[c].request.session
             e == [task[c].copy EXCEPT !.state = "running"]
             t == [task[c] EXCEPT !.phase = "replying"]
             u == [[task[c] EXCEPT !.phase = "changing"] EXCEPT !.ok = TRUE]
  <2>1. task[c] \in Task /\ task[c].copy # None /\ task[c].request \in Request
    BY <1>1, <1>2 DEF Sent, TypeInv, TypeOK, TaskHolds
  <2>2. s \in Sessions /\ e \in Entry
    BY <2>1 DEF Task, Entry, Status, Request, AttentionState
  <2>3. t \in Task /\ t.phase = "replying" /\ t.request = task[c].request
    BY <2>1, PhaseType
  <2>4. u \in Task /\ u.phase = "changing" /\ u.request = task[c].request /\ u.copy = task[c].copy
    BY <2>1 DEF Task
  <2>5. \/ task' = [task EXCEPT ![c] = t] /\ NoChange
        \/ task' = [task EXCEPT ![c] = u] /\ Publish(c, s, e)
    BY <1>1, <1>2 DEF Sent, TypeOK
  <2>6. asked' \in [Clients -> Seq(Request)]
    BY <1>1, <1>2 DEF Sent, wire, TypeOK
  <2> HIDE DEF s, e, t, u
  <2> QED  BY <1>1, <2>1, <2>2, <2>3, <2>4, <2>5, <2>6
<1>3. CASE Serve(c)
  <2> DEFINE r == Head(asked[c])
             s == r.session
             t(p, ok) == [phase |-> p, request |-> r, copy |-> registry[s], ok |-> ok]
             e == IF r.action = "hide_pet" THEN None ELSE [registry[s] EXCEPT !.unread = FALSE]
  <2>1. asked[c] \in Seq(Request) /\ asked[c] # <<>>
    BY <1>1, <1>3 DEF Serve, TypeOK
  <2>2. r \in Request /\ Tail(asked[c]) \in Seq(Request)
    BY <2>1, WithoutFirst
  <2>3. s \in Sessions
    BY <2>2 DEF Request
  <2>4. asked' \in [Clients -> Seq(Request)]
    BY <1>1, <1>3, <2>2 DEF Serve, TypeOK
  <2>5. registry[s] # None => e \in Entry
    BY <1>1, <2>3 DEF TypeOK, Entry, Status
  <2>6. \A p \in {"sending", "changing", "replying"}, ok \in BOOLEAN :
            /\ t(p, ok) \in Task /\ t(p, ok).phase = p /\ t(p, ok).request = r
            /\ t(p, ok).copy = registry[s]
    BY <1>1, <2>2, <2>3 DEF Task, TypeOK
  <2>7. \/ task' = [task EXCEPT ![c] = t("replying", FALSE)] /\ NoChange
        \/ registry[s] # None /\ task' = [task EXCEPT ![c] = t("sending", FALSE)] /\ NoChange
        \/ registry[s] # None /\ task' = [task EXCEPT ![c] = t("changing", TRUE)] /\ Publish(c, s, e)
    BY <1>3 DEF Serve
  <2> HIDE DEF t, e, s, r
  <2> QED  BY <1>1, <2>2, <2>3, <2>4, <2>5, <2>6, <2>7
<1> QED  BY <1>2, <1>3

\* A report changes the registry.
LEMMA Publishes ==
    ASSUME NEW s \in Sessions, Report(s)
    PROVE  /\ \E e \in Entry : Publish(None, s, e)
           /\ UNCHANGED <<writers, order, task, stream, paused, asked, client, pets, heard, asks>>
<1>1. \A state \in Reported : [state |-> state, unread |-> registry[s] # None] \in Entry
  BY StatesAssumption DEF Status, Entry
<1> QED  BY <1>1 DEF Report, Entry, wire, gui

LEMMA TypeReport ==
    ASSUME TypeInv, NEW s \in Sessions, Report(s) PROVE TypeInv'
<1>1. TypeOK
      /\ UNCHANGED <<writers, order, task, stream, paused, asked, client, pets, heard, asks>>
  BY Publishes DEF TypeInv
<1>2. PICK e \in Entry : Publish(None, s, e)
  BY Publishes
<1>3. /\ registry' \in [Sessions -> Entry] /\ past' \in [Sessions -> SUBSET Entry]
      /\ ready' \in Seq(Cast) /\ waits' \in [Clients -> Seq(Cast)]
      /\ news' \in [Widgets -> [Sessions -> News]]
  BY <1>1, <1>2, PublishType
<1>4. TypeOK'
  BY <1>1, <1>3 DEF TypeOK
<1> QED  BY <1>1, <1>4 DEF TypeInv, TaskHolds

\* What a broadcast's turn changes of the news.
LEMMA ToldNews ==
    ASSUME TypeOK, NEW cast \in Cast, NEW cs, Tell(cast, cs)
    PROVE  /\ news' \in [Widgets -> [Sessions -> News]]
           /\ \A w \in Widgets, s \in Sessions :
                 news'[w][s] = IF w \in cs /\ s = cast.change.session
                               THEN IF cast.newest THEN "told"
                                    ELSE IF news[w][s] = "told" THEN "late" ELSE news[w][s]
                               ELSE news[w][s]
<1> DEFINE r == cast.change.session
           n(w) == IF cast.newest THEN "told" ELSE IF news[w][r] = "told" THEN "late" ELSE news[w][r]
<1>1. r \in Sessions
  BY DEF Cast, Change
<1>2. \A w \in Widgets : news[w] \in [Sessions -> News] /\ n(w) \in News
  BY <1>1 DEF TypeOK, News
<1>3. news' = [w \in Widgets |-> IF w \in cs THEN [news[w] EXCEPT ![r] = n(w)] ELSE news[w]]
  BY DEF Tell
<1> HIDE DEF n, r
<1>4. /\ news' \in [Widgets -> [Sessions -> News]]
      /\ \A w \in Widgets, s \in Sessions :
            news'[w][s] = IF w \in cs /\ s = r THEN n(w) ELSE news[w][s]
  BY <1>1, <1>2, <1>3
<1> QED  BY <1>4 DEF n, r

LEMMA TypeCast ==
    ASSUME TypeInv, CastStep PROVE TypeInv'
<1>1. TypeOK /\ UNCHANGED <<registry, past, order, task, asked, client, pets, heard, asks>>
  BY DEF CastStep, gui, TypeInv
<1>2. PICK cast \in Cast, cs \in SUBSET Clients : Goes(cast, cs)
  BY <1>1, CastSteps
<1>3. /\ ready' \in Seq(Cast) /\ waits' \in [Clients -> Seq(Cast)] /\ writers' \subseteq Clients
      /\ Tell(cast, cs) /\ Write(cs, cast.change)
  BY <1>1, <1>2 DEF Goes, Tell, TypeOK
<1>4. cast.change \in Message
  BY <1>1, BroadcastsType
<1>5. stream' \in [Clients -> Seq(Message)] /\ paused' \subseteq Clients
  BY <1>1, <1>3, <1>4, WriteType
<1>6. news' \in [Widgets -> [Sessions -> News]]
  BY <1>1, <1>3, ToldNews
<1>7. TypeOK'
  BY <1>1, <1>3, <1>5, <1>6 DEF TypeOK
<1> QED  BY <1>1, <1>7 DEF TypeInv, TaskHolds

\* The end of the widget's loop, and clicks.
LEMMA TypeFreeze ==
    ASSUME TypeInv, NEW w \in Widgets, Freeze(w) PROVE TypeInv'
<1>1. w \in Clients /\ TypeOK
  BY DEF TypeInv, Clients
<1>2. UNCHANGED <<registry, past, ready, waits, writers, order, task, stream, paused, asked, pets, heard,
                  news, asks>>
  BY DEF Freeze, server, wire
<1>3. client' \in [Clients -> Phase]
  BY <1>1 DEF Freeze, TypeOK, Phase
<1>4. TypeOK'
  BY <1>1, <1>2, <1>3 DEF TypeOK
<1> QED  BY <1>2, <1>4 DEF TypeInv, TaskHolds

LEMMA TypeClick ==
    ASSUME TypeInv, NEW w \in Widgets, NEW s \in Sessions, NEW action \in Asked,
           OpenPopup(w, s) \/ Submit(w, s, action)
    PROVE  TypeInv'
<1>1. w \in Clients /\ TypeOK
  BY DEF TypeInv, Clients
<1>2. UNCHANGED <<registry, past, ready, waits, writers, order, task, stream, paused, heard, news>>
  BY DEF OpenPopup, Submit, server, gui
<1>4. ASSUME NEW a \in Asked, asked' = [asked EXCEPT ![w] = Append(@, [session |-> s, action |-> a])],
             pets' \in [Widgets -> [Sessions -> Entry]], client' = client,
             asks < MaxAsks, asks' = asks + 1
      PROVE  TypeInv'
  <2>1. [session |-> s, action |-> a] \in Request
    BY DEF Request
  <2>2. Append(asked[w], [session |-> s, action |-> a]) \in Seq(Request)
    BY <1>1, <2>1, WithLast DEF TypeOK
  <2>3. asked' \in [Clients -> Seq(Request)] /\ asks' \in 0 .. MaxAsks
    BY <1>1, <1>4, <2>2, BoundsAssumption DEF TypeOK
  <2>4. TypeOK'
    BY <1>1, <1>2, <1>4, <2>3 DEF TypeOK
  <2> QED  BY <1>2, <1>4, <2>4 DEF TypeInv, TaskHolds
<1>5. CASE OpenPopup(w, s)
  <2> DEFINE pet == [pets[w][s] EXCEPT !.unread = FALSE]
  <2>1. pets[w][s] \in Status
    BY <1>1, <1>5 DEF OpenPopup, TypeOK, Entry
  <2>2. pet \in Entry
    BY <2>1 DEF Status, Entry
  <2>3. pets' = [pets EXCEPT ![w] = [pets[w] EXCEPT ![s] = pet]]
    BY <1>1, <1>5 DEF OpenPopup, TypeOK
  <2> HIDE DEF pet
  <2>4. pets' \in [Widgets -> [Sessions -> Entry]]
    BY <1>1, <2>2, <2>3 DEF TypeOK
  <2> QED  BY <1>4, <1>5, <2>4 DEF OpenPopup, Asked
<1>6. CASE Submit(w, s, action)
  BY <1>1, <1>4, <1>6 DEF Submit, gui, TypeOK
<1> QED  BY <1>5, <1>6

LEMMA TypeStep == TypeInv /\ [Next]_vars => TypeInv'
<1> SUFFICES ASSUME TypeInv, [Next]_vars PROVE TypeInv'
  OBVIOUS
<1>1. ASSUME NEW c \in Clients, Serve(c) \/ Sent(c) PROVE TypeInv'
  BY <1>1, Requests, TypeGoesOn
<1>2. ASSUME NEW c \in Clients, Connect(c) \/ ServerStep(c) PROVE TypeInv'
  BY <1>1, <1>2, TypeConnect, TypeReply, TypeHangup DEF ServerStep
<1>3. ASSUME NEW k \in Commands, CommandStep(k) PROVE TypeInv'
  BY <1>3, TypeAwait, TypeGreet DEF CommandStep
<1>4. ASSUME NEW w \in Widgets, Quit(w) PROVE TypeInv'
  BY <1>4, TypeClosed DEF Quit, Over, Clients
<1>5. ASSUME NEW w \in Widgets, NEW s \in Sessions, NEW action \in Asked,
             OpenPopup(w, s) \/ Submit(w, s, action) PROVE TypeInv'
  BY <1>5, TypeClick
<1>6. CASE UNCHANGED vars
  BY <1>6 DEF vars, server, wire, gui, TypeInv, TypeOK, TaskHolds
<1> QED  BY <1>2, <1>3, <1>4, <1>5, <1>6, TypeCast, TypeReport, TypeListen, TypeFreeze,
            StatesAssumption DEF Next, Asked

-----------------------------------------------------------------------------
(* The last word *)

\* A message that is written is the last word about the sessions it is about.
LEMMA LastWritten ==
    ASSUME NEW q \in Seq(Message), NEW m \in Message, NEW said, NEW entry, NEW s,
           IF About(m, s) THEN Says(m, s) = entry ELSE LastSays(q, said, entry, s)
    PROVE  LastSays(Append(q, m), said, entry, s)
<1> DEFINE r == Append(q, m)
           n == Len(q) + 1
<1>1. /\ Len(q) \in Nat /\ DOMAIN q = 1 .. Len(q) /\ DOMAIN r = 1 .. n
      /\ \A j \in 1 .. Len(q) : r[j] = q[j]
      /\ r[n] = m
  BY WithLast
<1>2. n \in DOMAIN r /\ \A j \in DOMAIN r : j = n \/ (j < n /\ j \in DOMAIN q /\ r[j] = q[j])
  BY <1>1
<1>3. \A j \in DOMAIN q : j \in DOMAIN r /\ r[j] = q[j] /\ j # n
  BY <1>1
<1>4. r[n] = m
  BY <1>1
<1> HIDE DEF r, n
<1>5. CASE About(m, s)
  BY <1>2, <1>4, <1>5 DEF LastSays, r
<1>6. CASE ~About(m, s)
  <2>1. LastSays(q, said, entry, s)
    BY <1>6
  <2>2. ASSUME NEW i \in DOMAIN r, About(r[i], s), \A j \in DOMAIN r : i < j => ~About(r[j], s)
        PROVE  Says(r[i], s) = entry
    <3>1. i \in DOMAIN q /\ r[i] = q[i]
      BY <1>2, <1>4, <1>6, <2>2
    <3>2. \A j \in DOMAIN q : i < j => ~About(q[j], s)
      BY <1>3, <2>2
    <3> QED  BY <2>1, <2>2, <3>1, <3>2 DEF LastSays
  <2>3. ASSUME \A i \in DOMAIN r : ~About(r[i], s) PROVE said = entry
    <3>1. \A i \in DOMAIN q : ~About(q[i], s)
      BY <1>3, <2>3
    <3> QED  BY <2>1, <3>1 DEF LastSays
  <2> QED  BY <2>2, <2>3 DEF LastSays, r
<1> QED  BY <1>5, <1>6

\* A message that is read leaves the last word.
LEMMA LastRead ==
    ASSUME NEW q \in Seq(Message), q # <<>>, NEW said, NEW entry, NEW s,
           LastSays(q, said, entry, s)
    PROVE  LastSays(Tail(q), IF About(q[1], s) THEN Says(q[1], s) ELSE said, entry, s)
<1> DEFINE r == Tail(q)
<1>1. /\ Len(q) \in Nat \ {0} /\ DOMAIN q = 1 .. Len(q) /\ DOMAIN r = 1 .. Len(q) - 1
      /\ \A j \in 1 .. Len(q) - 1 : r[j] = q[j + 1]
  BY WithoutFirst
<1>2. \A j \in DOMAIN r : j \in Int /\ j + 1 \in DOMAIN q /\ r[j] = q[j + 1]
  BY <1>1
<1>3. \A j \in DOMAIN q : j \in Int /\ (j = 1 \/ (j - 1 \in DOMAIN r /\ r[j - 1] = q[j]))
  BY <1>1
<1>4. 1 \in DOMAIN q
  BY <1>1
<1> HIDE DEF r
<1>5. ASSUME NEW i \in DOMAIN r, About(r[i], s), \A j \in DOMAIN r : i < j => ~About(r[j], s)
      PROVE  Says(r[i], s) = entry
  <2>1. ASSUME NEW j \in DOMAIN q, i + 1 < j PROVE ~About(q[j], s)
    <3>1. j # 1 /\ i < j - 1
      BY <1>1, <1>2, <1>3, <2>1
    <3> QED  BY <1>3, <1>5, <3>1
  <2> QED  BY <1>2, <1>5, <2>1 DEF LastSays
<1>6. ASSUME \A i \in DOMAIN r : ~About(r[i], s)
      PROVE  entry = IF About(q[1], s) THEN Says(q[1], s) ELSE said
  <2>1. \A j \in DOMAIN q : j # 1 => ~About(q[j], s)
    BY <1>3, <1>6
  <2>2. \A j \in DOMAIN q : 1 < j => ~About(q[j], s)
    BY <1>1, <2>1
  <2>3. CASE About(q[1], s)
    BY <1>4, <2>2, <2>3 DEF LastSays
  <2>4. CASE ~About(q[1], s)
    BY <2>1, <2>4 DEF LastSays
  <2> QED  BY <2>3, <2>4
<1> QED  BY <1>5, <1>6 DEF LastSays, r

LEMMA InitWordInv == Init => WordInv
<1> SUFFICES ASSUME Init PROVE WordInv
  OBVIOUS
<1>1. Broadcasts = {}
  BY NoElements DEF Init, Broadcasts, Range
<1>2. \A w \in Widgets : ~Listening(w)
  BY DEF Init, Listening, Clients
<1> QED  BY <1>1, <1>2 DEF WordInv, CastsInv, Served, Owed, Told

\* Who is gone stays so.
LEMMA GoneStays ==
    ASSUME TypeOK, [Next]_vars, NEW d \in Clients, Gone(d)
    PROVE  Gone(d)'
<1>1. client \in [Clients -> Phase] /\ Widgets \subseteq Clients /\ Commands \subseteq Clients
  BY DEF TypeOK, Clients
<1>2. ASSUME NEW c \in Clients, NEW p, client' = [client EXCEPT ![c] = p],
             p \in Over \/ ~Gone(c) PROVE Gone(d)'
  BY <1>1, <1>2 DEF Gone
<1>3. ASSUME UNCHANGED client PROVE Gone(d)'
  BY <1>3 DEF Gone
<1>4. ASSUME NEW c \in Clients, Connect(c) PROVE Gone(d)'
  <2>1. client' = [client EXCEPT ![c] = "greeting"] /\ ~Gone(c)
    BY <1>4 DEF Connect, Gone, Over
  <2> QED  BY <1>2, <2>1
<1>5. ASSUME NEW c \in Clients, ServerStep(c) PROVE Gone(d)'
  BY <1>3, <1>5 DEF ServerStep, Sent, Reply, Serve, Hangup, gui
<1>6. ASSUME NEW k \in Commands, NEW s \in Sessions, Greet(k, s) PROVE Gone(d)'
  <2>1. client' = [client EXCEPT ![k] = "waiting"] /\ ~Gone(k)
    BY <1>6 DEF Greet, Gone, Over
  <2> QED  BY <1>1, <1>2, <2>1
<1>7. ASSUME NEW c \in Clients, NEW outcome \in Over, Close(c, outcome) PROVE Gone(d)'
  BY <1>2, <1>7 DEF Close
<1>8. ASSUME NEW k \in Commands, Await(k) \/ TimeOut(k) PROVE Gone(d)'
  BY <1>1, <1>3, <1>7, <1>8 DEF Await, TimeOut, Over
<1>9. ASSUME NEW w \in Widgets, Listen(w) PROVE Gone(d)'
  <2>1. client' = [client EXCEPT ![w] = "on"] /\ ~Gone(w)
    BY <1>9 DEF Listen, Gone, Over
  <2> QED  BY <1>1, <1>2, <2>1
<1>10. ASSUME NEW w \in Widgets, Freeze(w) PROVE Gone(d)'
  <2>1. client' = [client EXCEPT ![w] = "frozen"] /\ ~Gone(w)
    BY <1>10 DEF Freeze, Gone, Over
  <2> QED  BY <1>1, <1>2, <2>1
<1>11. ASSUME NEW w \in Widgets, Quit(w) PROVE Gone(d)'
  BY <1>1, <1>7, <1>11 DEF Quit, Over
<1>12. ASSUME NEW w \in Widgets, NEW s \in Sessions, NEW action,
              OpenPopup(w, s) \/ Submit(w, s, action) PROVE Gone(d)'
  BY <1>3, <1>12 DEF OpenPopup, Submit, gui
<1>13. CASE CastStep \/ (\E s \in Sessions : Report(s)) \/ UNCHANGED vars
  BY <1>3, <1>13 DEF CastStep, Report, vars, gui
<1> QED  BY <1>4, <1>5, <1>6, <1>8, <1>9, <1>10, <1>11, <1>12, <1>13 DEF Next, CommandStep

\* A change is made: who is a writer is owed it.
LEMMA WordPublish ==
    ASSUME TypeInv, WordInv, NEW o \in Clients \cup {None}, NEW s \in Sessions, NEW e \in Entry,
           Publish(o, s, e), UNCHANGED <<writers, stream, client, heard>>
    PROVE  WordInv'
<1> DEFINE f == Fresh(o, s, e)
<1>1. /\ \A r \in Sessions : registry'[r] = IF r = s THEN e ELSE registry[r]
      /\ f \in Cast /\ Broadcasts' = {Out(x, s) : x \in Broadcasts} \cup {f}
      /\ Broadcasts \subseteq Cast /\ \A x \in Cast : x.change.session \in Sessions
  BY PublishType, BroadcastsType DEF TypeInv
<1>2. f.change.session = s /\ f.change.status = e /\ f.newest /\ ~f.begun /\ f.dead = {}
  BY DEF Fresh
<1>3. \A w \in Widgets : w \in writers => \A r \in Sessions :
          news'[w][r] = IF r = s THEN "due" ELSE news[w][r]
  BY DEF Publish, TypeInv, TypeOK
<1>4. UNCHANGED <<writers, stream, client, heard>>
  OBVIOUS
<1> HIDE DEF f
<1>5. CastsInv'
  <2> SUFFICES ASSUME NEW y \in Broadcasts'
               PROVE  /\ y.newest => y.change.status = registry'[y.change.session]
                      /\ \A d \in y.dead : Gone(d)'
    BY DEF CastsInv
  <2>1. CASE y = f
    BY <1>1, <1>2, <2>1
  <2>2. ASSUME NEW x \in Broadcasts, y = Out(x, s)
        PROVE  /\ y.newest => y.change.status = registry'[y.change.session]
               /\ \A d \in y.dead : Gone(d)'
    <3>1. y.change = x.change /\ y.dead = x.dead /\ (y.newest <=> x.newest /\ x.change.session # s)
          /\ x.change.session \in Sessions
      BY <1>1, <2>2, OutType
    <3>2. y.newest => y.change.status = registry'[y.change.session]
      BY <1>1, <3>1 DEF WordInv, CastsInv
    <3>3. \A d \in y.dead : Gone(d)'
      BY <1>4, <3>1 DEF WordInv, CastsInv, Gone
    <3> QED  BY <3>2, <3>3
  <2> QED  BY <1>1, <2>1, <2>2
<1>6. Served'
  BY <1>4 DEF WordInv, Served, Listening
<1>7. ASSUME NEW w \in Widgets, Listening(w)' PROVE Listening(w) /\ w \in writers
  BY <1>4, <1>7 DEF WordInv, Served, Listening
<1>8. Owed'
  <2> SUFFICES ASSUME NEW w \in Widgets, NEW r \in Sessions, Listening(w)', news'[w][r] = "due"
               PROVE  \E y \in Broadcasts' : Owes(y, w, r)
    BY DEF Owed, Owes
  <2>1. CASE r = s
    BY <1>1, <1>2, <2>1 DEF Owes
  <2>2. CASE r # s
    <3>1. news[w][r] = "due" /\ Listening(w)
      BY <1>3, <1>7, <2>2
    <3>2. PICK x \in Broadcasts : Owes(x, w, r)
      BY <3>1 DEF WordInv, Owed
    <3>3. Out(x, s) \in Broadcasts'
      BY <1>1
    <3>4. Owes(Out(x, s), w, r)
      BY <1>1, <2>2, <3>2, OutType DEF Owes
    <3> QED  BY <3>3, <3>4
  <2> QED  BY <2>1, <2>2
<1>9. Told'
  <2> SUFFICES ASSUME NEW w \in Widgets, NEW r \in Sessions, Listening(w)', news'[w][r] = "told"
               PROVE  LastSays(stream'[w], heard'[w][r], registry'[r], r)
    BY DEF Told, LastSays, About, Says
  <2>1. r # s /\ news[w][r] = "told" /\ registry'[r] = registry[r] /\ Listening(w)
    BY <1>1, <1>3, <1>7
  <2> QED  BY <1>4, <2>1 DEF WordInv, Told
<1> QED  BY <1>5, <1>6, <1>8, <1>9 DEF WordInv

\* A broadcast's turn: those it tells have heard, or are to hear, its change last.
LEMMA WordCast ==
    ASSUME TypeInv, WordInv, CastStep PROVE WordInv'
<1>1. TypeOK /\ UNCHANGED <<registry, client, heard>>
  BY DEF CastStep, gui, TypeInv
<1>2. PICK cast \in Cast, cs \in SUBSET Clients : Goes(cast, cs)
  BY <1>1, CastSteps
<1> DEFINE front == Head(ready)
           r == cast.change.session
<1>3. /\ ready # <<>> /\ front \in Cast /\ cast.change = front.change
      /\ cast.newest = front.newest /\ cast.dead = front.dead
      /\ Range(cast.left) = (IF front.begun THEN Range(front.left) ELSE writers)
      /\ Tell(cast, cs) /\ Write(cs, cast.change)
  BY <1>2 DEF Goes, Tell
<1>4. \/ /\ cs = Range(cast.left) /\ Broadcasts' = Others
         /\ writers' = writers \ (cast.dead \cup {c \in cs : Gone(c)})
      \/ /\ UNCHANGED writers
         /\ \E rest \in Cast :
               /\ rest.change = cast.change /\ rest.newest = cast.newest
               /\ rest.dead = cast.dead \cup {c \in cs : Gone(c)}
               /\ Range(cast.left) \ cs \subseteq Range(rest.left)
               /\ Broadcasts' = Others \cup {rest}
  BY <1>2 DEF Goes
<1>5. Broadcasts = Others \cup {front}
  BY <1>1, <1>3, FrontCast
<1>6. /\ cast.newest => cast.change.status = registry[r]
      /\ \A d \in cast.dead : Gone(d)
  BY <1>3, <1>5 DEF WordInv, CastsInv
<1>7. cast.change \in Message /\ cast.change.type = "change" /\ r \in Sessions
  BY <1>1, BroadcastsType
<1>8. \A w \in Widgets, s \in Sessions :
          news'[w][s] = IF w \in cs /\ s = r
                        THEN IF cast.newest THEN "told" ELSE IF news[w][s] = "told" THEN "late" ELSE news[w][s]
                        ELSE news[w][s]
  BY <1>1, <1>3, ToldNews
<1>9. \A c \in Clients : stream'[c] =
          IF c \in cs /\ ~Gone(c) THEN Append(stream[c], cast.change) ELSE stream[c]
  BY <1>1, <1>3, <1>7, WriteType
<1>10. \A w \in Widgets : (Listening(w)' <=> Listening(w)) /\ (Listening(w) => ~Gone(w) /\ w \in writers /\ w \in Clients)
  BY <1>1 DEF Listening, Gone, Over, WordInv, Served, Clients
<1> HIDE DEF front, r
<1>11. CastsInv'
  <2> SUFFICES ASSUME NEW y \in Broadcasts'
               PROVE  /\ y.newest => y.change.status = registry'[y.change.session]
                      /\ \A d \in y.dead : Gone(d)'
    BY DEF CastsInv
  <2>1. CASE y \in Others
    BY <1>1, <1>5, <2>1 DEF WordInv, CastsInv, Gone
  <2>2. ASSUME NEW rest \in Cast, y = rest, rest.change = cast.change, rest.newest = cast.newest,
               rest.dead = cast.dead \cup {c \in cs : Gone(c)}
        PROVE  /\ y.newest => y.change.status = registry'[y.change.session]
               /\ \A d \in y.dead : Gone(d)'
    BY <1>1, <1>6, <2>2 DEF Gone, r
  <2> QED  BY <1>4, <2>1, <2>2
<1>12. Served'
  <2> SUFFICES ASSUME NEW w \in Widgets, Listening(w) PROVE w \in writers'
    BY <1>10 DEF Served
  <2>1. w \in writers /\ ~Gone(w)
    BY <1>10
  <2>2. w \notin cast.dead \cup {c \in cs : Gone(c)}
    BY <1>6, <2>1
  <2> QED  BY <1>4, <2>1, <2>2
<1>13. Owed'
  <2> SUFFICES ASSUME NEW w \in Widgets, NEW s \in Sessions, Listening(w), news'[w][s] = "due"
               PROVE  \E y \in Broadcasts' : Owes(y, w, s)
    BY <1>10 DEF Owed, Owes
  <2>1. news[w][s] = "due" /\ ~(w \in cs /\ s = r /\ cast.newest)
    BY <1>8
  <2>2. PICK x \in Broadcasts : Owes(x, w, s)
    BY <2>1 DEF WordInv, Owed
  <2>3. CASE x \in Others
    BY <1>4, <2>2, <2>3
  <2>4. CASE x = front
    <3>1. cast.newest /\ s = r /\ w \notin cs /\ w \in Range(cast.left)
      BY <1>3, <1>10, <2>1, <2>2, <2>4 DEF Owes, r
    <3>2. PICK rest \in Cast : /\ rest.change = cast.change /\ rest.newest = cast.newest
                               /\ Range(cast.left) \ cs \subseteq Range(rest.left)
                               /\ Broadcasts' = Others \cup {rest}
      BY <1>4, <3>1
    <3>3. Owes(rest, w, s)
      BY <3>1, <3>2 DEF Owes, r
    <3> QED  BY <3>2, <3>3
  <2> QED  BY <1>5, <2>3, <2>4
<1>14. Told'
  <2> SUFFICES ASSUME NEW w \in Widgets, NEW s \in Sessions, Listening(w), news'[w][s] = "told"
               PROVE  LastSays(stream'[w], heard[w][s], registry[s], s)
    BY <1>1, <1>10 DEF Told, LastSays, About, Says
  <2>1. w \in Clients /\ ~Gone(w) /\ stream[w] \in Seq(Message)
    BY <1>1, <1>10 DEF TypeOK
  <2>2. About(cast.change, s) <=> s = r
    BY <1>7 DEF About, r
  <2>3. CASE w \in cs /\ s = r
    <3>1. Says(cast.change, s) = registry[s]
      BY <1>6, <1>7, <1>8, <2>3 DEF Says
    <3> QED  BY <1>7, <1>9, <2>1, <2>2, <2>3, <3>1, LastWritten
  <2>4. CASE ~(w \in cs /\ s = r)
    <3>1. LastSays(stream[w], heard[w][s], registry[s], s)
      BY <1>8, <2>4 DEF WordInv, Told
    <3>2. CASE w \in cs
      BY <1>7, <1>9, <2>1, <2>2, <2>4, <3>1, <3>2, LastWritten
    <3>3. CASE w \notin cs
      BY <1>9, <2>1, <3>1, <3>3
    <3> QED  BY <3>2, <3>3
  <2> QED  BY <2>3, <2>4
<1> QED  BY <1>11, <1>12, <1>13, <1>14 DEF WordInv

\* No broadcast comes, goes or gets on: those that wait may be woken.
StirredOnly ==
    /\ \A y \in Broadcasts' : y \in Broadcasts \/
          \E x \in Broadcasts, c \in Clients, lost \in BOOLEAN :
             y = Woken(x, c, lost) /\ (lost => Gone(c)')
    /\ \A x \in Broadcasts : x \in Broadcasts' \/
          \E c \in Clients, lost \in BOOLEAN : Woken(x, c, lost) \in Broadcasts'

LEMMA WordStirred ==
    ASSUME TypeInv, WordInv, StirredOnly, UNCHANGED <<registry, news>>,
           \A d \in Clients : Gone(d) => Gone(d)',
           \A w \in Widgets : Listening(w)' => Listening(w) /\ w \in writers',
           \A w \in Widgets, s \in Sessions :
              Listening(w)' /\ LastSays(stream[w], heard[w][s], registry[s], s) =>
                 LastSays(stream'[w], heard'[w][s], registry[s], s)
    PROVE  WordInv'
<1>1. Broadcasts \subseteq Cast /\ \A x \in Cast : x.dead \subseteq Clients
  BY BroadcastsType DEF TypeInv, Cast
<1>2. UNCHANGED <<registry, news>>
  OBVIOUS
<1>3. CastsInv'
  <2> SUFFICES ASSUME NEW y \in Broadcasts'
               PROVE  /\ y.newest => y.change.status = registry[y.change.session]
                      /\ \A d \in y.dead : Gone(d)'
    BY <1>2 DEF CastsInv
  <2>1. CASE y \in Broadcasts
    BY <1>1, <2>1 DEF WordInv, CastsInv
  <2>2. ASSUME NEW x \in Broadcasts, NEW c \in Clients, NEW lost \in BOOLEAN,
               y = Woken(x, c, lost), lost => Gone(c)'
        PROVE  /\ y.newest => y.change.status = registry[y.change.session]
               /\ \A d \in y.dead : Gone(d)'
    <3>1. y.change = x.change /\ y.newest = x.newest
          /\ y.dead = (IF lost THEN x.dead \cup {c} ELSE x.dead) /\ x.dead \subseteq Clients
      BY <1>1, <2>2, WokenType
    <3>2. \A d \in x.dead : Gone(d)'
      BY <3>1 DEF WordInv, CastsInv
    <3>3. \A d \in y.dead : Gone(d)'
      BY <2>2, <3>1, <3>2
    <3> QED  BY <3>1, <3>3 DEF WordInv, CastsInv
  <2> QED  BY <2>1, <2>2 DEF StirredOnly
<1>4. Served'
  BY DEF Served
<1>5. Owed'
  <2> SUFFICES ASSUME NEW w \in Widgets, NEW s \in Sessions, Listening(w)', news[w][s] = "due"
               PROVE  \E y \in Broadcasts' : Owes(y, w, s)
    BY <1>2 DEF Owed, Owes
  <2>1. PICK x \in Broadcasts : Owes(x, w, s)
    BY DEF WordInv, Owed
  <2>2. x \in Cast
    BY <1>1
  <2>3. ASSUME NEW c \in Clients, NEW lost \in BOOLEAN, Woken(x, c, lost) \in Broadcasts'
        PROVE  \E y \in Broadcasts' : Owes(y, w, s)
    <3>1. PICK y : y = Woken(x, c, lost)
      OBVIOUS
    <3>2. y.change = x.change /\ y.begun = x.begun /\ y.left = x.left /\ y.newest = x.newest
      BY <2>2, <3>1, WokenSame
    <3>3. Owes(y, w, s)
      BY <2>1, <3>2 DEF Owes
    <3> QED  BY <2>3, <3>1, <3>3
  <2> QED  BY <2>1, <2>3 DEF StirredOnly
<1>6. Told'
  <2> SUFFICES ASSUME NEW w \in Widgets, NEW s \in Sessions, Listening(w)', news[w][s] = "told"
               PROVE  LastSays(stream'[w], heard'[w][s], registry[s], s)
    BY <1>2 DEF Told, LastSays, About, Says
  <2>1. LastSays(stream[w], heard[w][s], registry[s], s)
    BY DEF WordInv, Told
  <2> QED  BY <2>1
<1> QED  BY <1>3, <1>4, <1>5, <1>6 DEF WordInv

\* A step that leaves the messages to widgets alone, but for one that is lost.
LEMMA WordKept ==
    ASSUME TypeInv, WordInv, StirredOnly, UNCHANGED <<registry, news, heard>>,
           \A d \in Clients : Gone(d) => Gone(d)',
           \A w \in Widgets : Listening(w)' => Listening(w) /\ w \in writers' /\ stream'[w] = stream[w]
    PROVE  WordInv'
  BY WordStirred

LEMMA WordConnect ==
    ASSUME TypeInv, WordInv, NEW c \in Clients, Connect(c) PROVE WordInv'
<1> DEFINE m == [type |-> "snapshot", sessions |-> registry]
<1>1. TypeOK /\ Widgets \subseteq Clients
  BY DEF TypeInv, Clients
<1>2. /\ client[c] = "off" /\ client' = [client EXCEPT ![c] = "greeting"] /\ Write({c}, m)
      /\ writers' = writers \cup {c}
      /\ news' = [w \in Widgets |-> IF w = c THEN [s \in Sessions |-> "told"] ELSE news[w]]
      /\ UNCHANGED <<registry, ready, waits, heard>>
  BY DEF Connect, Send
<1>3. m \in Message /\ \A s : About(m, s) /\ Says(m, s) = registry[s]
  BY <1>1 DEF TypeOK, Message, About, Says
<1> HIDE DEF m
<1>4. \A d \in Clients : stream'[d] = IF d = c /\ ~Gone(d) THEN Append(stream[d], m) ELSE stream[d]
  BY <1>1, <1>2, <1>3, WriteType
<1>5. \A w \in Widgets : w # c => (Listening(w)' <=> Listening(w)) /\ news'[w] = news[w]
  BY <1>1, <1>2 DEF Listening, TypeOK
<1>6. Broadcasts' = Broadcasts /\ \A d \in Clients : Gone(d) => Gone(d)'
  BY <1>1, <1>2 DEF Broadcasts, Gone, Over, TypeOK
<1>7. CastsInv'
  <2>1. \A x \in Broadcasts : x.dead \subseteq Clients
    BY <1>1, BroadcastsType DEF Cast
  <2> QED  BY <1>2, <1>6, <2>1 DEF WordInv, CastsInv
<1>8. Served'
  BY <1>2, <1>5 DEF WordInv, Served
<1>9. Owed'
  <2> SUFFICES ASSUME NEW w \in Widgets, NEW s \in Sessions, Listening(w)', news'[w][s] = "due"
               PROVE  \E y \in Broadcasts : Owes(y, w, s)
    BY <1>6 DEF Owed, Owes
  <2>1. w # c
    BY <1>2
  <2> QED  BY <1>5, <2>1 DEF WordInv, Owed
<1>10. Told'
  <2> SUFFICES ASSUME NEW w \in Widgets, NEW s \in Sessions, Listening(w)', news'[w][s] = "told"
               PROVE  LastSays(stream'[w], heard[w][s], registry[s], s)
    BY <1>2 DEF Told, LastSays, About, Says
  <2>1. CASE w = c
    <3>1. ~Gone(w) /\ stream[w] \in Seq(Message)
      BY <1>1, <1>2, <2>1 DEF Gone, Over, TypeOK
    <3> QED  BY <1>3, <1>4, <2>1, <3>1, LastWritten
  <2>2. CASE w # c
    BY <1>1, <1>4, <1>5, <2>2 DEF WordInv, Told
  <2> QED  BY <2>1, <2>2
<1> QED  BY <1>7, <1>8, <1>9, <1>10 DEF WordInv

LEMMA WordReply ==
    ASSUME TypeInv, WordInv, NEW c \in Clients, Reply(c) PROVE WordInv'
<1> DEFINE r == task[c].request
           m == [type |-> "action_result", session |-> r.session, action |-> r.action,
                 ok |-> task[c].ok]
<1>1. TypeOK /\ task[c] \in Task /\ r \in Request /\ Widgets \subseteq Clients
  BY DEF Reply, TypeInv, TypeOK, TaskHolds, Clients
<1>2. m \in Message /\ \A s : ~About(m, s)
  BY <1>1 DEF Task, Request, Message, About
<1>3. Write({c}, m) /\ NoChange /\ UNCHANGED <<writers, client, heard>>
  BY DEF Reply, gui
<1> HIDE DEF m, r
<1>4. \A d \in Clients : stream'[d] = IF d \in {c} /\ ~Gone(d) THEN Append(stream[d], m) ELSE stream[d]
  BY <1>1, <1>2, <1>3, WriteType
<1>5. StirredOnly
  BY <1>3 DEF NoChange, StirredOnly, Broadcasts
<1>6. ASSUME NEW w \in Widgets, NEW s \in Sessions, LastSays(stream[w], heard[w][s], registry[s], s)
      PROVE  LastSays(stream'[w], heard'[w][s], registry[s], s)
  <2>1. heard' = heard /\ stream[w] \in Seq(Message) /\ ~About(m, s) /\ w \in Clients
    BY <1>1, <1>2, <1>3 DEF TypeOK
  <2>2. LastSays(Append(stream[w], m), heard[w][s], registry[s], s)
    BY <1>2, <1>6, <2>1, LastWritten
  <2> QED  BY <1>4, <1>6, <2>1, <2>2
<1>7. \A w \in Widgets : Listening(w)' => Listening(w) /\ w \in writers'
  BY <1>3 DEF Listening, WordInv, Served
<1> QED  BY <1>3, <1>5, <1>6, <1>7, WordStirred DEF NoChange, Gone

\* What a widget has heard once it listens.
LEMMA HeardAfter ==
    ASSUME TypeOK, NEW w \in Widgets, Listen(w)
    PROVE  /\ stream[w] \in Seq(Message) /\ stream[w] # <<>> /\ stream'[w] = Tail(stream[w])
           /\ stream[w][1] \in Message
           /\ \A s \in Sessions : heard'[w][s] =
                 IF About(stream[w][1], s) THEN Says(stream[w][1], s) ELSE heard[w][s]
           /\ \A v \in Widgets : /\ v # w => stream'[v] = stream[v] /\ heard'[v] = heard[v]
                                 /\ Listening(v)' <=> Listening(v)
           /\ pets' = [pets EXCEPT ![w] = Applied(w, stream[w][1])]
           /\ UNCHANGED <<registry, past, asked, asks>>
<1> DEFINE m == stream[w][1]
<1>1. w \in Clients /\ stream[w] \in Seq(Message) /\ stream[w] # <<>> /\ client \in [Clients -> Phase]
      /\ stream \in [Clients -> Seq(Message)] /\ heard \in [Widgets -> [Sessions -> Entry]]
      /\ Widgets \subseteq Clients
  BY DEF Listen, Take, TypeOK, Clients
<1>2. Head(stream[w]) = m /\ m \in Message
  BY <1>1, WithoutFirst
<1>3. stream' = [stream EXCEPT ![w] = Tail(stream[w])]
  BY DEF Listen, Take
<1>4. client' = [client EXCEPT ![w] = "on"] /\ client[w] \in {"greeting", "on"}
  BY DEF Listen
<1>5. heard' = [heard EXCEPT ![w] =
           CASE m.type = "snapshot" -> m.sessions
             [] m.type = "change"   -> [heard[w] EXCEPT ![m.session] = m.status]
             [] OTHER               -> heard[w]]
      /\ pets' = [pets EXCEPT ![w] = Applied(w, m)]
  BY <1>2 DEF Listen
<1>6. UNCHANGED <<registry, past, asked, asks>>
  BY DEF Listen, Take
<1> HIDE DEF m
<1>7. \A s \in Sessions : heard'[w][s] = IF About(m, s) THEN Says(m, s) ELSE heard[w][s]
  <2> TAKE s \in Sessions
  <2>1. heard[w] \in [Sessions -> Entry]
    BY <1>1
  <2>2. CASE m.type = "snapshot"
    BY <1>1, <1>5, <2>2 DEF About, Says
  <2>3. CASE m.type = "change"
    BY <1>1, <1>2, <1>5, <2>1, <2>3, MessageKinds DEF About, Says
  <2>4. CASE m.type = "action_result"
    BY <1>1, <1>5, <2>4 DEF About
  <2> QED  BY <1>2, <2>2, <2>3, <2>4, MessageKinds
<1>8. \A v \in Widgets : /\ v # w => stream'[v] = stream[v] /\ heard'[v] = heard[v]
                         /\ Listening(v)' <=> Listening(v)
  BY <1>1, <1>3, <1>4, <1>5 DEF Listening
<1> QED  BY <1>1, <1>2, <1>3, <1>5, <1>6, <1>7, <1>8 DEF m

\* A client that takes a message, or is lost, stirs broadcasts at most.
LEMMA EasedStirs ==
    ASSUME TypeOK, NEW c \in Clients, Eased(c)
    PROVE  StirredOnly /\ UNCHANGED <<writers, news>>
  BY DEF Eased, Stirs, StirredOnly

LEMMA WordListen ==
    ASSUME TypeInv, WordInv, NEW w \in Widgets, Listen(w), \A d \in Clients : Gone(d) => Gone(d)'
    PROVE  WordInv'
<1>1. TypeOK /\ w \in Clients
  BY DEF TypeInv, Clients
<1>2. StirredOnly /\ UNCHANGED <<writers, news>>
  BY <1>1, Eases, EasedStirs DEF Listen, Over
<1>3. /\ stream[w] \in Seq(Message) /\ stream[w] # <<>> /\ stream'[w] = Tail(stream[w])
      /\ \A s \in Sessions : heard'[w][s] =
            IF About(stream[w][1], s) THEN Says(stream[w][1], s) ELSE heard[w][s]
      /\ \A v \in Widgets : /\ v # w => stream'[v] = stream[v] /\ heard'[v] = heard[v]
                            /\ Listening(v)' <=> Listening(v)
      /\ UNCHANGED registry
  BY <1>1, HeardAfter
<1>4. ASSUME NEW v \in Widgets, NEW s \in Sessions, LastSays(stream[v], heard[v][s], registry[s], s)
      PROVE  LastSays(stream'[v], heard'[v][s], registry[s], s)
  <2>1. CASE v = w
    <3>1. LastSays(Tail(stream[w]), IF About(stream[w][1], s) THEN Says(stream[w][1], s) ELSE heard[w][s],
                   registry[s], s)
      BY <1>3, <1>4, <2>1, LastRead
    <3> QED  BY <1>3, <2>1, <3>1
  <2>2. CASE v # w
    BY <1>3, <1>4, <2>2
  <2> QED  BY <2>1, <2>2
<1>5. \A v \in Widgets : Listening(v)' => Listening(v) /\ v \in writers'
  BY <1>2, <1>3 DEF WordInv, Served
<1> QED  BY <1>2, <1>3, <1>4, <1>5, WordStirred

LEMMA WordCommand ==
    ASSUME TypeInv, WordInv, NEW k \in Commands, CommandStep(k), \A d \in Clients : Gone(d) => Gone(d)'
    PROVE  WordInv'
<1>1. k \in Clients /\ k \notin Widgets /\ Widgets \subseteq Clients /\ TypeOK
  BY ClientsAssumption DEF TypeInv, Clients
<1>2. UNCHANGED <<registry, heard>>
  BY DEF CommandStep, Await, TimeOut, Greet
<1>3. \A w \in Widgets : client'[w] = client[w] /\ stream'[w] = stream[w]
  BY <1>1 DEF CommandStep, Await, TimeOut, Greet, Take, Close, TypeOK
<1>4. \E outcome \in Over : Take(k) \/ Close(k, outcome)
  BY DEF CommandStep, Await, TimeOut, Greet, Over
<1>5. StirredOnly /\ UNCHANGED <<writers, news>>
  BY <1>1, <1>4, Eases, EasedStirs
<1>6. \A w \in Widgets : Listening(w)' => Listening(w) /\ w \in writers' /\ stream'[w] = stream[w]
  BY <1>3, <1>5 DEF Listening, WordInv, Served
<1> QED  BY <1>2, <1>5, <1>6, WordKept

LEMMA WordStep == TypeInv /\ WordInv /\ [Next]_vars => WordInv'
<1> SUFFICES ASSUME TypeInv, WordInv, [Next]_vars PROVE WordInv'
  OBVIOUS
<1>0. TypeOK /\ Widgets \subseteq Clients /\ \A d \in Clients : Gone(d) => Gone(d)'
  BY GoneStays DEF TypeInv, Clients
<1>1. \A w \in Widgets : Listening(w) => w \in writers /\ ~Gone(w)
  BY DEF WordInv, Served, Listening, Gone, Over
<1>2. ASSUME UNCHANGED <<registry, ready, waits, news, stream, heard>>,
             \A w \in Widgets : Listening(w)' => Listening(w),
             \A w \in Widgets : Listening(w) => w \in writers' PROVE WordInv'
  <2>1. StirredOnly
    BY <1>2 DEF StirredOnly, Broadcasts
  <2> QED  BY <1>0, <1>2, <2>1, WordKept
<1>3. ASSUME UNCHANGED <<registry, ready, waits, news, stream, heard, client, writers>> PROVE WordInv'
  BY <1>1, <1>2, <1>3 DEF Listening
<1>4. ASSUME NEW s \in Sessions, Report(s) PROVE WordInv'
  BY <1>4, Publishes, WordPublish
<1>5. ASSUME NEW c \in Clients, Serve(c) \/ Sent(c) PROVE WordInv'
  <2>1. NoChange \/ \E s \in Sessions, e \in Entry : Publish(c, s, e)
    BY <1>5, Requests
  <2>2. UNCHANGED <<writers, stream, client, heard>>
    BY <1>5, Requests
  <2> QED  BY <1>3, <2>1, <2>2, WordPublish DEF NoChange
<1>6. ASSUME NEW c \in Clients, Hangup(c) PROVE WordInv'
  <2>1. /\ UNCHANGED <<registry, ready, waits, news, stream, heard, client>>
        /\ writers' = writers \ {c} /\ Gone(c)
    BY <1>6 DEF Hangup, NoChange, wire, gui
  <2>2. \A w \in Widgets : (Listening(w)' <=> Listening(w)) /\ (Listening(w) => w \in writers')
    BY <1>1, <2>1 DEF Listening
  <2> QED  BY <1>2, <2>1, <2>2
<1>7. ASSUME NEW w \in Widgets, Quit(w) PROVE WordInv'
  <2>1. StirredOnly /\ UNCHANGED <<writers, news>> /\ UNCHANGED <<registry, heard>>
    BY <1>0, <1>7, Eases, EasedStirs DEF Quit, Over
  <2>2. client' = [client EXCEPT ![w] = "gone"] /\ stream' = [stream EXCEPT ![w] = <<>>]
    BY <1>7 DEF Quit, Close
  <2>3. \A v \in Widgets : Listening(v)' => Listening(v) /\ stream'[v] = stream[v]
    BY <1>0, <2>2 DEF Listening, TypeOK
  <2> QED  BY <1>0, <1>1, <2>1, <2>3, WordKept
<1>8. ASSUME NEW w \in Widgets, Freeze(w) PROVE WordInv'
  <2>1. client' = [client EXCEPT ![w] = "frozen"] /\ client[w] = "on"
        /\ UNCHANGED <<registry, ready, waits, news, stream, heard, writers>>
    BY <1>8 DEF Freeze, server, wire
  <2>2. \A v \in Widgets : Listening(v)' => Listening(v)
    BY <1>0, <2>1 DEF Listening, TypeOK
  <2> QED  BY <1>1, <1>2, <2>1, <2>2
<1>9. ASSUME NEW w \in Widgets, NEW s \in Sessions, NEW action \in Asked,
             OpenPopup(w, s) \/ Submit(w, s, action) PROVE WordInv'
  BY <1>3, <1>9 DEF OpenPopup, Submit, server, gui
<1>10. CASE UNCHANGED vars
  BY <1>3, <1>10 DEF vars, server, wire, gui
<1>11. ASSUME NEW c \in Clients, Connect(c) \/ ServerStep(c) PROVE WordInv'
  BY <1>5, <1>6, <1>11, WordConnect, WordReply DEF ServerStep
<1>12. ASSUME NEW k \in Commands, CommandStep(k) PROVE WordInv'
  BY <1>0, <1>12, WordCommand
<1>13. ASSUME NEW w \in Widgets, Listen(w) PROVE WordInv'
  BY <1>0, <1>13, WordListen
<1>14. CASE CastStep
  BY <1>14, WordCast
<1> QED  BY <1>4, <1>7, <1>8, <1>9, <1>10, <1>11, <1>12, <1>13, <1>14, StatesAssumption DEF Next, Asked

-----------------------------------------------------------------------------
(* Clicks and their answers *)

LEMMA InitUnasked == Init => Unasked /\ PetsFollow
  BY DEF Init, Unasked, PetsFollow, Clients, Nothing

\* A step without a click, that hands widgets only what is no answer and makes
\* no task of theirs do what only a click asks for.
LEMMA UnaskedKept ==
    ASSUME TypeOK, Unasked, asks' = asks,
           asks = 0 => \A w \in Widgets :
              /\ asked'[w] = asked[w]
              /\ task'[w].phase \in {task[w].phase, "none", "reading", "draining"}
              /\ \/ stream'[w] = stream[w] \/ stream'[w] = <<>>
                 \/ stream[w] # <<>> /\ stream'[w] = Tail(stream[w])
                 \/ \E m \in Message : m.type # "action_result" /\ stream'[w] = Append(stream[w], m)
    PROVE  Unasked'
<1> SUFFICES ASSUME asks = 0, NEW w \in Widgets
             PROVE  /\ asked'[w] = <<>> /\ task'[w].phase \in {"none", "reading", "draining"}
                    /\ \A i \in DOMAIN stream'[w] : stream'[w][i].type # "action_result"
  BY DEF Unasked
<1> DEFINE q == stream[w]
<1>1. /\ asked[w] = <<>> /\ task[w].phase \in {"none", "reading", "draining"}
      /\ \A i \in DOMAIN q : q[i].type # "action_result"
  BY DEF Unasked
<1>2. q \in Seq(Message)
  BY DEF TypeOK, Clients
<1>3. \/ stream'[w] = q \/ stream'[w] = <<>>
      \/ q # <<>> /\ stream'[w] = Tail(q)
      \/ \E m \in Message : m.type # "action_result" /\ stream'[w] = Append(q, m)
  OBVIOUS
<1>4. asked'[w] = asked[w] /\ task'[w].phase \in {task[w].phase, "none", "reading", "draining"}
  OBVIOUS
<1> HIDE DEF q
<1>5. CASE stream'[w] = <<>>
  BY <1>1, <1>4, <1>5, NoElements
<1>6. CASE q # <<>> /\ stream'[w] = Tail(q)
  <2>1. /\ DOMAIN q = 1 .. Len(q) /\ DOMAIN Tail(q) = 1 .. Len(q) - 1 /\ Len(q) \in Nat \ {0}
        /\ \A j \in 1 .. Len(q) - 1 : Tail(q)[j] = q[j + 1]
    BY <1>2, <1>6, WithoutFirst
  <2>2. \A j \in DOMAIN Tail(q) : j + 1 \in DOMAIN q /\ Tail(q)[j] = q[j + 1]
    BY <2>1
  <2> QED  BY <1>1, <1>4, <1>6, <2>2
<1>7. ASSUME NEW m \in Message, m.type # "action_result", stream'[w] = Append(q, m)
      PROVE  \A i \in DOMAIN stream'[w] : stream'[w][i].type # "action_result"
  <2>1. /\ DOMAIN q = 1 .. Len(q) /\ DOMAIN Append(q, m) = 1 .. Len(q) + 1 /\ Len(q) \in Nat
        /\ \A j \in 1 .. Len(q) : Append(q, m)[j] = q[j]
        /\ Append(q, m)[Len(q) + 1] = m
    BY <1>2, WithLast
  <2>2. \A j \in DOMAIN Append(q, m) : \/ j \in DOMAIN q /\ Append(q, m)[j] = q[j]
                                       \/ Append(q, m)[j] = m
    BY <2>1
  <2> QED  BY <1>1, <1>7, <2>2
<1> QED  BY <1>1, <1>3, <1>4, <1>5, <1>6, <1>7

\* A message that is written to some connections.
LEMMA WrittenTo ==
    ASSUME TypeOK, NEW cs, NEW m \in Message, Write(cs, m), m.type # "action_result"
    PROVE  \A d \in Clients :
              \/ stream'[d] = stream[d]
              \/ \E n \in Message : n.type # "action_result" /\ stream'[d] = Append(stream[d], n)
  BY WriteType

\* A broadcast tells nobody an answer.
LEMMA UnaskedCast ==
    ASSUME TypeInv, Unasked, CastStep PROVE Unasked'
<1>1. TypeOK /\ UNCHANGED <<task, asked, asks>> /\ Widgets \subseteq Clients
  BY DEF CastStep, TypeInv, Clients
<1>2. PICK cast \in Cast, cs \in SUBSET Clients : Goes(cast, cs)
  BY <1>1, CastSteps
<1>3. cast.change \in Message /\ cast.change.type # "action_result"
  BY <1>1, BroadcastsType
<1>4. Write(cs, cast.change)
  BY <1>2 DEF Goes, Tell
<1>5. \A w \in Widgets : \/ stream'[w] = stream[w]
                         \/ \E m \in Message : m.type # "action_result" /\ stream'[w] = Append(stream[w], m)
  BY <1>1, <1>3, <1>4, WrittenTo
<1> QED  BY <1>1, <1>5, UnaskedKept

\* A client that takes a message, or leaves.
LEMMA UnaskedEased ==
    ASSUME TypeInv, Unasked, NEW c \in Clients, NEW outcome \in Over, Take(c) \/ Close(c, outcome),
           asks' = asks, \A w \in Widgets : asked'[w] = asked[w]
    PROVE  Unasked'
<1>1. TypeOK /\ Widgets \subseteq Clients /\ TasksGoOn
  BY Eases DEF Eased, TypeInv, Clients
<1>2. \A w \in Widgets : task'[w].phase \in {task[w].phase, "none", "reading", "draining"}
  BY <1>1 DEF TasksGoOn
<1>3. \A w \in Widgets : \/ stream'[w] = stream[w] \/ stream'[w] = <<>>
                         \/ stream[w] # <<>> /\ stream'[w] = Tail(stream[w])
  BY <1>1 DEF Take, Close, TypeOK
<1> QED  BY <1>1, <1>2, <1>3, UnaskedKept

\* The tasks of connections: without a click, those of widgets have nothing to do.
LEMMA UnaskedServer ==
    ASSUME TypeInv, Unasked, NEW c \in Clients, Connect(c) \/ ServerStep(c) PROVE Unasked'
<1>1. TypeOK /\ Widgets \subseteq Clients /\ asks' = asks /\ task \in [Clients -> Task]
  BY DEF Connect, ServerStep, Sent, Reply, Serve, Hangup, TypeInv, TypeOK, Clients
<1>2. CASE Connect(c)
  <2> DEFINE m == [type |-> "snapshot", sessions |-> registry]
  <2>1. m \in Message /\ m.type # "action_result" /\ Write({c}, m)
    BY <1>1, <1>2 DEF Connect, Send, TypeOK, Message
  <2>2. \E p \in {"draining", "reading"} : task' = [task EXCEPT ![c].phase = p]
    BY <1>2 DEF Connect, Send
  <2>3. \A w \in Widgets : task'[w].phase \in {task[w].phase, "reading", "draining"}
    BY <1>1, <2>2 DEF Task
  <2>4. asked' = asked
    BY <1>2 DEF Connect
  <2> HIDE DEF m
  <2> QED  BY <1>1, <2>1, <2>3, <2>4, WrittenTo, UnaskedKept
<1>3. CASE Hangup(c)
  <2>1. task' = [task EXCEPT ![c].phase = "none"] /\ UNCHANGED <<stream, asked>>
    BY <1>3 DEF Hangup, wire
  <2>2. \A w \in Widgets : task'[w].phase \in {task[w].phase, "none"}
    BY <1>1, <2>1 DEF Task
  <2> QED  BY <1>1, <2>1, <2>2, UnaskedKept
<1>4. CASE Serve(c) \/ Sent(c) \/ Reply(c)
  <2>1. asks = 0 => c \notin Widgets
    BY <1>4 DEF Serve, Sent, Reply, Unasked
  <2>2. \A w \in Widgets : w # c => asked'[w] = asked[w] /\ task'[w] = task[w]
    BY <1>1, <1>4 DEF Serve, Sent, Reply, wire, TypeOK
  <2>3. \A w \in Widgets : w # c => stream'[w] = stream[w]
    BY <1>1, <1>4 DEF Serve, Sent, Reply, wire, Write, Written
  <2> QED  BY <1>1, <2>1, <2>2, <2>3, UnaskedKept
<1> QED  BY <1>2, <1>3, <1>4 DEF ServerStep

LEMMA UnaskedStep == TypeInv /\ Unasked /\ [Next]_vars => Unasked'
<1> SUFFICES ASSUME TypeInv, Unasked, [Next]_vars PROVE Unasked'
  OBVIOUS
<1>0. TypeOK /\ Widgets \subseteq Clients /\ Commands \subseteq Clients
      /\ asks \in Nat /\ asked \in [Clients -> Seq(Request)]
  BY BoundsAssumption DEF TypeInv, TypeOK, Clients
<1>1. CASE UNCHANGED vars
  BY <1>1 DEF vars, server, wire, Unasked
<1>2. CASE CastStep
  BY <1>2, UnaskedCast
<1>3. ASSUME NEW s \in Sessions, Report(s) PROVE Unasked'
  BY <1>3 DEF Report, wire, Unasked
<1>4. ASSUME NEW c \in Clients, Connect(c) \/ ServerStep(c) PROVE Unasked'
  BY <1>4, UnaskedServer
<1>5. ASSUME NEW k \in Commands, CommandStep(k) PROVE Unasked'
  <2>1. k \in Clients /\ k \notin Widgets
    BY <1>0, ClientsAssumption
  <2>2. asks' = asks /\ \A w \in Widgets : asked'[w] = asked[w]
    BY <1>0, <1>5, <2>1 DEF CommandStep, Await, TimeOut, Greet
  <2>3. \E outcome \in Over : Take(k) \/ Close(k, outcome)
    BY <1>5 DEF CommandStep, Await, TimeOut, Greet, Over
  <2> QED  BY <2>1, <2>2, <2>3, UnaskedEased
<1>6. ASSUME NEW w \in Widgets, Listen(w) \/ Quit(w) PROVE Unasked'
  <2>1. asks' = asks /\ asked' = asked
    BY <1>6 DEF Listen, Quit
  <2>2. \E outcome \in Over : Take(w) \/ Close(w, outcome)
    BY <1>6 DEF Listen, Quit, Over
  <2> QED  BY <1>0, <2>1, <2>2, UnaskedEased
<1>7. ASSUME NEW w \in Widgets, Freeze(w) PROVE Unasked'
  BY <1>7 DEF Freeze, server, wire, Unasked
<1>8. ASSUME NEW w \in Widgets, NEW s \in Sessions, NEW action \in Asked,
             OpenPopup(w, s) \/ Submit(w, s, action) PROVE Unasked'
  <2>1. asks' = asks + 1
    BY <1>8 DEF OpenPopup, Submit
  <2> QED  BY <1>0, <2>1 DEF Unasked
<1> QED  BY <1>1, <1>2, <1>3, <1>4, <1>5, <1>6, <1>7, <1>8, StatesAssumption DEF Next, Asked

\* How far a pet that shows pet may be from what its widget has heard of it.
Astray(pet, said) ==
    /\ pet # None /\ said # None
    /\ pet.state \in {said.state, "running"} /\ (pet.unread => said.unread)

\* A message leaves pets as far from what is heard as an answer may say.
LEMMA AppliedFollows ==
    ASSUME TypeOK, Unasked, PetsFollow, NEW w \in Widgets, Listen(w), NEW s \in Sessions
    PROVE  pets'[w][s] # heard'[w][s] => asks > 0 /\ Astray(pets'[w][s], heard'[w][s])
<1> DEFINE m == stream[w][1]
<1>1. /\ stream[w] # <<>> /\ stream[w] \in Seq(Message) /\ m \in Message
      /\ heard'[w][s] = (IF About(m, s) THEN Says(m, s) ELSE heard[w][s])
      /\ pets' = [pets EXCEPT ![w] = Applied(w, m)]
  BY HeardAfter
<1>2. /\ pets \in [Widgets -> [Sessions -> Entry]] /\ heard \in [Widgets -> [Sessions -> Entry]]
      /\ asks \in Nat
  BY BoundsAssumption DEF TypeOK
<1>3. pets'[w][s] = Applied(w, m)[s]
  BY <1>1, <1>2
<1>4. pets[w][s] # heard[w][s] => asks > 0 /\ Astray(pets[w][s], heard[w][s])
  BY DEF PetsFollow, Astray
<1>5. m.type = "action_result" => asks > 0
  <2>1. 1 \in DOMAIN stream[w]
    BY <1>1, WithoutFirst
  <2> QED  BY <1>2, <2>1 DEF Unasked
<1> HIDE DEF m
<1>6. CASE m.type = "snapshot"
  BY <1>1, <1>3, <1>6 DEF Applied, About, Says
<1>7. CASE m.type = "change"
  <2>1. Applied(w, m) = [pets[w] EXCEPT ![m.session] = m.status] /\ m.session \in Sessions
    BY <1>1, <1>7, MessageKinds DEF Applied
  <2>2. CASE m.session = s
    BY <1>1, <1>2, <1>3, <1>7, <2>1, <2>2 DEF About, Says
  <2>3. CASE m.session # s
    BY <1>1, <1>2, <1>3, <1>4, <1>7, <2>1, <2>3 DEF About
  <2> QED  BY <2>2, <2>3
<1>8. CASE m.type = "action_result"
  <2>1. heard'[w][s] = heard[w][s] /\ asks > 0 /\ m.session \in Sessions
    BY <1>1, <1>5, <1>8, MessageKinds DEF About
  <2>2. CASE pets[w][m.session] = None \/ ~m.ok \/ m.session # s
    <3>1. pets'[w][s] = pets[w][s]
      BY <1>2, <1>3, <1>8, <2>1, <2>2 DEF Applied
    <3> QED  BY <1>4, <2>1, <3>1
  <2>3. CASE ~(pets[w][m.session] = None \/ ~m.ok \/ m.session # s)
    <3> DEFINE pet == pets[w][s]
               st  == IF m.action = "send_reply" THEN "running" ELSE pet.state
               un  == pet.unread /\ m.action # "mark_read"
               new == [[pet EXCEPT !.state = st] EXCEPT !.unread = un]
    <3>1. pet \in Status /\ m.session = s
      BY <1>2, <2>3 DEF Entry
    <3>2. Applied(w, m) = [pets[w] EXCEPT ![s] = new]
      BY <1>2, <1>8, <2>1, <2>3, <3>1 DEF Applied, Status
    <3>3. pets'[w][s] = new
      BY <1>2, <1>3, <3>2
    <3>4. new \in Status /\ new.state = st /\ new.unread = un
      BY <3>1 DEF Status, AttentionState
    <3>5. new # None /\ pet # None
      BY <3>1, <3>4, NoneAssumption
    <3>6. heard[w][s] # None /\ pet.state \in {heard[w][s].state, "running"}
          /\ (pet.unread => heard[w][s].unread)
      BY <1>4, <3>5 DEF Astray
    <3>7. st \in {heard[w][s].state, "running"} /\ (un => heard[w][s].unread)
      BY <3>6
    <3> HIDE DEF new, st, un, pet
    <3> QED  BY <2>1, <3>3, <3>4, <3>5, <3>6, <3>7 DEF Astray
  <2> QED  BY <2>2, <2>3
<1> QED  BY <1>1, <1>6, <1>7, <1>8, MessageKinds

LEMMA PetsFollowStep == TypeInv /\ Unasked /\ PetsFollow /\ [Next]_vars => PetsFollow'
<1> SUFFICES ASSUME TypeInv, Unasked, PetsFollow, [Next]_vars PROVE PetsFollow'
  OBVIOUS
<1>0. /\ pets \in [Widgets -> [Sessions -> Entry]] /\ heard \in [Widgets -> [Sessions -> Entry]]
      /\ asks \in Nat /\ TypeOK
  BY BoundsAssumption DEF TypeInv, TypeOK
<1>1. ASSUME UNCHANGED <<pets, heard>>, asks' = asks \/ asks' = asks + 1 PROVE PetsFollow'
  BY <1>0, <1>1 DEF PetsFollow
<1>2. ASSUME NEW w \in Widgets, Listen(w) PROVE PetsFollow'
  <2>1. asks' = asks
        /\ \A v \in Widgets : v # w => heard'[v] = heard[v] /\ pets'[v] = pets[v]
    BY <1>0, <1>2, HeardAfter
  <2>2. \A s \in Sessions : pets'[w][s] # heard'[w][s] => asks > 0 /\ Astray(pets'[w][s], heard'[w][s])
    BY <1>0, <1>2, AppliedFollows
  <2> QED  BY <2>1, <2>2 DEF PetsFollow, Astray
<1>3. ASSUME NEW w \in Widgets, NEW s \in Sessions, OpenPopup(w, s) PROVE PetsFollow'
  <2> DEFINE pet == pets[w][s]
             new == [pet EXCEPT !.unread = FALSE]
  <2>1. /\ pet # None /\ asks' = asks + 1 /\ heard' = heard
        /\ pets' = [pets EXCEPT ![w] = [pets[w] EXCEPT ![s] = new]]
    BY <1>0, <1>3 DEF OpenPopup, gui
  <2>2. pet \in Status
    BY <1>0, <2>1 DEF Entry
  <2>3. new \in Status /\ new.state = pet.state /\ new.unread = FALSE
    BY <2>2 DEF Status
  <2>4. heard[w][s] # None /\ pet.state \in {heard[w][s].state, "running"}
    BY <2>1 DEF PetsFollow
  <2> HIDE DEF new, pet
  <2>5. Astray(new, heard[w][s])
    BY <2>3, <2>4, NoneAssumption DEF Astray
  <2>6. \A v \in Widgets, r \in Sessions :
            pets'[v][r] = IF v = w /\ r = s THEN new ELSE pets[v][r]
    BY <1>0, <2>1
  <2> QED  BY <1>0, <2>1, <2>5, <2>6 DEF PetsFollow, Astray
<1>4. \/ UNCHANGED <<pets, heard>> /\ (asks' = asks \/ asks' = asks + 1)
      \/ \E w \in Widgets : Listen(w) \/ \E s \in Sessions : OpenPopup(w, s)
  <2>1. CASE UNCHANGED vars
    BY <2>1 DEF vars, gui
  <2>2. CASE CastStep
    BY <2>2 DEF CastStep, gui
  <2>3. CASE \E s \in Sessions : Report(s)
    BY <2>3 DEF Report, gui
  <2>4. CASE \E c \in Clients : Connect(c) \/ ServerStep(c)
    BY <2>4 DEF Connect, ServerStep, Sent, Reply, Serve, Hangup, gui
  <2>5. CASE \E k \in Commands : CommandStep(k)
    BY <2>5 DEF CommandStep, Await, TimeOut, Greet
  <2>6. ASSUME NEW w \in Widgets, \/ Freeze(w) \/ Quit(w)
                                  \/ \E s \in Sessions, action \in Actions : Submit(w, s, action)
        PROVE  UNCHANGED <<pets, heard>> /\ (asks' = asks \/ asks' = asks + 1)
    BY <2>6 DEF Freeze, Quit, Submit, gui
  <2> QED  BY <2>1, <2>2, <2>3, <2>4, <2>5, <2>6 DEF Next
<1> QED  BY <1>1, <1>2, <1>3, <1>4

-----------------------------------------------------------------------------
(* What widgets are told, the registry held *)

LEMMA InitHeld == Init => Held
<1> SUFFICES ASSUME Init PROVE Held
  OBVIOUS
<1>1. Broadcasts = {} /\ \A w \in Widgets : DOMAIN stream[w] = {}
  BY NoElements DEF Init, Clients, Broadcasts, Range
<1> QED  BY <1>1 DEF Init, Held, Nothing

\* Whatever m says of a session, the registry has held by then.
Known(m) == \A s \in Sessions : About(m, s) => Says(m, s) \in past'[s]

\* What is on its way stays known as long as the past does; what is added to it
\* has to be known.
LEMMA HeldKept ==
    ASSUME TypeOK, Held, \A s \in Sessions : past[s] \subseteq past'[s],
           \A s \in Sessions : registry'[s] \in past'[s],
           \A y \in Broadcasts' : y.change.status \in past'[y.change.session],
           \A w \in Widgets, s \in Sessions : heard'[w][s] \in past'[s],
           \A w \in Widgets :
              \/ stream'[w] = stream[w] \/ stream'[w] = <<>>
              \/ stream[w] # <<>> /\ stream'[w] = Tail(stream[w])
              \/ \E m \in Message : Known(m) /\ stream'[w] = Append(stream[w], m)
    PROVE  Held'
<1> SUFFICES ASSUME NEW w \in Widgets, NEW i \in DOMAIN stream'[w]
             PROVE  Known(stream'[w][i])
  BY DEF Held, Known, About, Says
<1> DEFINE q == stream[w]
<1>1. q \in Seq(Message)
  BY DEF TypeOK, Clients
<1>2. \A j \in DOMAIN q : Known(q[j])
  BY DEF Held, Known
<1>3. \/ stream'[w] = q \/ stream'[w] = <<>>
      \/ q # <<>> /\ stream'[w] = Tail(q)
      \/ \E m \in Message : Known(m) /\ stream'[w] = Append(q, m)
  OBVIOUS
<1> HIDE DEF q
<1>4. CASE stream'[w] = <<>>
  BY <1>4, NoElements
<1>5. CASE q # <<>> /\ stream'[w] = Tail(q)
  <2>1. /\ DOMAIN q = 1 .. Len(q) /\ DOMAIN Tail(q) = 1 .. Len(q) - 1 /\ Len(q) \in Nat \ {0}
        /\ \A j \in 1 .. Len(q) - 1 : Tail(q)[j] = q[j + 1]
    BY <1>1, <1>5, WithoutFirst
  <2>2. i + 1 \in DOMAIN q /\ stream'[w][i] = q[i + 1]
    BY <1>5, <2>1
  <2> QED  BY <1>2, <2>2
<1>6. ASSUME NEW m \in Message, Known(m), stream'[w] = Append(q, m) PROVE Known(stream'[w][i])
  <2>1. /\ DOMAIN q = 1 .. Len(q) /\ DOMAIN Append(q, m) = 1 .. Len(q) + 1 /\ Len(q) \in Nat
        /\ \A j \in 1 .. Len(q) : Append(q, m)[j] = q[j]
        /\ Append(q, m)[Len(q) + 1] = m
    BY <1>1, WithLast
  <2>2. (i \in DOMAIN q /\ stream'[w][i] = q[i]) \/ stream'[w][i] = m
    BY <1>6, <2>1
  <2> QED  BY <1>2, <1>6, <2>2
<1> QED  BY <1>2, <1>3, <1>4, <1>5, <1>6

\* Steps that leave the registry and the changes on their way.
LEMMA HeldQuiet ==
    ASSUME TypeOK, Held, UNCHANGED <<registry, past>>,
           \A w \in Widgets, s \in Sessions : heard'[w][s] \in past[s],
           \A y \in Broadcasts' : \E x \in Broadcasts : y.change = x.change,
           \A w \in Widgets :
              \/ stream'[w] = stream[w] \/ stream'[w] = <<>>
              \/ stream[w] # <<>> /\ stream'[w] = Tail(stream[w])
              \/ \E m \in Message : Known(m) /\ stream'[w] = Append(stream[w], m)
    PROVE  Held'
<1>1. \A s \in Sessions : past[s] \subseteq past'[s] /\ registry'[s] \in past'[s]
  BY DEF Held
<1>2. \A y \in Broadcasts' : y.change.status \in past'[y.change.session]
  BY DEF Held
<1> QED  BY <1>1, <1>2, HeldKept

LEMMA HeldSame ==
    ASSUME TypeOK, Held, UNCHANGED <<registry, past, ready, waits, heard, stream>> PROVE Held'
<1>1. Broadcasts' = Broadcasts
  BY DEF Broadcasts
<1>2. \A s \in Sessions : registry'[s] \in past'[s]
  BY DEF Held
<1>3. \A x \in Broadcasts' : x.change.status \in past'[x.change.session]
  BY <1>1 DEF Held
<1>4. \A w \in Widgets, s \in Sessions :
          /\ heard'[w][s] \in past'[s]
          /\ \A i \in DOMAIN stream'[w] : About(stream'[w][i], s) => Says(stream'[w][i], s) \in past'[s]
  BY DEF Held
<1> QED  BY <1>2, <1>3, <1>4 DEF Held, About, Says

LEMMA HeldPublish ==
    ASSUME TypeInv, Held, NEW o \in Clients \cup {None}, NEW s \in Sessions, NEW e \in Entry,
           Publish(o, s, e), UNCHANGED <<stream, heard>>
    PROVE  Held'
<1>1. TypeOK /\ Broadcasts \subseteq Cast /\ \A x \in Cast : x.change.session \in Sessions
  BY BroadcastsType DEF TypeInv
<1> DEFINE f == Fresh(o, s, e)
<1>2. /\ \A r \in Sessions : registry'[r] = IF r = s THEN e ELSE registry[r]
      /\ \A r \in Sessions : past'[r] = IF r = s THEN past[r] \cup {e} ELSE past[r]
      /\ Broadcasts' = {Out(x, s) : x \in Broadcasts} \cup {f}
  <2>1. /\ \A r \in Sessions : registry'[r] = IF r = s THEN e ELSE registry[r]
        /\ \A r \in Sessions : past'[r] = IF r = s THEN past[r] \cup {e} ELSE past[r]
    BY <1>1 DEF Publish, TypeOK
  <2>2. Broadcasts' = {Out(x, s) : x \in Broadcasts} \cup {f}
    BY <1>1, PublishType, Zenon
  <2> QED  BY <2>1, <2>2
<1>3. \A r \in Sessions : past[r] \subseteq past'[r] /\ registry'[r] \in past'[r]
  BY <1>2 DEF Held
<1>4. \A x \in Broadcasts : Out(x, s).change = x.change
  BY <1>1, OutType
<1>5. Fresh(o, s, e).change.session = s /\ Fresh(o, s, e).change.status = e
  BY DEF Fresh
<1>6. \A y \in Broadcasts' : y.change.status \in past'[y.change.session]
  <2> TAKE y \in Broadcasts'
  <2>1. CASE y = Fresh(o, s, e)
    BY <1>2, <1>5, <2>1
  <2>2. ASSUME NEW x \in Broadcasts, y = Out(x, s)
        PROVE  y.change.status \in past'[y.change.session]
    BY <1>1, <1>3, <1>4, <2>2 DEF Held
  <2> QED  BY <1>2, <2>1, <2>2
<1>7. \A w \in Widgets, r \in Sessions : heard'[w][r] \in past'[r]
  BY <1>3 DEF Held
<1> QED  BY <1>1, <1>3, <1>6, <1>7, HeldKept

\* A broadcast tells of its change.
LEMMA HeldCast ==
    ASSUME TypeInv, Held, CastStep PROVE Held'
<1>1. TypeOK /\ UNCHANGED <<registry, past, heard>> /\ Widgets \subseteq Clients
  BY DEF CastStep, gui, TypeInv, Clients
<1>2. PICK cast \in Cast, cs \in SUBSET Clients : Goes(cast, cs)
  BY <1>1, CastSteps
<1>3. /\ ready # <<>> /\ cast.change = Head(ready).change /\ Write(cs, cast.change)
      /\ \A y \in Broadcasts' : y \in Others \/ y.change = cast.change
  BY <1>2 DEF Goes, Tell
<1>4. Broadcasts = Others \cup {Head(ready)}
  BY <1>1, <1>3, FrontCast
<1>5. cast.change \in Message /\ Known(cast.change)
  <2>1. cast.change \in Message /\ cast.change.type = "change"
    BY <1>1, BroadcastsType
  <2>2. cast.change.status \in past[cast.change.session]
    BY <1>3, <1>4 DEF Held
  <2> QED  BY <1>1, <2>1, <2>2 DEF Known, About, Says
<1>6. \A w \in Widgets : stream'[w] = stream[w] \/ stream'[w] = Append(stream[w], cast.change)
  BY <1>1, <1>3, <1>5, WriteType
<1>7. \A y \in Broadcasts' : \E x \in Broadcasts : y.change = x.change
  BY <1>3, <1>4
<1>8. \A w \in Widgets, s \in Sessions : heard'[w][s] \in past[s]
  BY <1>1 DEF Held
<1> QED  BY <1>1, <1>5, <1>6, <1>7, <1>8, HeldQuiet

\* A client that takes a message, or leaves.
LEMMA HeldEased ==
    ASSUME TypeInv, Held, NEW c \in Clients, NEW outcome \in Over, Take(c) \/ Close(c, outcome),
           UNCHANGED <<registry, past>>, \A w \in Widgets, s \in Sessions : heard'[w][s] \in past[s]
    PROVE  Held'
<1>1. TypeOK /\ Widgets \subseteq Clients /\ StirredOnly
  BY Eases, EasedStirs DEF TypeInv, Clients
<1>2. \A w \in Widgets : \/ stream'[w] = stream[w] \/ stream'[w] = <<>>
                         \/ stream[w] # <<>> /\ stream'[w] = Tail(stream[w])
  BY <1>1 DEF Take, Close, TypeOK
<1>3. \A y \in Broadcasts' : \E x \in Broadcasts : y.change = x.change
  <2> TAKE y \in Broadcasts'
  <2>1. ASSUME NEW x \in Broadcasts, NEW d \in Clients, NEW lost \in BOOLEAN, y = Woken(x, d, lost)
        PROVE  y.change = x.change
    <3>1. x \in Cast
      BY <1>1, BroadcastsType
    <3> QED  BY <2>1, <3>1, WokenSame
  <2> QED  BY <1>1, <2>1 DEF StirredOnly
<1> QED  BY <1>1, <1>2, <1>3, HeldQuiet

\* What a widget hears was on its way.
LEMMA HeardHeld ==
    ASSUME TypeOK, Held, NEW w \in Widgets, Listen(w)
    PROVE  \A s \in Sessions : heard'[w][s] \in past[s]
<1>1. /\ stream[w] \in Seq(Message) /\ stream[w] # <<>>
      /\ \A s \in Sessions : heard'[w][s] =
            IF About(stream[w][1], s) THEN Says(stream[w][1], s) ELSE heard[w][s]
  BY HeardAfter
<1>2. 1 \in DOMAIN stream[w]
  BY <1>1, WithoutFirst
<1> QED  BY <1>1, <1>2 DEF Held

LEMMA HeldStep == TypeInv /\ Held /\ [Next]_vars => Held'
<1> SUFFICES ASSUME TypeInv, Held, [Next]_vars PROVE Held'
  OBVIOUS
<1>0. TypeOK /\ Widgets \subseteq Clients /\ Commands \subseteq Clients
  BY DEF TypeInv, Clients
<1>1. ASSUME UNCHANGED <<registry, past, ready, waits, heard, stream>> PROVE Held'
  BY <1>0, <1>1, HeldSame
<1>2. CASE CastStep
  BY <1>2, HeldCast
<1>3. ASSUME NEW s \in Sessions, Report(s) PROVE Held'
  <2>1. UNCHANGED <<stream, heard>> /\ \E e \in Entry : Publish(None, s, e)
    BY <1>3, Publishes
  <2> QED  BY <2>1, HeldPublish
<1>4. ASSUME NEW c \in Clients, Serve(c) \/ Sent(c) PROVE Held'
  <2>1. UNCHANGED <<stream, heard>>
    BY <1>4, Requests
  <2>2. NoChange \/ \E s \in Sessions, e \in Entry : Publish(c, s, e)
    BY <1>4, Requests
  <2> QED  BY <1>1, <2>1, <2>2, HeldPublish DEF NoChange
<1>5. ASSUME NEW c \in Clients, NEW m \in Message, Known(m), Write({c}, m),
             UNCHANGED <<registry, past, ready, waits, heard>> PROVE Held'
  <2>1. \A w \in Widgets : stream'[w] = stream[w] \/ stream'[w] = Append(stream[w], m)
    BY <1>0, <1>5, WriteType
  <2>2. \A y \in Broadcasts' : \E x \in Broadcasts : y.change = x.change
    BY <1>5 DEF Broadcasts
  <2>3. \A w \in Widgets, s \in Sessions : heard'[w][s] \in past[s]
    BY <1>5 DEF Held
  <2> QED  BY <1>0, <1>5, <2>1, <2>2, <2>3, HeldQuiet
<1>6. ASSUME NEW c \in Clients, Connect(c) PROVE Held'
  <2> DEFINE m == [type |-> "snapshot", sessions |-> registry]
  <2>1. m \in Message /\ Write({c}, m) /\ UNCHANGED <<registry, past, ready, waits, heard>>
    BY <1>0, <1>6 DEF Connect, Send, TypeOK, Message
  <2>2. Known(m)
    BY <2>1 DEF Known, Says, Held
  <2> HIDE DEF m
  <2> QED  BY <1>5, <2>1, <2>2
<1>7. ASSUME NEW c \in Clients, Reply(c) PROVE Held'
  <2> DEFINE r == task[c].request
             m == [type |-> "action_result", session |-> r.session, action |-> r.action, ok |-> task[c].ok]
  <2>1. task[c] \in Task /\ r \in Request
    BY <1>0, <1>7 DEF Reply, TypeInv, TypeOK, TaskHolds
  <2>2. m \in Message /\ Write({c}, m) /\ UNCHANGED <<registry, past, ready, waits, heard>>
    BY <1>7, <2>1 DEF Reply, NoChange, Task, Request, Message, gui
  <2>3. Known(m)
    BY DEF Known, About
  <2> HIDE DEF m
  <2> QED  BY <1>5, <2>2, <2>3
<1>8. ASSUME NEW c \in Clients, Hangup(c) PROVE Held'
  BY <1>1, <1>8 DEF Hangup, NoChange, wire, gui
<1>9. ASSUME NEW k \in Commands, CommandStep(k) PROVE Held'
  <2>1. UNCHANGED <<registry, past, heard>> /\ \E outcome \in Over : Take(k) \/ Close(k, outcome)
    BY <1>9 DEF CommandStep, Await, TimeOut, Greet, Over
  <2> QED  BY <1>0, <2>1, HeldEased DEF Held
<1>10. ASSUME NEW w \in Widgets, Listen(w) PROVE Held'
  <2>1. UNCHANGED <<registry, past>> /\ Take(w) /\ \A v \in Widgets : v # w => heard'[v] = heard[v]
    BY <1>0, <1>10, HeardAfter DEF Listen
  <2>2. \A v \in Widgets, s \in Sessions : heard'[v][s] \in past[s]
    BY <1>0, <1>10, <2>1, HeardHeld DEF Held
  <2> QED  BY <1>0, <2>1, <2>2, HeldEased DEF Over
<1>11. ASSUME NEW w \in Widgets, Quit(w) PROVE Held'
  BY <1>0, <1>11, HeldEased DEF Quit, Held, Over
<1>12. ASSUME NEW w \in Widgets, NEW s \in Sessions, NEW action \in Asked,
              OpenPopup(w, s) \/ Submit(w, s, action) PROVE Held'
  BY <1>1, <1>12 DEF OpenPopup, Submit, server, gui
<1>13. ASSUME NEW w \in Widgets, Freeze(w) PROVE Held'
  BY <1>1, <1>13 DEF Freeze, server, wire
<1>14. CASE UNCHANGED vars
  BY <1>1, <1>14 DEF vars, server, wire, gui
<1> QED  BY <1>2, <1>3, <1>4, <1>6, <1>7, <1>8, <1>9, <1>10, <1>11, <1>12, <1>13, <1>14,
            StatesAssumption DEF Next, ServerStep, Asked

-----------------------------------------------------------------------------
(* The abstract mirror *)

LEMMA MirrorInit == Init => Mirror!Init
<1> SUFFICES ASSUME Init PROVE Mirror!Init
  OBVIOUS
<1>1. \A w \in Widgets : Linked(w) \in BOOLEAN
  BY Zenon DEF Linked
<1>2. [w \in Widgets |-> Linked(w)] \in [Widgets -> BOOLEAN]
  BY <1>1, Zenon
<1>3. registry = [s \in Sessions |-> None] /\ past = [s \in Sessions |-> {None}]
      /\ heard = [w \in Widgets |-> registry]
  BY DEF Init, Nothing
<1> QED  BY <1>2, <1>3, Zenon DEF Mirror!Init

\* A change that is made is one of the mirror's.
LEMMA MirrorPublishes ==
    ASSUME TypeOK, Held, NEW o, NEW s \in Sessions, NEW e \in Entry, Publish(o, s, e),
           UNCHANGED <<heard, client>>
    PROVE  Mirror!Publish
<1>1. [w \in Widgets |-> Linked(w)]' \in [Widgets -> BOOLEAN]
  <2>1. \A w \in Widgets : Linked(w)' \in BOOLEAN
    BY Zenon DEF Linked
  <2> QED  BY <2>1, Zenon
<1>2. past' = [r \in Sessions |-> past[r] \cup {registry'[r]}]
  <2>1. past' = [past EXCEPT ![s] = @ \cup {e}] /\ registry' = [registry EXCEPT ![s] = e]
        /\ past \in [Sessions -> SUBSET Entry] /\ registry \in [Sessions -> Entry]
    BY DEF Publish, TypeOK
  <2>2. \A r \in Sessions : past'[r] = past[r] \cup {registry'[r]}
    BY <2>1 DEF Held
  <2>3. past' \in [Sessions -> SUBSET Entry]
    BY <2>1
  <2> QED  BY <2>2, <2>3
<1> QED  BY <1>1, <1>2 DEF Mirror!Publish

\* A message that is read is one of the mirror's.
LEMMA MirrorLearns ==
    ASSUME TypeInv, Held, NEW w \in Widgets, Listen(w) PROVE Mirror!Learn(w)
<1>1. TypeOK /\ UNCHANGED <<registry, past, news>> /\ w \in Clients
  BY DEF Listen, Take, TypeInv, Clients
<1>2. client' = [client EXCEPT ![w] = "on"] /\ client[w] \in {"greeting", "on"}
      /\ client \in [Clients -> Phase] /\ Widgets \subseteq Clients
  BY DEF Listen, TypeInv, TypeOK, Clients
<1>3. \A v \in Widgets : /\ client'[v] \in {"greeting", "on"} <=> client[v] \in {"greeting", "on"}
                         /\ client'[v] # "frozen" <=> client[v] # "frozen"
  BY <1>2
<1>4. \A v \in Widgets : Linked(v)' = Linked(v)
  BY <1>1, <1>3, Zenon DEF Linked
<1>5. [v \in Widgets |-> Linked(v)]' = [v \in Widgets |-> Linked(v)]
  BY <1>4, Zenon
<1>6. /\ heard' \in [Widgets -> [Sessions -> Entry]] /\ heard \in [Widgets -> [Sessions -> Entry]]
      /\ \A v \in Widgets : v # w => heard'[v] = heard[v]
  BY <1>1, HeardAfter, TypeListen DEF TypeInv, TypeOK
<1>7. heard' = [heard EXCEPT ![w] = heard'[w]]
  BY <1>6
<1>8. \A s \in Sessions : heard'[w][s] \in past[s]
  BY <1>1, HeardHeld
<1>9. heard'[w] \in [Sessions -> UNION {past[s] : s \in Sessions}]
  <2>1. heard'[w] \in [Sessions -> Entry]
    BY <1>6
  <2>2. \A s \in Sessions : heard'[w][s] \in UNION {past[r] : r \in Sessions}
    BY <1>8
  <2> QED  BY <2>1, <2>2
<1> QED  BY <1>1, <1>5, <1>7, <1>8, <1>9 DEF Mirror!Learn

LEMMA MirrorStep == TypeInv /\ Held /\ [Next]_vars => [Mirror!Next]_(Mirror!vars)
<1> SUFFICES ASSUME TypeInv, Held, [Next]_vars PROVE [Mirror!Next]_(Mirror!vars)
  OBVIOUS
<1>0. TypeOK
  BY DEF TypeInv
<1>1. ASSUME UNCHANGED <<registry, past, heard>> PROVE [Mirror!Next]_(Mirror!vars)
  <2>1. \A w \in Widgets : Linked(w)' \in BOOLEAN
    BY Zenon DEF Linked
  <2>2. [w \in Widgets |-> Linked(w)]' \in [Widgets -> BOOLEAN]
    BY <2>1, Zenon
  <2> QED  BY <1>1, <2>2 DEF Mirror!Next, Mirror!Relink
<1>2. ASSUME NEW o, NEW s \in Sessions, NEW e \in Entry, Publish(o, s, e), UNCHANGED <<heard, client>>
      PROVE  [Mirror!Next]_(Mirror!vars)
  BY <1>0, <1>2, MirrorPublishes DEF Mirror!Next
<1>3. ASSUME NEW w \in Widgets, Listen(w) PROVE [Mirror!Next]_(Mirror!vars)
  BY <1>3, MirrorLearns DEF Mirror!Next
<1>4. ASSUME NEW s \in Sessions, Report(s) PROVE [Mirror!Next]_(Mirror!vars)
  <2>1. UNCHANGED <<heard, client>> /\ \E e \in Entry : Publish(None, s, e)
    BY <1>4, Publishes
  <2> QED  BY <1>2, <2>1
<1>5. ASSUME NEW c \in Clients, Connect(c) \/ ServerStep(c) PROVE [Mirror!Next]_(Mirror!vars)
  <2>1. CASE Serve(c) \/ Sent(c)
    <3>1. UNCHANGED <<heard, client>>
      BY <2>1, Requests
    <3>2. NoChange \/ \E s \in Sessions, e \in Entry : Publish(c, s, e)
      BY <2>1, Requests
    <3> QED  BY <1>1, <1>2, <3>1, <3>2 DEF NoChange
  <2>2. CASE Connect(c) \/ Reply(c) \/ Hangup(c)
    BY <1>1, <2>2 DEF Connect, Reply, Hangup, NoChange, gui
  <2> QED  BY <1>5, <2>1, <2>2 DEF ServerStep
<1>6. CASE CastStep
  BY <1>1, <1>6 DEF CastStep, gui
<1>7. ASSUME NEW k \in Commands, CommandStep(k) PROVE [Mirror!Next]_(Mirror!vars)
  BY <1>1, <1>7 DEF CommandStep, Await, TimeOut, Greet
<1>8. ASSUME NEW w \in Widgets, \/ Freeze(w) \/ Quit(w)
                                \/ \E s \in Sessions : \/ OpenPopup(w, s)
                                                       \/ \E action \in Actions : Submit(w, s, action)
      PROVE  [Mirror!Next]_(Mirror!vars)
  BY <1>1, <1>8 DEF Freeze, Quit, OpenPopup, Submit, gui
<1>9. CASE UNCHANGED vars
  BY <1>1, <1>9 DEF vars, gui
<1> QED  BY <1>3, <1>4, <1>5, <1>6, <1>7, <1>8, <1>9 DEF Next

-----------------------------------------------------------------------------
(* The theorems *)

LEMMA InvariantHolds == Spec => []IInv
<1>1. Init => IInv
  BY InitTypeInv, InitWordInv, InitUnasked, InitHeld DEF IInv
<1>2. IInv /\ [Next]_vars => IInv'
  BY TypeStep, WordStep, UnaskedStep, PetsFollowStep, HeldStep DEF IInv
<1> QED  BY <1>1, <1>2, PTL DEF Spec

\* Every variable keeps its type: no broadcast waits at a connection it was not
\* given, and a task that sends input or made a change has a status to send.
THEOREM TypeCorrect == Spec => []TypeOK
<1>1. IInv => TypeOK
  BY DEF IInv, TypeInv
<1> QED  BY <1>1, InvariantHolds, PTL

\* A widget to which nothing is on its way has last heard of every session what
\* the registry holds, unless a broadcast that was overtaken came to it after the
\* newest, whatever broadcasts, full connections and arrivals there were; its pets
\* differ from what it heard only as its own clicks and answers say.
THEOREM QuietWidgetsAgree == Spec => []QuietMirror
<1>1. ASSUME TypeInv, WordInv, PetsFollow PROVE QuietMirror
  <2>1. ASSUME NEW w \in Widgets, NEW s \in Sessions, Quiet(w), news[w][s] # "late"
        PROVE  heard[w][s] = registry[s]
    <3>1. Broadcasts = {} /\ Listening(w) /\ stream[w] = <<>>
      BY <2>1, NoElements DEF Quiet, Listening, Broadcasts, Range
    <3>2. news[w][s] = "told"
      <4>1. news[w][s] \in News
        BY <1>1 DEF TypeInv, TypeOK
      <4>2. news[w][s] # "due"
        BY <1>1, <3>1 DEF WordInv, Owed
      <4> QED  BY <2>1, <4>1, <4>2 DEF News
    <3>3. LastSays(stream[w], heard[w][s], registry[s], s)
      BY <1>1, <3>1, <3>2 DEF WordInv, Told
    <3> QED  BY <3>1, <3>3, NoElements DEF LastSays
  <2> QED  BY <1>1, <2>1 DEF QuietMirror, PetsFollow
<1>2. IInv => QuietMirror
  BY <1>1 DEF IInv
<1> QED  BY <1>2, InvariantHolds, PTL

\* What widgets are told implements the abstract mirror, but for its liveness:
\* whatever a widget has heard of a session, the registry once held, and nothing
\* but a message changes what it has heard.
THEOREM WidgetsLearnThePast == Spec => Mirror!Init /\ [][Mirror!Next]_(Mirror!vars)
<1>1. IInv /\ [Next]_vars => [Mirror!Next]_(Mirror!vars)
  BY MirrorStep DEF IInv
<1> QED  BY <1>1, InvariantHolds, MirrorInit, PTL DEF Spec

===============================================================================
