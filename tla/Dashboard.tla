------------------------------ MODULE Dashboard ------------------------------
(***************************************************************************)
(* The clients of the daemon: IpcServer with a task per connection and the *)
(* broadcasts of the registry, widgets that mirror the sessions and ask    *)
(* for actions, and commands that ask one action and wait for its answer   *)
(* with a time-out.                                                        *)
(*                                                                         *)
(* A write never suspends, a drain does while the connection's buffer is   *)
(* over its high-water mark.  So a broadcast runs through the connections  *)
(* until it comes to a full one, and waits there.  The event loop has one  *)
(* queue: a broadcast that is woken goes to its end, behind those that are *)
(* yet to begin, and may find itself overtaken.                            *)
(***************************************************************************)
EXTENDS SessionModel, Integers, Sequences, FiniteSets, Functions

CONSTANTS
    None,       \* no session, no client
    Sessions,   \* session identifiers
    Widgets, Commands, \* connections, each used once
    Reported,   \* the states that monitors and hooks report
    Actions,    \* the actions that users ask for
    HighWater,  \* messages a connection holds before its writers wait
    LowWater,   \* messages at which they go on
    MaxFlight,  \* bound: broadcasts under way when others than clients make a change
    MaxAsks     \* bound: popups opened and replies sent in widgets

Clients == Widgets \cup Commands

ASSUME ClientsAssumption ==
    Widgets \cap Commands = {} /\ None \notin Clients /\ IsFiniteSet(Clients)

Asked == {"mark_read", "send_reply", "hide_pet"}

ASSUME StatesAssumption == Actions \subseteq Asked /\ Reported \subseteq AttentionState
ASSUME BoundsAssumption ==
    /\ HighWater \in Nat /\ LowWater \in Nat /\ LowWater <= HighWater
    /\ MaxFlight \in Nat /\ MaxAsks \in Nat

Status == [state : AttentionState, unread : BOOLEAN]
Entry  == Status \cup {None}

ASSUME NoneAssumption == None \notin Status /\ None \notin Sessions

Request == [session : Sessions, action : Asked]
Change  == [type : {"change"}, session : Sessions, status : Entry]
Message == Change
           \cup [type : {"snapshot"}, sessions : [Sessions -> Entry]]
           \cup [type : {"action_result"}, session : Sessions, action : Asked, ok : BOOLEAN]

\* The broadcast of a change by its owner: not begun, or with the connections
\* left of its list and those it found dead.  History: is it the newest change of
\* its session?
Cast == [change : Change, owner : Clients \cup {None}, newest : BOOLEAN,
         begun : BOOLEAN, left : Seq(Clients), dead : SUBSET Clients]

\* A connection's task in the server.  "sending": the input goes to the agent;
\* "changing": it waits for a change it made; "replying": to send the answer.
Task == [phase : {"none", "reading", "sending", "changing", "replying", "draining"},
         request : Request \cup {None}, copy : Entry, ok : BOOLEAN]

\* "greeting": before the first message.  A widget is then "on", or "frozen": its
\* event loop has ended, its socket is open.
\* A command then waits for its answer.
Phase == {"off", "on", "frozen", "greeting", "waiting", "ok", "refused", "timed_out", "gone"}
Over  == {"ok", "refused", "timed_out", "gone"}

VARIABLES
    registry, \* SessionRegistry._sessions
    past,     \* history: the entries each session has had
    ready,    \* broadcasts in the event loop's queue: new ones and woken ones
    waits,    \* broadcasts that wait for each connection's drain
    writers,  \* IpcServer._writers
    order,    \* the place of each connection when a set of them is iterated
    task,     \* the task of each connection
    stream,   \* what was written to each connection and not read
    paused,   \* connections over their high-water mark
    asked,    \* what each client sent and the server has not read
    client,   \* the client's phase
    pets,     \* widgets: the status each pet shows
    heard,    \* history: the status a widget was last told of each session
    news,     \* history: what was written to a widget since a session's last change
    asks      \* how many so far

server == <<ready, waits, writers, order, task>>
wire   == <<stream, paused, asked>>
gui    == <<client, pets, heard>>
vars   == <<registry, past, server, wire, gui, news, asks>>

\* "due": not yet that change.  "late": that, and an older one after it.
News == {"due", "told", "late"}

-----------------------------------------------------------------------------
(* Writing and draining *)

Gone(c)  == client[c] \in Over
Stuck(c) == c \in paused /\ ~Gone(c)

\* writer.write of message to each of cs: a lost connection takes nothing.
Written(cs, message) ==
    [c \in Clients |-> IF c \in cs /\ ~Gone(c) THEN Append(stream[c], message) ELSE stream[c]]

Full(streams) == paused \cup {c \in Clients : Len(streams[c]) > HighWater}

Write(cs, message) ==
    /\ stream' = Written(cs, message)
    /\ paused' = Full(Written(cs, message))

Broadcasts == Range(ready) \cup UNION {Range(waits[c]) : c \in Clients}

\* cast writes its change to the connections cs.
Tell(cast, cs) ==
    /\ Write(cs, cast.change)
    /\ news' = [w \in Widgets |->
          IF w \in cs
          THEN [news[w] EXCEPT ![cast.change.session] =
                   IF cast.newest THEN "told" ELSE IF @ = "told" THEN "late" ELSE @]
          ELSE news[w]]

\* Mutant of GoesOn: full connections are passed over, without the message.
GoesOnPast(cast) ==
    /\ Tell(cast, {c \in Range(cast.left) : ~Stuck(c)})
    /\ ready' = Tail(ready)
    /\ writers' = writers \ (cast.dead \cup {c \in Range(cast.left) : Gone(c)})
    /\ UNCHANGED waits

\* The loop of broadcast, with what is left of its list: it writes to each
\* connection up to the first that is full then, and waits there, or up to a lost
\* one, where drain lets the loop run.  At the end it discards those found dead.
GoesOn(cast) ==
    LET Upto(i)  == {cast.left[j] : j \in 1 .. i}
        Dead(i)  == cast.dead \cup {c \in Upto(i) : Gone(c)}
        Rest(i)  == [cast EXCEPT !.left = SubSeq(@, i + 1, Len(@)), !.dead = Dead(i)]
        Fills(i) == ~Gone(cast.left[i]) /\ cast.left[i] \in Full(Written(Upto(i), cast.change))
    IN  \/ /\ \A i \in DOMAIN cast.left : ~Fills(i)
           /\ Tell(cast, Range(cast.left)) /\ ready' = Tail(ready)
           /\ writers' = writers \ Dead(Len(cast.left)) /\ UNCHANGED waits
        \/ \E i \in DOMAIN cast.left :
              /\ \A j \in 1 .. i - 1 : ~Fills(j)
              /\ Tell(cast, Upto(i))
              /\ \/ /\ Fills(i) /\ ready' = Tail(ready)
                    /\ waits' = [waits EXCEPT ![cast.left[i]] = Append(@, Rest(i))]
                 \/ /\ Gone(cast.left[i]) /\ ready' = Append(Tail(ready), Rest(i))
                    /\ UNCHANGED waits
              /\ UNCHANGED writers

\* Mutant of Wake: a buffer wakes one of those who wait for it.
WakeFirst(c, lost) ==
    IF waits[c] = <<>> THEN UNCHANGED <<ready, waits>>
    ELSE ready' = Append(ready, Head(waits[c])) /\ waits' = [waits EXCEPT ![c] = Tail(@)]

\* Connection c takes data again: its drains return, in the order they were
\* called.  When it is lost, they fail.
Wake(c, lost) ==
    /\ ready' = ready \o [i \in DOMAIN waits[c] |->
                             [waits[c][i] EXCEPT !.dead = IF lost THEN @ \cup {c} ELSE @]]
    /\ waits' = [waits EXCEPT ![c] = <<>>]

Drained(c) == [task EXCEPT ![c].phase = IF @ = "draining" THEN "reading" ELSE @]

\* The places of the connections in the set.
Orders == Injection(Clients, 1 .. Cardinality(Clients))

\* The task of c sends a message: it reads on once that is drained.
Send(c, message) ==
    /\ Write({c}, message)
    /\ task' = [task EXCEPT ![c].phase = IF c \in paused' /\ ~Gone(c) THEN "draining" ELSE "reading"]

-----------------------------------------------------------------------------
(* The registry's changes and their broadcasts *)

\* The broadcasts q after a change of s.
Outdated(q, s) ==
    [i \in DOMAIN q |-> [q[i] EXCEPT !.newest = @ /\ q[i].change.session # s]]

\* A change by o: its subscriber task is created.
Publish(o, s, entry) ==
    /\ registry' = [registry EXCEPT ![s] = entry]
    /\ past' = [past EXCEPT ![s] = @ \cup {entry}]
    /\ ready' = Append(Outdated(ready, s),
                       [change |-> [type |-> "change", session |-> s, status |-> entry], owner |-> o,
                        newest |-> TRUE, begun |-> FALSE, left |-> <<>>, dead |-> {}])
    /\ waits' = [c \in Clients |-> Outdated(waits[c], s)]
    /\ news' = [w \in Widgets |-> IF w \in writers THEN [news[w] EXCEPT ![s] = "due"] ELSE news[w]]

NoChange == UNCHANGED <<registry, past, ready, waits, news>>

\* A poll, a monitor or a hook event reports a session, news if the session is
\* not new; or a removal is due.  There is no end of reports.
Report(s) ==
    /\ \A c \in Clients : Len(ready) + Len(waits[c]) < MaxFlight
    /\ \/ \E state \in Reported :
             Publish(None, s, [state |-> state, unread |-> registry[s] # None])
       \/ registry[s] # None /\ Publish(None, s, None)
    /\ UNCHANGED <<writers, order, task, wire, gui, asks>>

\* The lists that iterating the connections of a set may give.
Listings(cs) == Bijection(1 .. Cardinality(cs), cs)

\* The first task of the loop's queue runs: a broadcast begins with a list of the
\* connections there are by then, or goes on.
CastStep ==
    /\ ready # <<>>
    /\ IF Head(ready).begun THEN GoesOn(Head(ready))
       ELSE \E list \in Listings(writers) :
               /\ \A i, j \in DOMAIN list : i < j => order[list[i]] < order[list[j]]
               /\ GoesOn([Head(ready) EXCEPT !.begun = TRUE, !.left = list])
    /\ UNCHANGED <<registry, past, order, task, asked, gui, asks>>

-----------------------------------------------------------------------------
(* The task of a connection, _handle_client *)

\* A client connects: it is one of the writers, at any place of the set, which
\* may be laid out anew; and is sent the sessions.
Connect(c) ==
    /\ client[c] = "off"
    /\ client' = [client EXCEPT ![c] = "greeting"]
    /\ writers' = writers \cup {c} /\ order' \in Orders
    /\ Send(c, [type |-> "snapshot", sessions |-> registry])
    /\ news' = [w \in Widgets |-> IF w = c THEN [s \in Sessions |-> "told"] ELSE news[w]]
    /\ UNCHANGED <<registry, past, ready, waits, asked, pets, heard, asks>>

\* Mutant of Serve: input for a session that is not there is sent as well.
ServeUnknown(c) ==
    /\ task[c].phase = "reading" /\ asked[c] # <<>>
    /\ task' = [task EXCEPT ![c] = [phase |-> "sending", request |-> Head(asked[c]),
                                   copy |-> registry[Head(asked[c]).session], ok |-> FALSE]]
    /\ asked' = [asked EXCEPT ![c] = Tail(@)]
    /\ NoChange /\ UNCHANGED <<writers, order, stream, paused, gui, asks>>

\* A request is read and routed.  A session that is not there is refused, and
\* hiding one that is live; input is first sent to the agent.
Serve(c) ==
    /\ task[c].phase = "reading" /\ asked[c] # <<>>
    /\ LET request == Head(asked[c])
           s       == request.session
           Goes(phase, ok) == task' = [task EXCEPT ![c] =
                 [phase |-> phase, request |-> request, copy |-> registry[s], ok |-> ok]]
       IN  \/ /\ registry[s] = None \/ request.action = "hide_pet"
              /\ Goes("replying", FALSE) /\ NoChange
           \/ /\ registry[s] # None /\ request.action = "send_reply"
              /\ Goes("sending", FALSE) /\ NoChange
           \/ /\ registry[s] # None /\ request.action # "send_reply"
              /\ Publish(c, s, IF request.action = "hide_pet" THEN None
                               ELSE [registry[s] EXCEPT !.unread = FALSE])
              /\ Goes("changing", TRUE)
    /\ asked' = [asked EXCEPT ![c] = Tail(@)]
    /\ UNCHANGED <<writers, order, stream, paused, gui, asks>>

\* The agent took the input, and the copy of its status is upserted as running;
\* or it did not.
Sent(c) ==
    /\ task[c].phase = "sending"
    /\ \/ task' = [task EXCEPT ![c].phase = "replying"] /\ NoChange
       \/ /\ task' = [task EXCEPT ![c].phase = "changing", ![c].ok = TRUE]
          /\ Publish(c, task[c].request.session, [task[c].copy EXCEPT !.state = "running"])
    /\ UNCHANGED <<writers, order, wire, gui, asks>>

\* The answer goes out, once the broadcast of the change has returned.
Reply(c) ==
    /\ \/ task[c].phase = "replying"
       \/ task[c].phase = "changing" /\ \A cast \in Broadcasts : cast.owner # c
    /\ LET request == task[c].request
       IN  /\ Write({c}, [type |-> "action_result", session |-> request.session,
                          action |-> request.action, ok |-> task[c].ok])
           /\ task' = [task EXCEPT ![c] = [phase |-> IF c \in paused' /\ ~Gone(c) THEN "draining" ELSE "reading",
                                           request |-> None, copy |-> None, ok |-> FALSE]]
    /\ NoChange /\ UNCHANGED <<writers, order, asked, gui, asks>>

\* The end of the input of a lost connection, or the error of a write to it.
Hangup(c) ==
    /\ task[c].phase = "reading" /\ asked[c] = <<>> /\ Gone(c)
    /\ task' = [task EXCEPT ![c].phase = "none"]
    /\ writers' = writers \ {c}
    /\ NoChange /\ UNCHANGED <<order, wire, gui, asks>>

-----------------------------------------------------------------------------
(* Clients *)

\* The first message of the stream is read; a buffer that has emptied enough
\* wakes those who wait for it.
Take(c) ==
    /\ stream[c] # <<>>
    /\ stream' = [stream EXCEPT ![c] = Tail(@)]
    /\ IF Len(stream[c]) - 1 <= LowWater
       THEN paused' = paused \ {c} /\ Wake(c, FALSE) /\ task' = Drained(c)
       ELSE UNCHANGED <<paused, ready, waits, task>>
    /\ UNCHANGED <<writers, order, news>>

\* The connection of c is lost: nothing more is read, what c asked still is.
Close(c, outcome) ==
    /\ client' = [client EXCEPT ![c] = outcome]
    /\ stream' = [stream EXCEPT ![c] = <<>>] /\ paused' = paused \ {c}
    /\ Wake(c, TRUE) /\ task' = Drained(c)
    /\ UNCHANGED <<writers, order, news>>

\* Mutant of Applied: an update of a session without pet is dropped.
AppliedToPets(w, message) ==
    CASE message.type = "snapshot" -> message.sessions
      [] message.type = "change" /\ pets[w][message.session] = None -> pets[w]
      [] message.type = "change" -> [pets[w] EXCEPT ![message.session] = message.status]
      [] OTHER -> pets[w]

\* apply_daemon_message: the pets after a message.
Applied(w, message) ==
    CASE message.type = "snapshot" -> message.sessions
      [] message.type = "change"   -> [pets[w] EXCEPT ![message.session] = message.status]
      [] OTHER ->
           IF pets[w][message.session] = None \/ ~message.ok THEN pets[w]
           ELSE [pets[w] EXCEPT
                   ![message.session].state = IF message.action = "send_reply" THEN "running" ELSE @,
                   ![message.session].unread = @ /\ message.action # "mark_read"]

\* A widget reads a message and applies it.
Listen(w) ==
    /\ client[w] \in {"greeting", "on"} /\ Take(w)
    /\ client' = [client EXCEPT ![w] = "on"]
    /\ LET message == Head(stream[w])
       IN  /\ pets' = [pets EXCEPT ![w] = Applied(w, message)]
           /\ heard' = [heard EXCEPT ![w] =
                 CASE message.type = "snapshot" -> message.sessions
                   [] message.type = "change"   -> [@ EXCEPT ![message.session] = message.status]
                   [] OTHER                     -> @]
    /\ UNCHANGED <<registry, past, asked, asks>>

\* A click opens the popup of a pet: it is read, and the daemon is told.
OpenPopup(w, s) ==
    /\ client[w] = "on" /\ pets[w][s] # None /\ asks < MaxAsks
    /\ asks' = asks + 1
    /\ pets' = [pets EXCEPT ![w][s].unread = FALSE]
    /\ asked' = [asked EXCEPT ![w] = Append(@, [session |-> s, action |-> "mark_read"])]
    /\ UNCHANGED <<registry, past, server, stream, paused, client, heard, news>>

\* The popup's Send and Hide.
Submit(w, s, action) ==
    /\ client[w] = "on" /\ pets[w][s] # None /\ asks < MaxAsks
    /\ asks' = asks + 1
    /\ asked' = [asked EXCEPT ![w] = Append(@, [session |-> s, action |-> action])]
    /\ UNCHANGED <<registry, past, server, stream, paused, gui, news>>

\* widget_run has shown the first message and leaves asyncio for the Qt loop:
\* the listening task is cancelled, the connection stays.
Freeze(w) ==
    /\ client[w] = "on"
    /\ client' = [client EXCEPT ![w] = "frozen"]
    /\ UNCHANGED <<registry, past, server, wire, pets, heard, news, asks>>

\* The widget's process ends.
Quit(w) ==
    /\ client[w] \in {"greeting", "on", "frozen"} /\ Close(w, "gone")
    /\ UNCHANGED <<registry, past, asked, pets, heard, asks>>

\* _send_daemon_action_once: the first message, then the request.
Greet(k, s) ==
    /\ client[k] = "greeting" /\ Take(k)
    /\ client' = [client EXCEPT ![k] = "waiting"]
    /\ \E action \in Actions :
          asked' = [asked EXCEPT ![k] = Append(@, [session |-> s, action |-> action])]
    /\ UNCHANGED <<registry, past, pets, heard, asks>>

\* The answer ends the command, any other message is passed over.
Await(k) ==
    /\ client[k] = "waiting" /\ stream[k] # <<>>
    /\ LET message == Head(stream[k])
       IN  IF message.type = "action_result"
           THEN Close(k, IF message.ok THEN "ok" ELSE "refused")
           ELSE Take(k) /\ UNCHANGED client
    /\ UNCHANGED <<registry, past, asked, pets, heard, asks>>

\* Mutant of TimeOut: only the first message is awaited with a time-out.
TimeOutGreeting(k) ==
    /\ client[k] = "greeting" /\ stream[k] = <<>>
    /\ Close(k, "timed_out")
    /\ UNCHANGED <<registry, past, asked, pets, heard, asks>>

\* No message for five seconds: each one that is read gives it five more.
TimeOut(k) ==
    /\ client[k] \in {"greeting", "waiting"} /\ stream[k] = <<>>
    /\ Close(k, "timed_out")
    /\ UNCHANGED <<registry, past, asked, pets, heard, asks>>

-----------------------------------------------------------------------------
Nothing == [s \in Sessions |-> None]

Init ==
    /\ registry = Nothing /\ past = [s \in Sessions |-> {None}]
    /\ ready = <<>> /\ waits = [c \in Clients |-> <<>>]
    /\ writers = {} /\ order \in Orders
    /\ task = [c \in Clients |-> [phase |-> "none", request |-> None, copy |-> None, ok |-> FALSE]]
    /\ stream = [c \in Clients |-> <<>>] /\ paused = {} /\ asked = [c \in Clients |-> <<>>]
    /\ client = [c \in Clients |-> "off"]
    /\ pets = [w \in Widgets |-> Nothing] /\ heard = pets
    /\ news = [w \in Widgets |-> [s \in Sessions |-> "told"]]
    /\ asks = 0

ServerStep(c) == Sent(c) \/ Reply(c) \/ Serve(c) \/ Hangup(c)
CommandStep(k) == Await(k) \/ TimeOut(k) \/ \E s \in Sessions : Greet(k, s)

Next ==
    \/ CastStep
    \/ \E s \in Sessions : Report(s)
    \/ \E c \in Clients : Connect(c) \/ ServerStep(c)
    \/ \E k \in Commands : CommandStep(k)
    \/ \E w \in Widgets : \/ Listen(w) \/ Freeze(w) \/ Quit(w)
                          \/ \E s \in Sessions :
                                \/ OpenPopup(w, s)
                                \/ \E action \in Actions : Submit(w, s, action)

Spec == Init /\ [][Next]_vars

\* The loop of the daemon runs, threads and agents answer, a widget whose loop
\* runs listens, and the time-outs of a command expire.  Users owe nothing.
Fairness ==
    /\ WF_vars(CastStep)
    /\ \A c \in Clients : WF_vars(ServerStep(c))
    /\ \A k \in Commands : WF_vars(CommandStep(k))
    /\ \A w \in Widgets : WF_vars(Listen(w))

FairSpec == Spec /\ Fairness

-----------------------------------------------------------------------------
(* Properties *)

\* The types of the variables: in particular no pet shows what is no status, and a
\* task that sends input or made a change holds the status of a session.
TypeOK ==
    /\ registry \in [Sessions -> Entry] /\ past \in [Sessions -> SUBSET Entry]
    /\ ready \in Seq(Cast) /\ waits \in [Clients -> Seq(Cast)]
    /\ writers \subseteq Clients /\ order \in [Clients -> Int] /\ task \in [Clients -> Task]
    /\ \A c \in Clients : task[c].phase \in {"sending", "changing"} => task[c].copy # None
    /\ stream \in [Clients -> Seq(Message)] /\ paused \subseteq Clients
    /\ asked \in [Clients -> Seq(Request)]
    /\ client \in [Clients -> Phase]
    /\ pets \in [Widgets -> [Sessions -> Entry]] /\ heard \in [Widgets -> [Sessions -> Entry]]
    /\ news \in [Widgets -> [Sessions -> News]] /\ asks \in 0 .. MaxAsks

\* Nothing is on its way to widget w.
Quiet(w) ==
    /\ ready = <<>> /\ \A c \in Clients : waits[c] = <<>>
    /\ stream[w] = <<>> /\ client[w] = "on"

\* However changes, full connections and arrivals overlap, a widget to which
\* nothing is on its way has last heard of every session what the registry
\* holds, unless an older broadcast, which waited at another connection, came to
\* it after the newest; and its pets differ from what it heard only as its own
\* clicks and answers say.
QuietMirror ==
    \A w \in Widgets, s \in Sessions : Quiet(w) =>
        /\ news[w][s] # "late" => heard[w][s] = registry[s]
        /\ pets[w][s] # heard[w][s] =>
              /\ asks > 0 /\ pets[w][s] # None /\ heard[w][s] # None
              /\ pets[w][s].state \in {heard[w][s].state, "running"}
              /\ pets[w][s].unread => heard[w][s].unread

\* The abstract mirror: a widget is linked while it listens, was not told an
\* older change after the newest, and no widget is frozen with its connection open.
Linked(w) ==
    /\ client[w] \in {"greeting", "on"} /\ \A s \in Sessions : news[w][s] # "late"
    /\ \A v \in Widgets : client[v] # "frozen"

Mirror == INSTANCE SessionMirror WITH Absent <- None, source <- registry, copy <- heard,
                                      linked <- [w \in Widgets |-> Linked(w)]

\* What each widget is told implements the abstract mirror: only what the
\* registry once held, and when the sessions change no more what it holds.
WidgetsMirror == Mirror!Spec

SomeFrozen == \E w \in Widgets : client[w] = "frozen"

\* A change returns to the client that made it, although others go on to be
\* made, unless a frozen widget keeps a full connection open.
ChangesReturn ==
    \A c \in Clients : task[c].phase = "changing" ~> task[c].phase # "changing" \/ SomeFrozen

\* A command ends although reports, each of which begins its time-out anew, never
\* do, unless a widget is frozen; then it ends if the reports do.
CommandEnds ==
    \A k \in Commands :
        /\ client[k] \in {"greeting", "waiting"} ~> client[k] \in Over \/ SomeFrozen
        /\ <>[][~\E s \in Sessions : Report(s)]_vars =>
              (client[k] \in {"greeting", "waiting"} ~> client[k] \in Over)

=============================================================================
