----------------------------- MODULE TmuxMonitor -----------------------------
(***************************************************************************)
(* Sessions found in tmux: TmuxMonitorService, whose poll lists the panes, *)
(* captures those that run an agent and retires the sessions whose pane is *)
(* gone, and the dashboard input that clients send to a pane meanwhile.    *)
(*                                                                         *)
(* A poll and an input both read a session's status, wait for tmux in a    *)
(* thread, and then write the whole status back.  The two loops of a poll  *)
(* go round in steps of their own, a little finer than the code's awaits.  *)
(***************************************************************************)
EXTENDS SessionModel

CONSTANTS
    None,       \* no pane, no session, no state
    Panes,      \* the panes tmux may show; a session is named after its pane
    Clients,    \* the clients; each sends input once
    Screens,    \* the states a captured screen, a hook event or an override may give
    MaxChanges, \* bound: starts and ends of agents and panes
    MaxFailures \* bound: polls that fail though tmux answers, and restarts

ASSUME BoundsAssumption == MaxChanges \in Nat /\ MaxFailures \in Nat
ASSUME NoneAssumption == None \notin Panes \cup Clients \cup AttentionState
ASSUME ScreensAssumption == Screens \subseteq AttentionState

\* Of a status: is it live (then it offers TMUX_LIVE_ACTIONS, else the
\* inactive ones), its state, and the client whose input it shows.
Status == [live : BOOLEAN, state : AttentionState, input : Clients \cup {None}]
Entry  == Status \cup {None}

ASSUME StatusAssumption == None \notin Status

\* poll_once.  "upserting", "retiring": at the head of its first and second
\* loop, todo being what is left; "capturing": in capture_pane; "captured": in
\* the transcript append; "registering", "retired": in an upsert.
PollPhase == {"idle", "upserting", "capturing", "captured", "registering",
              "retiring", "retired"}
Poll == [phase : PollPhase, todo : SUBSET Panes, current : SUBSET Panes,
         pane : Panes \cup {None}, copy : Entry, found : Screens \cup {None}]

\* A request, from the router to its answer.  "recording": in the upsert of
\* the copy.  "raised": an exception, or the restart, took the answer away.
InFlight == {"appending", "pasting", "pasted", "entered", "recording"}
Request  == [phase : {"unsent", "answered", "raised"} \cup InFlight,
             pane : Panes \cup {None}, copy : Entry, delivered : BOOLEAN,
             answer : {"none", "delivered", "tmux_paste_failed", "refused"}]

VARIABLES
    pane,     \* tmux: what runs in each pane
    registry, \* the session of each pane
    channel,  \* _action_handlers: sessions with a control channel
    known,    \* _known_tmux_sessions
    poll,     \* the poll in progress
    request,  \* each client's input
    changes, failures \* how many so far

counts == <<changes, failures>>
vars   == <<pane, registry, channel, known, poll, request, counts>>

\* The server of tmux runs as long as a pane does.
Served == \E p \in Panes : pane[p] # "absent"

-----------------------------------------------------------------------------
(* A poll, poll_once *)

Idle == [phase |-> "idle", todo |-> {}, current |-> {}, pane |-> None,
         copy |-> None, found |-> None]

Goes(phase) == poll' = [poll EXCEPT !.phase = phase]

\* The panes are listed and those with an agent picked.  Without a server
\* list_panes fails, and the poll ends as it began.
List ==
    /\ poll.phase = "idle" /\ Served
    /\ LET seen == {p \in Panes : pane[p] = "agent"}
       IN  poll' = [Idle EXCEPT !.phase = "upserting", !.todo = seen, !.current = seen]
    /\ UNCHANGED <<pane, registry, channel, known, request, counts>>

\* The status is read before the capture begins.
ReadStatus(p) ==
    /\ poll.phase = "upserting" /\ p \in poll.todo
    /\ poll' = [poll EXCEPT !.phase = "capturing", !.todo = @ \ {p},
                            !.pane = p, !.copy = registry[p]]
    /\ UNCHANGED <<pane, registry, channel, known, request, counts>>

\* The pane answers, whatever runs in it by now.
Capture ==
    /\ poll.phase = "capturing" /\ pane[poll.pane] # "absent"
    /\ \E state \in Screens :
          poll' = [poll EXCEPT !.phase = "captured", !.found = state]
    /\ UNCHANGED <<pane, registry, channel, known, request, counts>>

\* Mutant of CaptureFails: the failed capture is not the end of the poll.
CaptureSkipped ==
    /\ poll.phase = "capturing" /\ pane[poll.pane] = "absent"
    /\ Goes("captured")
    /\ UNCHANGED <<pane, registry, channel, known, request, counts>>

\* The pane closed after the listing: the exception ends the poll, and known
\* stays as it was.
CaptureFails ==
    /\ poll.phase = "capturing" /\ pane[poll.pane] = "absent"
    /\ poll' = Idle
    /\ UNCHANGED <<pane, registry, channel, known, request, counts>>

\* The status built from the screen and from the copy is upserted.
UpsertMatched ==
    /\ poll.phase = "captured"
    /\ registry' = [registry EXCEPT ![poll.pane] =
          [live |-> TRUE, state |-> poll.found,
           input |-> IF poll.copy = None THEN None ELSE poll.copy.input]]
    /\ Goes("registering")
    /\ UNCHANGED <<pane, channel, known, request, counts>>

\* Mutant of Register: a channel for new sessions only.
RegisterNew ==
    /\ poll.phase = "registering"
    /\ channel' = IF poll.copy = None THEN channel \cup {poll.pane} ELSE channel
    /\ Goes("upserting")
    /\ UNCHANGED <<pane, registry, known, request, counts>>

\* The upsert is over; only now is the control channel registered.
Register ==
    /\ poll.phase = "registering"
    /\ channel' = channel \cup {poll.pane}
    /\ Goes("upserting")
    /\ UNCHANGED <<pane, registry, known, request, counts>>

\* Every matched pane is done: what is known but was not listed disappeared.
Compare ==
    /\ poll.phase = "upserting" /\ poll.todo = {}
    /\ poll' = [poll EXCEPT !.phase = "retiring", !.todo = known \ poll.current]
    /\ UNCHANGED <<pane, registry, channel, known, request, counts>>

\* A disappeared session: completed, or still failed, and not live.
Disappeared(status) ==
    [status EXCEPT !.live = FALSE,
                   !.state = IF @ = "failed" THEN @ ELSE "completed"]

\* Mutant of MarkDisappeared: a failed session is left as it is.
MarkUnlessFailed(p) ==
    /\ poll.phase = "retiring" /\ p \in poll.todo
    /\ channel' = channel \ {p}
    /\ IF registry[p] = None \/ registry[p].state = "failed"
       THEN poll' = [poll EXCEPT !.todo = @ \ {p}] /\ UNCHANGED registry
       ELSE /\ poll' = [poll EXCEPT !.todo = @ \ {p}, !.phase = "retired"]
            /\ registry' = [registry EXCEPT ![p] = Disappeared(@)]
    /\ UNCHANGED <<pane, known, request, counts>>

\* Mutant of MarkDisappeared: the control channel stays.
MarkWithChannel(p) ==
    /\ poll.phase = "retiring" /\ p \in poll.todo
    /\ IF registry[p] = None
       THEN poll' = [poll EXCEPT !.todo = @ \ {p}] /\ UNCHANGED registry
       ELSE /\ poll' = [poll EXCEPT !.todo = @ \ {p}, !.phase = "retired"]
            /\ registry' = [registry EXCEPT ![p] = Disappeared(@)]
    /\ UNCHANGED <<pane, channel, known, request, counts>>

\* _mark_disappeared
MarkDisappeared(p) ==
    /\ poll.phase = "retiring" /\ p \in poll.todo
    /\ channel' = channel \ {p}
    /\ IF registry[p] = None
       THEN poll' = [poll EXCEPT !.todo = @ \ {p}] /\ UNCHANGED registry
       ELSE /\ poll' = [poll EXCEPT !.todo = @ \ {p}, !.phase = "retired"]
            /\ registry' = [registry EXCEPT ![p] = Disappeared(@)]
    /\ UNCHANGED <<pane, known, request, counts>>

\* The upsert of _mark_disappeared is over.
Marked ==
    /\ poll.phase = "retired"
    /\ Goes("retiring")
    /\ UNCHANGED <<pane, registry, channel, known, request, counts>>

\* The poll is complete: what it listed is what is known.
Finish ==
    /\ poll.phase = "retiring" /\ poll.todo = {}
    /\ known' = poll.current /\ poll' = Idle
    /\ UNCHANGED <<pane, registry, channel, request, counts>>

\* A subscriber of the registry, the transcript store or tmux raises, and run
\* swallows it: the poll ends where it is.
PollFails ==
    /\ poll.phase \in {"capturing", "captured", "registering", "retired"}
    /\ failures < MaxFailures /\ failures' = failures + 1
    /\ poll' = Idle
    /\ UNCHANGED <<pane, registry, channel, known, request, changes>>

-----------------------------------------------------------------------------
(* Dashboard input: SessionActionRouter, then _handle_action *)

\* The router and _handle_action read the status in one go.  An inactive
\* session, one without a channel, or one that does not offer the action is
\* refused.
Ask(c, p) ==
    /\ request[c].phase = "unsent"
    /\ request' = [request EXCEPT ![c] =
          IF p \in channel /\ registry[p] # None /\ registry[p].live
          THEN [@ EXCEPT !.phase = "appending", !.pane = p, !.copy = registry[p]]
          ELSE [@ EXCEPT !.phase = "answered", !.pane = p, !.answer = "refused"]]
    /\ UNCHANGED <<pane, registry, channel, known, poll, counts>>

\* The input is in the transcript; the thread that sends it begins.
Appended(c) ==
    /\ request[c].phase = "appending"
    /\ request' = [request EXCEPT ![c].phase = "pasting"]
    /\ UNCHANGED <<pane, registry, channel, known, poll, counts>>

\* paste-buffer puts the text into the pane, whatever runs in it by now.
Paste(c) ==
    /\ request[c].phase = "pasting" /\ pane[request[c].pane] # "absent"
    /\ request' = [request EXCEPT ![c].phase = "pasted", ![c].delivered = TRUE]
    /\ UNCHANGED <<pane, registry, channel, known, poll, counts>>

\* send-keys Enter.
Enter(c) ==
    /\ request[c].phase = "pasted" /\ pane[request[c].pane] # "absent"
    /\ request' = [request EXCEPT ![c].phase = "entered"]
    /\ UNCHANGED <<pane, registry, channel, known, poll, counts>>

\* Mutant of SendFails: the exception is swallowed in the thread.
SendFailsUnseen(c) ==
    /\ request[c].phase \in {"pasting", "pasted"} /\ pane[request[c].pane] = "absent"
    /\ request' = [request EXCEPT ![c].phase = "entered"]
    /\ UNCHANGED <<pane, registry, channel, known, poll, counts>>

\* The pane is gone: the answer says so, though the text may have arrived.
SendFails(c) ==
    /\ request[c].phase \in {"pasting", "pasted"} /\ pane[request[c].pane] = "absent"
    /\ request' = [request EXCEPT ![c].phase = "answered", ![c].answer = "tmux_paste_failed"]
    /\ UNCHANGED <<pane, registry, channel, known, poll, counts>>

\* The copy, with the input and running, is upserted.
Record(c) ==
    /\ request[c].phase = "entered"
    /\ registry' = [registry EXCEPT ![request[c].pane] =
          [request[c].copy EXCEPT !.state = "running", !.input = c]]
    /\ request' = [request EXCEPT ![c].phase = "recording"]
    /\ UNCHANGED <<pane, channel, known, poll, counts>>

\* The upsert is over.
Answer(c) ==
    /\ request[c].phase = "recording"
    /\ request' = [request EXCEPT ![c].phase = "answered", ![c].answer = "delivered"]
    /\ UNCHANGED <<pane, registry, channel, known, poll, counts>>

\* The transcript store or a subscriber of the registry raises: nothing
\* answers the client.
AskFails(c) ==
    /\ request[c].phase \in {"appending", "recording"}
    /\ failures < MaxFailures /\ failures' = failures + 1
    /\ request' = [request EXCEPT ![c].phase = "raised"]
    /\ UNCHANGED <<pane, registry, channel, known, poll, changes>>

-----------------------------------------------------------------------------
(* Others who write the registry *)

\* A hook event or a manual override gives a session another state.
Restate(p, state) ==
    /\ registry[p] # None
    /\ registry' = [registry EXCEPT ![p].state = state]
    /\ UNCHANGED <<pane, channel, known, poll, request, counts>>

\* hide_pet: refused while the session has a control channel.  The timed
\* removal of completed inactive sessions is among these steps.
Hide(p) ==
    /\ registry[p] # None /\ p \notin channel
    /\ registry' = [registry EXCEPT ![p] = None]
    /\ UNCHANGED <<pane, channel, known, poll, request, counts>>

\* An orderly stop saves the registry; the next start restores it inactive,
\* and the poll starts with nothing known.
Restart ==
    /\ failures < MaxFailures /\ failures' = failures + 1
    /\ channel' = {} /\ known' = {} /\ poll' = Idle
    /\ registry' = [p \in Panes |->
          IF registry[p] = None THEN None ELSE [registry[p] EXCEPT !.live = FALSE]]
    /\ request' = [c \in Clients |->
          IF request[c].phase \in InFlight THEN [request[c] EXCEPT !.phase = "raised"]
          ELSE request[c]]
    /\ UNCHANGED <<pane, changes>>

-----------------------------------------------------------------------------
(* tmux *)

\* An agent starts in an open pane or leaves it to the shell, or a pane
\* closes.  A pane of that name comes back only with a new server, which
\* numbers from the start; a pane opened meanwhile is one that was "other".
Change(p) ==
    /\ changes < MaxChanges /\ changes' = changes + 1
    /\ \/ pane[p] # "absent" /\ pane' = [pane EXCEPT ![p] = "absent"]
       \/ pane[p] = "other" /\ pane' = [pane EXCEPT ![p] = "agent"]
       \/ pane[p] = "agent" /\ pane' = [pane EXCEPT ![p] = "other"]
       \/ ~Served /\ pane' = [pane EXCEPT ![p] = "other"]
    /\ UNCHANGED <<registry, channel, known, poll, request, failures>>

Init ==
    /\ pane \in [Panes -> {"agent", "other", "absent"}]
    /\ registry = [p \in Panes |-> None]
    /\ channel = {} /\ known = {} /\ poll = Idle
    /\ request = [c \in Clients |-> [phase |-> "unsent", pane |-> None, copy |-> None,
                                     delivered |-> FALSE, answer |-> "none"]]
    /\ changes = 0 /\ failures = 0

PollStep ==
    \/ List \/ Capture \/ CaptureFails \/ UpsertMatched \/ Register
    \/ Compare \/ Marked \/ Finish
    \/ \E p \in Panes : ReadStatus(p) \/ MarkDisappeared(p)

RequestStep(c) ==
    Appended(c) \/ Paste(c) \/ Enter(c) \/ SendFails(c) \/ Record(c) \/ Answer(c)

Next ==
    \/ PollStep \/ PollFails \/ Restart
    \/ \E c \in Clients : RequestStep(c) \/ AskFails(c) \/ \E p \in Panes : Ask(c, p)
    \/ \E p \in Panes : Hide(p) \/ Change(p) \/ \E state \in Screens : Restate(p, state)

Spec == Init /\ [][Next]_vars

\* run polls for ever, and the loop resumes what has returned.  Nothing is
\* assumed of tmux, of clients or of those who restart the daemon.
FairSpec == Spec /\ WF_vars(PollStep) /\ \A c \in Clients : WF_vars(RequestStep(c))

-----------------------------------------------------------------------------
(* Properties *)

\* The types of the variables: in particular no status ever has a state the
\* classifier did not give it, and no loop holds a pane it did not read.
TypeOK ==
    /\ pane \in [Panes -> {"agent", "other", "absent"}]
    /\ registry \in [Panes -> Entry]
    /\ channel \subseteq Panes /\ known \subseteq Panes
    /\ poll \in Poll
    /\ request \in [Clients -> Request]
    /\ changes \in 0 .. MaxChanges /\ failures \in 0 .. MaxFailures

\* A session that says it is inactive has no control channel, whatever stale
\* copies polls and inputs write back: has_live_session, by which the router
\* admits input and refuses hide_pet, never contradicts what clients see.
InactiveHasNoChannel ==
    \A p \in Panes : p \in channel /\ registry[p] # None => registry[p].live

\* An answer is true of the pane: "delivered" means that the text was pasted,
\* a refusal that it was not.
AnswerIsTrue ==
    \A c \in Clients :
        /\ request[c].answer = "delivered" => request[c].delivered
        /\ request[c].answer = "refused" => ~request[c].delivered

\* An agent that stays in its pane is in the end a live session with a
\* channel for good: failed polls, restarts, dismissals and stale writes do
\* not keep it away.
AgentAppears ==
    \A p \in Panes :
        <>[](pane[p] = "agent") =>
            <>[](registry[p] # None /\ registry[p].live /\ p \in channel)

\* A session that the last complete poll knew is inactive at some time after
\* its agent is gone, unless the agent comes back or the tmux server exits:
\* failed polls and inputs in flight may delay that, no more.
GoneIsRetired ==
    \A p \in Panes :
        poll.phase = "idle" /\ p \in known /\ pane[p] # "agent" ~>
            \/ registry[p] = None \/ ~registry[p].live
            \/ pane[p] = "agent" \/ ~Served

\* A session without agent becomes inactive and stays so.  It does not:
\* nothing marks it when the tmux server exited with its last pane, when the
\* poll that found it failed, or when an input writes its copy back.
GoneIsInactive ==
    \A p \in Panes :
        <>[](pane[p] # "agent") => <>[](registry[p] = None \/ ~registry[p].live)

=============================================================================
