-------------------------- MODULE TmuxMonitorProofs --------------------------
(***************************************************************************)
(* Proofs about TmuxMonitor: for any panes, clients and screens, and any   *)
(* number of polls, inputs, failures and restarts.                         *)
(***************************************************************************)
EXTENDS TmuxMonitor, TLAPS

\* What a poll holds where it uses it: between ReadStatus and Register it has
\* a pane, and from the capture to the upsert a state.
PollHolds ==
    /\ poll.phase \in {"capturing", "captured", "registering"} => poll.pane \in Panes
    /\ poll.phase = "captured" => poll.found \in Screens

\* What an input in flight holds: the pane and the copy the router accepted.
RequestHolds(r) ==
    r.phase \in InFlight => r.pane \in Panes /\ r.copy \in Status

TypeInv == TypeOK /\ PollHolds /\ \A c \in Clients : RequestHolds(request[c])

\* An input is admitted from a live copy, so that what it writes back is live.
CopyIsLive(r) == r.phase \in InFlight => r.copy.live

\* A channel, or the upsert that one will follow, belongs to a session that is
\* live or dismissed meanwhile.
Reachable(p) == p \in channel \/ (poll.phase = "registering" /\ poll.pane = p)

ChannelInv ==
    /\ \A p \in Panes : Reachable(p) /\ registry[p] # None => registry[p].live
    /\ \A c \in Clients : CopyIsLive(request[c])

\* How far an input got and whether its text is in the pane.
AnswerInv ==
    \A c \in Clients :
        /\ request[c].phase \in {"unsent", "appending", "pasting"} => ~request[c].delivered
        /\ request[c].phase \in {"pasted", "entered", "recording"} => request[c].delivered
        /\ request[c].phase # "answered" => request[c].answer = "none"
        /\ request[c].answer = "delivered" => request[c].delivered
        /\ request[c].answer = "refused" => ~request[c].delivered

-----------------------------------------------------------------------------

(* Types *)

LEMMA InitTypeInv == Init => TypeInv
<1> SUFFICES ASSUME Init PROVE TypeInv
  OBVIOUS
<1>1. TypeOK
  BY BoundsAssumption DEF Init, TypeOK, Entry, Poll, PollPhase, Idle, Request
<1>2. PollHolds
  BY DEF Init, PollHolds, Idle
<1>3. \A c \in Clients : RequestHolds(request[c])
  BY DEF Init, RequestHolds, InFlight
<1>4. QED
  BY <1>1, <1>2, <1>3 DEF TypeInv

LEMMA IdleType == Idle \in Poll
BY DEF Idle, Poll, PollPhase, Entry

\* The poll's own steps.
LEMMA TypePollStep == ASSUME TypeInv, PollStep PROVE TypeInv'
<1> USE DEF TypeInv, TypeOK, PollHolds, counts
<1>1. CASE List
  BY <1>1 DEF List, Poll, PollPhase, Idle, Entry
<1>2. CASE Capture
  BY <1>2 DEF Capture, Poll, PollPhase
<1>3. CASE CaptureFails
  BY <1>3, IdleType DEF CaptureFails, Idle
<1>4. CASE UpsertMatched
  BY <1>4, ScreensAssumption DEF UpsertMatched, Goes, Poll, PollPhase, Entry, Status
<1>5. CASE Register
  BY <1>5 DEF Register, Goes, Poll, PollPhase
<1>6. CASE Compare
  BY <1>6 DEF Compare, Poll, PollPhase
<1>7. CASE Marked
  BY <1>7 DEF Marked, Goes, Poll, PollPhase
<1>8. CASE Finish
  BY <1>8, IdleType DEF Finish, Idle, Poll
<1>9. ASSUME NEW p \in Panes, ReadStatus(p) PROVE TypeInv'
  BY <1>9 DEF ReadStatus, Poll, PollPhase
<1>10. ASSUME NEW p \in Panes, MarkDisappeared(p) PROVE TypeInv'
  <2>1. \/ poll' = [poll EXCEPT !.todo = @ \ {p}]
        \/ poll' = [poll EXCEPT !.todo = @ \ {p}, !.phase = "retired"]
    BY <1>10, Zenon DEF MarkDisappeared
  <2>2. poll.phase = "retiring"
    BY <1>10 DEF MarkDisappeared
  <2>3. poll' \in Poll /\ PollHolds'
    BY <2>1, <2>2 DEF Poll, PollPhase
  <2>4. registry[p] # None => Disappeared(registry[p]) \in Status
    BY DEF Disappeared, Entry, Status, AttentionState
  <2>5. registry' \in [Panes -> Entry]
    BY <1>10, <2>4 DEF MarkDisappeared, Entry
  <2>6. QED
    BY <1>10, <2>3, <2>5 DEF MarkDisappeared
<1>11. QED
  BY <1>1, <1>2, <1>3, <1>4, <1>5, <1>6, <1>7, <1>8, <1>9, <1>10 DEF PollStep

\* A client's own steps.
LEMMA TypeRequestStep ==
    ASSUME TypeInv, NEW c \in Clients, RequestStep(c) PROVE TypeInv'
<1> DEFINE r == request[c]
<1> USE DEF TypeInv, TypeOK, PollHolds, RequestHolds, InFlight, counts
<1>1. CASE Appended(c)
  BY <1>1 DEF Appended, Request
<1>2. CASE Paste(c)
  BY <1>2 DEF Paste, Request
<1>3. CASE Enter(c)
  BY <1>3 DEF Enter, Request
<1>4. CASE SendFails(c)
  BY <1>4 DEF SendFails, Request
<1>5. CASE Record(c)
  <2>1. r.pane \in Panes /\ r.copy \in Status
    BY <1>5 DEF Record
  <2>2. [r.copy EXCEPT !.state = "running", !.input = c] \in Entry
    BY <2>1 DEF Entry, Status, AttentionState
  <2>3. registry' \in [Panes -> Entry]
    BY <1>5, <2>1, <2>2 DEF Record
  <2>4. QED
    BY <1>5, <2>1, <2>3 DEF Record, Request
<1>6. CASE Answer(c)
  <2>1. [r EXCEPT !.phase = "answered", !.answer = "delivered"] \in Request
    BY DEF Request
  <2>2. request' \in [Clients -> Request]
    BY <1>6, <2>1 DEF Answer
  <2>3. \A d \in Clients : RequestHolds(request'[d])
    BY <1>6 DEF Answer, Request
  <2>4. QED
    BY <1>6, <2>2, <2>3 DEF Answer
<1>7. QED
  BY <1>1, <1>2, <1>3, <1>4, <1>5, <1>6 DEF RequestStep

\* What the restart leaves of a request.
LEMMA TypeRestart == ASSUME TypeInv, Restart PROVE TypeInv'
<1> USE DEF TypeInv, TypeOK
<1>1. registry' \in [Panes -> Entry]
  BY DEF Restart, Entry, Status
<1>2. ASSUME NEW c \in Clients PROVE request'[c] \in Request /\ RequestHolds(request'[c])
  BY DEF Restart, Request, RequestHolds, InFlight
<1>3. poll' \in Poll /\ PollHolds'
  BY IdleType DEF Restart, PollHolds, Idle
<1>4. failures' \in 0 .. MaxFailures
  BY BoundsAssumption DEF Restart
<1>5. request' \in [Clients -> Request]
  BY <1>2 DEF Restart
<1>6. \A c \in Clients : RequestHolds(request[c])'
  BY <1>2 DEF RequestHolds
<1>7. QED
  BY <1>1, <1>3, <1>4, <1>5, <1>6 DEF Restart

LEMMA TypeStep == TypeInv /\ [Next]_vars => TypeInv'
<1> SUFFICES ASSUME TypeInv, [Next]_vars PROVE TypeInv'
  OBVIOUS
<1> USE DEF counts
<1>1. CASE PollStep
  BY <1>1, TypePollStep
<1>2. CASE PollFails
  BY <1>2, IdleType, BoundsAssumption
  DEF PollFails, TypeInv, TypeOK, PollHolds, RequestHolds, Idle
<1>3. CASE Restart
  BY <1>3, TypeRestart
<1>4. ASSUME NEW c \in Clients, RequestStep(c) PROVE TypeInv'
  BY <1>4, TypeRequestStep
<1>5. ASSUME NEW c \in Clients, AskFails(c) PROVE TypeInv'
  BY <1>5, BoundsAssumption
  DEF AskFails, TypeInv, TypeOK, PollHolds, RequestHolds, InFlight, Request
<1>6. ASSUME NEW c \in Clients, NEW p \in Panes, Ask(c, p) PROVE TypeInv'
  <2>1. registry[p] # None => registry[p] \in Status
    BY DEF TypeInv, TypeOK, Entry
  <2> DEFINE r == request[c]
             admitted == [r EXCEPT !.phase = "appending", !.pane = p, !.copy = registry[p]]
             refused  == [r EXCEPT !.phase = "answered", !.pane = p, !.answer = "refused"]
  <2>2. r \in Request
    BY DEF TypeInv, TypeOK
  <2>3. registry[p] # None => admitted \in Request /\ RequestHolds(admitted)
    BY <2>1, <2>2 DEF Request, RequestHolds, InFlight, Entry
  <2>4. refused \in Request /\ RequestHolds(refused)
    BY <2>2 DEF Request, RequestHolds, InFlight
  <2>5. \/ registry[p] # None /\ request' = [request EXCEPT ![c] = admitted]
        \/ request' = [request EXCEPT ![c] = refused]
    BY <1>6, Zenon DEF Ask
  <2>6. request' \in [Clients -> Request] /\ \A d \in Clients : RequestHolds(request'[d])
    <3> HIDE DEF admitted, refused
    <3>1. QED
      BY <2>3, <2>4, <2>5 DEF TypeInv, TypeOK
  <2>7. QED
    BY <1>6, <2>6 DEF Ask, TypeInv, TypeOK, PollHolds, RequestHolds
<1>7. ASSUME NEW p \in Panes, Hide(p) PROVE TypeInv'
  BY <1>7 DEF Hide, TypeInv, TypeOK, PollHolds, RequestHolds, Entry
<1>8. ASSUME NEW p \in Panes, Change(p) PROVE TypeInv'
  BY <1>8, BoundsAssumption DEF Change, TypeInv, TypeOK, PollHolds, RequestHolds
<1>9. ASSUME NEW p \in Panes, NEW state \in Screens, Restate(p, state) PROVE TypeInv'
  BY <1>9, ScreensAssumption
  DEF Restate, TypeInv, TypeOK, PollHolds, RequestHolds, Entry, Status
<1>10. CASE UNCHANGED vars
  BY <1>10 DEF vars, TypeInv, TypeOK, PollHolds, RequestHolds
<1>11. QED
  BY <1>1, <1>2, <1>3, <1>4, <1>5, <1>6, <1>7, <1>8, <1>9, <1>10 DEF Next

\* Type correctness: in every reachable state a poll and an input hold the
\* pane, the copy and the state they are about to use.
THEOREM TypeCorrect == Spec => []TypeOK
<1>1. Spec => []TypeInv
  BY InitTypeInv, TypeStep, PTL DEF Spec
<1>2. TypeInv => TypeOK
  BY DEF TypeInv
<1>3. QED
  BY <1>1, <1>2, PTL

-----------------------------------------------------------------------------
(* Channels *)

LEMMA InitChannelInv == Init => ChannelInv
BY DEF Init, ChannelInv, Reachable, CopyIsLive, InFlight, Idle

\* The part of ChannelInv about sessions.
SessionsReachable == \A p \in Panes : Reachable(p) /\ registry[p] # None => registry[p].live

LEMMA ReachablePollStep ==
    ASSUME TypeInv, SessionsReachable, PollStep PROVE SessionsReachable'
<1> USE DEF SessionsReachable, Reachable, TypeInv, TypeOK, PollHolds
<1>1. CASE List
  BY <1>1 DEF List, Idle
<1>2. CASE Capture
  BY <1>2 DEF Capture, Poll
<1>3. CASE CaptureFails
  BY <1>3 DEF CaptureFails, Idle
<1>4. CASE UpsertMatched
  BY <1>4 DEF UpsertMatched, Goes, Poll
<1>5. CASE Register
  BY <1>5 DEF Register, Goes, Poll
<1>6. CASE Compare
  BY <1>6 DEF Compare, Poll
<1>7. CASE Marked
  BY <1>7 DEF Marked, Goes, Poll
<1>8. CASE Finish
  BY <1>8 DEF Finish, Idle
<1>9. ASSUME NEW p \in Panes, ReadStatus(p) PROVE SessionsReachable'
  BY <1>9 DEF ReadStatus, Poll
<1>10. ASSUME NEW p \in Panes, MarkDisappeared(p) PROVE SessionsReachable'
  <2>1. poll.phase = "retiring" /\ channel' = channel \ {p}
    BY <1>10 DEF MarkDisappeared
  <2>2. \/ poll' = [poll EXCEPT !.todo = @ \ {p}]
        \/ poll' = [poll EXCEPT !.todo = @ \ {p}, !.phase = "retired"]
    BY <1>10, Zenon DEF MarkDisappeared
  <2>3. poll'.phase # "registering"
    BY <2>1, <2>2 DEF Poll
  <2>4. \A q \in Panes \ {p} : registry'[q] = registry[q]
    BY <1>10 DEF MarkDisappeared
  <2>5. QED
    BY <2>1, <2>3, <2>4
<1>11. QED
  BY <1>1, <1>2, <1>3, <1>4, <1>5, <1>6, <1>7, <1>8, <1>9, <1>10 DEF PollStep

\* Requests are asked with a live copy, and their copy never changes.
LEMMA CopyStep ==
    ASSUME TypeInv, \A c \in Clients : CopyIsLive(request[c]), [Next]_vars
    PROVE  \A c \in Clients : CopyIsLive(request'[c])
<1> USE DEF CopyIsLive, InFlight, TypeInv, TypeOK, Request
<1>1. CASE PollStep
  BY <1>1 DEF PollStep, List, Capture, CaptureFails, UpsertMatched, Register, Compare,
              Marked, Finish, ReadStatus, MarkDisappeared
<1>2. CASE PollFails
  BY <1>2 DEF PollFails
<1>3. CASE Restart
  BY <1>3 DEF Restart
<1>4. ASSUME NEW c \in Clients, RequestStep(c) PROVE \A d \in Clients : CopyIsLive(request'[d])
  BY <1>4 DEF RequestStep, Appended, Paste, Enter, SendFails, Record, Answer
<1>5. ASSUME NEW c \in Clients, AskFails(c) PROVE \A d \in Clients : CopyIsLive(request'[d])
  BY <1>5 DEF AskFails
<1>6. ASSUME NEW c \in Clients, NEW p \in Panes, Ask(c, p)
      PROVE  \A d \in Clients : CopyIsLive(request'[d])
  BY <1>6 DEF Ask
<1>7. ASSUME NEW p \in Panes, Hide(p) PROVE \A d \in Clients : CopyIsLive(request'[d])
  BY <1>7 DEF Hide
<1>8. ASSUME NEW p \in Panes, Change(p) PROVE \A d \in Clients : CopyIsLive(request'[d])
  BY <1>8 DEF Change
<1>9. ASSUME NEW p \in Panes, NEW state \in Screens, Restate(p, state)
      PROVE  \A d \in Clients : CopyIsLive(request'[d])
  BY <1>9 DEF Restate
<1>10. CASE UNCHANGED vars
  BY <1>10 DEF vars
<1>11. QED
  BY <1>1, <1>2, <1>3, <1>4, <1>5, <1>6, <1>7, <1>8, <1>9, <1>10 DEF Next

LEMMA ChannelStep == TypeInv /\ ChannelInv /\ [Next]_vars => ChannelInv'
<1> SUFFICES ASSUME TypeInv, ChannelInv, [Next]_vars PROVE SessionsReachable'
  BY CopyStep DEF ChannelInv, SessionsReachable
<1>0. SessionsReachable /\ \A c \in Clients : CopyIsLive(request[c])
  BY DEF ChannelInv, SessionsReachable
<1>1. CASE PollStep
  BY <1>0, <1>1, ReachablePollStep
<1> USE DEF SessionsReachable, Reachable, TypeInv, TypeOK
<1>2. CASE PollFails
  BY <1>0, <1>2 DEF PollFails, Idle
<1>3. CASE Restart
  BY <1>3 DEF Restart, Idle
<1>4. ASSUME NEW c \in Clients, RequestStep(c) PROVE SessionsReachable'
  <2>1. CASE Record(c)
    <3>1. request[c].copy \in Status /\ request[c].copy.live
      BY <1>0, <2>1 DEF Record, RequestHolds, CopyIsLive, InFlight
    <3>2. [request[c].copy EXCEPT !.state = "running", !.input = c].live
      BY <3>1 DEF Status
    <3>3. QED
      BY <1>0, <2>1, <3>2 DEF Record
  <2>2. CASE ~Record(c)
    BY <1>0, <1>4, <2>2 DEF RequestStep, Appended, Paste, Enter, SendFails, Answer
  <2>3. QED
    BY <2>1, <2>2
<1>5. ASSUME NEW c \in Clients, AskFails(c) PROVE SessionsReachable'
  BY <1>0, <1>5 DEF AskFails
<1>6. ASSUME NEW c \in Clients, NEW p \in Panes, Ask(c, p) PROVE SessionsReachable'
  BY <1>0, <1>6 DEF Ask
<1>7. ASSUME NEW p \in Panes, Hide(p) PROVE SessionsReachable'
  BY <1>0, <1>7 DEF Hide
<1>8. ASSUME NEW p \in Panes, Change(p) PROVE SessionsReachable'
  BY <1>0, <1>8 DEF Change
<1>9. ASSUME NEW p \in Panes, NEW state \in Screens, Restate(p, state)
      PROVE  SessionsReachable'
  BY <1>0, <1>9 DEF Restate, Entry, Status
<1>10. CASE UNCHANGED vars
  BY <1>0, <1>10 DEF vars
<1>11. QED
  BY <1>1, <1>2, <1>3, <1>4, <1>5, <1>6, <1>7, <1>8, <1>9, <1>10 DEF Next

\* An inactive session never has a control channel: what the registry shows
\* and what the router goes by agree, though neither polls nor inputs write
\* what they have just read.
THEOREM InactiveIsDismissable == Spec => []InactiveHasNoChannel
<1>1. Spec => [](TypeInv /\ ChannelInv)
  BY InitTypeInv, TypeStep, InitChannelInv, ChannelStep, PTL DEF Spec
<1>2. ChannelInv => InactiveHasNoChannel
  BY DEF ChannelInv, Reachable, InactiveHasNoChannel
<1>3. QED
  BY <1>1, <1>2, PTL

-----------------------------------------------------------------------------
(* Answers *)

LEMMA InitAnswerInv == Init => AnswerInv
BY DEF Init, AnswerInv

LEMMA AnswerStep == TypeInv /\ AnswerInv /\ [Next]_vars => AnswerInv'
<1> SUFFICES ASSUME TypeInv, AnswerInv, [Next]_vars PROVE AnswerInv'
  OBVIOUS
<1> USE DEF AnswerInv, InFlight, TypeInv, TypeOK, Request
<1>1. CASE PollStep
  BY <1>1 DEF PollStep, List, Capture, CaptureFails, UpsertMatched, Register, Compare,
              Marked, Finish, ReadStatus, MarkDisappeared
<1>2. CASE PollFails
  BY <1>2 DEF PollFails
<1>3. CASE Restart
  BY <1>3 DEF Restart
<1>4. ASSUME NEW c \in Clients, RequestStep(c) PROVE AnswerInv'
  BY <1>4 DEF RequestStep, Appended, Paste, Enter, SendFails, Record, Answer
<1>5. ASSUME NEW c \in Clients, AskFails(c) PROVE AnswerInv'
  BY <1>5 DEF AskFails
<1>6. ASSUME NEW c \in Clients, NEW p \in Panes, Ask(c, p) PROVE AnswerInv'
  BY <1>6 DEF Ask
<1>7. CASE \E p \in Panes : Hide(p) \/ Change(p) \/ \E state \in Screens : Restate(p, state)
  BY <1>7 DEF Hide, Change, Restate
<1>8. CASE UNCHANGED vars
  BY <1>8 DEF vars
<1>9. QED
  BY <1>1, <1>2, <1>3, <1>4, <1>5, <1>6, <1>7, <1>8 DEF Next

\* What an answer says happened to the text did happen.
THEOREM AnswersAreTrue == Spec => []AnswerIsTrue
<1>1. Spec => [](TypeInv /\ AnswerInv)
  BY InitTypeInv, TypeStep, InitAnswerInv, AnswerStep, PTL DEF Spec
<1>2. AnswerInv => AnswerIsTrue
  BY DEF AnswerInv, AnswerIsTrue
<1>3. QED
  BY <1>1, <1>2, PTL

=============================================================================
