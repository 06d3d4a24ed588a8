------------------------------ MODULE Transcripts ------------------------------
(***************************************************************************)
(* The transcript of one tmux session: the monitor compares what a pane    *)
(* shows with what it showed before and stores the new lines, input from   *)
(* the dashboard is stored beside it, and a client that asked for the      *)
(* transcript is told of every row stored after.  The monitor, the input   *)
(* and the request are tasks that interleave at each await.                *)
(*                                                                         *)
(* No two lines are alike here: a line is its number in the order of       *)
(* printing.  A line printed over another is a new one.                    *)
(***************************************************************************)
EXTENDS Files, Naturals, Sequences, FiniteSets

CONSTANTS
    Window,        \* lines captured
    FirstLines,    \* lines stored when nothing is known of before
    Keep,          \* rows that pruning leaves
    Limit,         \* rows that a client asks for
    MaxLines,      \* bound: lines printed
    MaxClock,      \* bound: instants, one for each poll, input and complaint
    MaxInputs, MaxRequests, \* bounds: inputs and requests
    MaxFaults      \* bound: failures and restarts

ASSUME TranscriptAssumption ==
    /\ {Window, FirstLines, Keep, Limit} \subseteq Nat \ {0}
    /\ {MaxLines, MaxClock, MaxInputs, MaxRequests, MaxFaults} \subseteq Nat

Lines  == Seq(1 .. MaxLines)
Row    == [ts : 1 .. MaxClock, direction : {"out", "in", "system"}, lines : Lines, joins : BOOLEAN]
Writer == {"monitor", "input"}

\* What the tasks hold while they wait: the poll for the screen, or with it for
\* the store, the clients and the registry; the input; the client's request.
Looking == [phase : {"capture"}, known : Lines \cup {Absent}, ts : 1 .. MaxClock]
Polling == [phase : {"store", "tell", "prune", "upsert"}, screen : Lines,
            row : [ts : 1 .. MaxClock, direction : {"out"}, lines : Lines, joins : BOOLEAN]]
Sending == [phase : {"store", "tell", "paste"}, copy : Lines,
            row : [ts : 1 .. MaxClock, direction : {"in", "system"}, lines : {<<>>}, joins : {FALSE}]]
Request == [phase : {"asked"}] \cup [phase : {"listed"}, listed : SUBSET Row, then : SUBSET Row]

ASSUME WaitingAssumption ==
    /\ Idle \notin Looking \cup Polling \cup Sending \cup Request
    /\ Absent \notin Lines \cup [1 .. MaxClock -> 0 .. 2]

VARIABLES
    pane,     \* the lines in the pane and its history
    printed,  \* how many lines so far
    previous, \* _PaneState.previous_snapshot
    recorded, \* the snapshot whose hash the session's status holds
    writer,   \* what the monitor's poll and the input's task are at
    rows,     \* history: every row ever stored
    pruned,   \* the times of those deleted since
    request,  \* the server's task for the client's request
    view,     \* the rows the client shows, once it has had an answer
    clock, inputs, requests, faults, \* how many so far
    missed,   \* history: lines that a failure or the tail kept from the store
    overtaken, repeated \* history: rows told between a listing and its sending, and those
                        \* listed before they were told

tellings == <<request, view, overtaken, repeated>>
limits   == <<clock, inputs, requests, faults>>
transcriptVars ==
    <<pane, printed, previous, recorded, writer, rows, pruned, tellings, limits, missed>>

Newest(n, seq) == SubSeq(seq, IF Len(seq) > n THEN Len(seq) - n + 1 ELSE 1, Len(seq))

LinesOf(seq) == {seq[i] : i \in DOMAIN seq}

-----------------------------------------------------------------------------
(* The pane *)

\* A line is printed, below or, with a prompt or a gauge, over the last; or the
\* program clears the screen to print it.  Only a capture sees the pane, so the
\* lines are all printed just before one.
PrintLine ==
    /\ writer["monitor"] # Idle /\ writer["monitor"].phase = "capture"
    /\ printed < MaxLines /\ printed' = printed + 1
    /\ pane' \in {Append(pane, printed'), <<printed'>>}
                 \cup {Append(SubSeq(pane, 1, Len(pane) - 1), printed') : i \in DOMAIN pane}
    /\ UNCHANGED <<previous, recorded, writer, rows, pruned, tellings, limits, missed>>

-----------------------------------------------------------------------------
(* new_output_from_snapshot *)

Overlaps(before, now) ==
    {n \in 1 .. Len(now) : n <= Len(before) /\ Newest(n, before) = SubSeq(now, 1, n)}

\* Mutant of NewOutput: the last line of the overlap is taken for new.
NewOutputAndOne(before, now) ==
    IF before = now THEN <<>>
    ELSE IF before = Absent \/ Overlaps(before, now) = {} THEN Newest(FirstLines, now)
    ELSE SubSeq(now, CHOOSE n \in Overlaps(before, now) : \A m \in Overlaps(before, now) : m <= n,
                Len(now))

\* What follows the longest end of the snapshot before with which this one
\* begins; and without one the last lines of this one.
NewOutput(before, now) ==
    IF before = now THEN <<>>
    ELSE IF before = Absent \/ Overlaps(before, now) = {} THEN Newest(FirstLines, now)
    ELSE SubSeq(now, 1 + CHOOSE n \in Overlaps(before, now) : \A m \in Overlaps(before, now) : m <= n,
                Len(now))

-----------------------------------------------------------------------------
(* The monitor's poll, _upsert_matched_pane *)

Phased(w, phase) == writer[w] # Idle /\ writer[w].phase = phase
Enter(w, phase)  == writer' = [writer EXCEPT ![w].phase = phase]
Leave(w)         == writer' = [writer EXCEPT ![w] = Idle]

\* A poll reads the session's status.
Look ==
    /\ writer["monitor"] = Idle /\ clock < MaxClock /\ clock' = clock + 1
    /\ writer' = [writer EXCEPT !["monitor"] =
                     [phase |-> "capture", known |-> recorded, ts |-> clock']]
    /\ UNCHANGED <<pane, printed, previous, recorded, rows, pruned, tellings, inputs, requests,
                   faults, missed>>

\* Mutant of CaptureOutput: the first snapshot of a monitor is never output.
CaptureQuietly ==
    /\ Phased("monitor", "capture")
    /\ LET screen == Newest(Window, pane)
           known  == previous = Absent
           output == IF known THEN <<>> ELSE NewOutput(previous, screen)
           joins  == previous # Absent /\ Overlaps(previous, screen) # {}
           row    == [ts |-> writer["monitor"].ts, direction |-> "out", lines |-> output, joins |-> joins]
       IN  /\ previous' = screen
           /\ writer' = [writer EXCEPT !["monitor"] =
                 [phase |-> IF output = <<>> THEN "upsert" ELSE "store", screen |-> screen, row |-> row]]
    /\ UNCHANGED <<pane, printed, recorded, rows, pruned, tellings, limits, missed>>

\* The pane is captured, and is what the next poll compares with whatever
\* happens to this one.  After a restart a snapshot whose hash the status holds
\* is not new.
CaptureOutput ==
    /\ Phased("monitor", "capture")
    /\ LET screen == Newest(Window, pane)
           known  == previous = Absent /\ writer["monitor"].known = screen
           output == IF known THEN <<>> ELSE NewOutput(previous, screen)
           joins  == previous # Absent /\ Overlaps(previous, screen) # {}
           row    == [ts |-> writer["monitor"].ts, direction |-> "out", lines |-> output, joins |-> joins]
       IN  /\ previous' = screen
           /\ writer' = [writer EXCEPT !["monitor"] =
                 [phase |-> IF output = <<>> THEN "upsert" ELSE "store", screen |-> screen, row |-> row]]
           /\ missed' = IF output = <<>> \/ joins THEN missed
                        ELSE missed \cup (LinesOf(screen) \ LinesOf(output))
    /\ UNCHANGED <<pane, printed, recorded, rows, pruned, tellings, limits>>

Stored == {r \in rows : r.ts \notin pruned}

NewestRows(n, some) == {r \in some : Cardinality({q \in some : q.ts > r.ts}) < n}

\* All but the newest rows are deleted.
Prune ==
    /\ Phased("monitor", "prune")
    /\ pruned' = pruned \cup {r.ts : r \in Stored \ NewestRows(Keep, Stored)}
    /\ Enter("monitor", "upsert")
    /\ UNCHANGED <<pane, printed, previous, recorded, rows, tellings, limits, missed>>

\* The status is upserted with the hash of the snapshot.
RecordSnapshot ==
    /\ Phased("monitor", "upsert")
    /\ recorded' = writer["monitor"].screen /\ Leave("monitor")
    /\ UNCHANGED <<pane, printed, previous, rows, pruned, tellings, limits, missed>>

-----------------------------------------------------------------------------
(* Input from the dashboard, _send_input *)

Bare(direction, ts) == [ts |-> ts, direction |-> direction, lines |-> <<>>, joins |-> FALSE]

\* A reply for a session that is there, with the router's copy of its status.
TakeInput ==
    /\ writer["input"] = Idle /\ recorded # Absent
    /\ inputs < MaxInputs /\ inputs' = inputs + 1 /\ clock < MaxClock /\ clock' = clock + 1
    /\ writer' = [writer EXCEPT !["input"] =
                     [phase |-> "store", copy |-> recorded, row |-> Bare("in", clock')]]
    /\ UNCHANGED <<pane, printed, previous, recorded, rows, pruned, tellings, requests, faults, missed>>

\* It was pasted, and the copy is upserted; or it was not, and that is stored.
Pasted ==
    /\ Phased("input", "paste")
    /\ \/ Leave("input") /\ recorded' = writer["input"].copy /\ UNCHANGED clock
       \/ /\ clock < MaxClock /\ clock' = clock + 1
          /\ writer' = [writer EXCEPT !["input"].phase = "store",
                                      !["input"].row = Bare("system", clock')]
          /\ UNCHANGED recorded
    /\ UNCHANGED <<pane, printed, previous, rows, pruned, tellings, inputs, requests, faults, missed>>

-----------------------------------------------------------------------------
(* What the client shows *)

\* How often it shows the row of each time after a message: a snapshot replaces
\* the list, a row is added to it.
Shown(message) ==
    [t \in 1 .. MaxClock |-> (IF message.snapshot THEN 0 ELSE view[t]) + Cardinality({t} \cap message.times)]

\* A message goes to the client.  Its connection keeps their order, so it is
\* applied here at once.  Before the first answer nothing it shows will stay.
Told(message) == view' = IF view = Absent /\ ~message.snapshot THEN Absent ELSE Shown(message)

-----------------------------------------------------------------------------
(* _append_transcript_event: the row is stored, then clients are told. *)

StoreRow(w) ==
    /\ Phased(w, "store")
    /\ rows' = rows \cup {writer[w].row} /\ Enter(w, "tell")
    /\ UNCHANGED <<pane, printed, previous, recorded, pruned, tellings, limits, missed>>

TellRow(w) ==
    /\ Phased(w, "tell")
    /\ Told([snapshot |-> FALSE, times |-> {writer[w].row.ts}])
    /\ CASE w = "monitor"                      -> Enter(w, "prune")
         [] writer[w].row.direction = "in"     -> Enter(w, "paste")
         [] writer[w].row.direction = "system" -> Leave(w)
    /\ UNCHANGED <<pane, printed, previous, recorded, rows, pruned, request, overtaken,
                   repeated, limits, missed>>

\* Capturing, storing or pruning fails, which ends the poll or the request.
TaskFails(w) ==
    /\ faults < MaxFaults /\ faults' = faults + 1
    /\ writer[w] # Idle /\ writer[w].phase \in {"capture", "store", "prune"}
    /\ missed' = IF w = "monitor" /\ Phased(w, "store")
                 THEN missed \cup LinesOf(writer[w].row.lines) ELSE missed
    /\ Leave(w)
    /\ UNCHANGED <<pane, printed, previous, recorded, rows, pruned, tellings, clock, inputs, requests>>

-----------------------------------------------------------------------------
(* The client *)

\* A popup is opened.
OpenTranscript ==
    /\ request = Idle /\ requests < MaxRequests /\ requests' = requests + 1
    /\ request' = [phase |-> "asked"]
    /\ UNCHANGED <<pane, printed, previous, recorded, writer, rows, pruned, view, overtaken,
                   repeated, clock, inputs, faults, missed>>

\* Mutant of ListRows: the oldest rows.
ListOldest ==
    /\ request # Idle /\ request.phase = "asked"
    /\ request' = [phase |-> "listed", then |-> rows,
                   listed |-> {r \in Stored : Cardinality({q \in Stored : q.ts < r.ts}) < Limit}]
    /\ UNCHANGED <<pane, printed, previous, recorded, writer, rows, pruned, view, overtaken,
                   repeated, limits, missed>>

\* _handle_transcript_request lists the newest rows, in a thread.
ListRows ==
    /\ request # Idle /\ request.phase = "asked"
    /\ request' = [phase |-> "listed", listed |-> NewestRows(Limit, Stored), then |-> rows]
    /\ UNCHANGED <<pane, printed, previous, recorded, writer, rows, pruned, view, overtaken,
                   repeated, limits, missed>>

\* Rows stored of which clients have not been told.
Untold == {writer[w].row : w \in {v \in Writer : Phased(v, "tell")}}

SendRows ==
    /\ request # Idle /\ request.phase = "listed"
    /\ Told([snapshot |-> TRUE, times |-> {r.ts : r \in request.listed}])
    /\ overtaken' = rows \ (request.then \cup Untold)
    /\ repeated' = request.listed \cap Untold
    /\ request' = Idle
    /\ UNCHANGED <<pane, printed, previous, recorded, writer, rows, pruned, limits, missed>>

-----------------------------------------------------------------------------
\* The daemon restarts: the statuses are restored with their hashes, what the
\* monitor knew of the pane and the connections are lost.
RestartDaemon ==
    /\ faults < MaxFaults /\ faults' = faults + 1
    /\ missed' = IF Phased("monitor", "store")
                 THEN missed \cup LinesOf(writer["monitor"].row.lines) ELSE missed
    /\ previous' = Absent /\ writer' = [w \in Writer |-> Idle]
    /\ request' = Idle /\ view' = Absent /\ overtaken' = {} /\ repeated' = {}
    /\ UNCHANGED <<pane, printed, recorded, rows, pruned, clock, inputs, requests>>

TranscriptInit ==
    /\ pane = <<>> /\ printed = 0
    /\ previous = Absent /\ recorded = Absent
    /\ writer = [w \in Writer |-> Idle]
    /\ rows = {} /\ pruned = {} /\ missed = {}
    /\ request = Idle /\ view = Absent /\ overtaken = {} /\ repeated = {}
    /\ clock = 0 /\ inputs = 0 /\ requests = 0 /\ faults = 0

TranscriptNext ==
    \/ PrintLine
    \/ Look \/ CaptureOutput \/ Prune \/ RecordSnapshot
    \/ TakeInput \/ Pasted
    \/ \E w \in Writer : StoreRow(w) \/ TellRow(w) \/ TaskFails(w)
    \/ OpenTranscript \/ ListRows \/ SendRows
    \/ RestartDaemon

-----------------------------------------------------------------------------
(* Properties *)

\* The types of the variables.
TranscriptTypeOK ==
    /\ pane \in Lines /\ previous \in Lines \cup {Absent} /\ recorded \in Lines \cup {Absent}
    /\ writer \in [Writer -> {Idle} \cup Looking \cup Polling \cup Sending]
    /\ writer["monitor"] \notin Sending /\ writer["input"] \in {Idle} \cup Sending
    /\ rows \subseteq Row /\ pruned \subseteq {r.ts : r \in rows}
    /\ request \in {Idle} \cup Request
    /\ view \in {Absent} \cup [1 .. MaxClock -> 0 .. 2]
    /\ overtaken \subseteq rows /\ repeated \subseteq rows
    /\ missed \subseteq 1 .. MaxLines
    /\ clock \in 0 .. MaxClock /\ printed \in 0 .. MaxLines

Out == {r \in rows : r.direction = "out"}

\* Output is stored in the order it was printed and, as long as what the pane
\* shows continues what it showed before, once: a row that continues the one
\* before repeats no line of any row, whatever failed or was pruned in between.
\* No restart or redrawing stores more than the last lines again.
OutputOnce ==
    /\ \A r \in Out : \A i, j \in DOMAIN r.lines : i < j => r.lines[i] < r.lines[j]
    /\ \A r, q \in Out : r.ts < q.ts =>
          /\ q.joins => \A x \in LinesOf(r.lines), y \in LinesOf(q.lines) : x < y
          /\ Cardinality(LinesOf(r.lines) \cap LinesOf(q.lines)) <= FirstLines

\* After a poll that recorded its snapshot every line on it was stored at some
\* time, but for those a failed or interrupted poll had captured and those
\* beyond the last lines when nothing joined, across restarts too.
NothingElseMissed ==
    recorded # Absent => LinesOf(recorded) \subseteq missed \cup UNION {LinesOf(r.lines) : r \in Out}

\* A client that was answered and to which nothing is on its way shows the
\* newest rows, each once; except those told between the listing and the
\* sending of its answer, which it lost, and those listed before they were
\* told, which it has twice.
ViewFollows ==
    (view # Absent /\ request = Idle /\ Untold = {}) =>
        /\ \A r \in NewestRows(Limit, Stored) :
              view[r.ts] = IF r \in overtaken THEN 0 ELSE IF r \in repeated THEN 2 ELSE 1
        /\ \A t \in 1 .. MaxClock : view[t] > 0 => \E r \in rows : r.ts = t

=============================================================================
