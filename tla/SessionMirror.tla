---------------------------- MODULE SessionMirror ----------------------------
(***************************************************************************)
(* What the daemon promises the widgets linked to it: a widget's copy of   *)
(* the sessions only ever holds what the daemon's own list has held, and   *)
(* catches up with it.  It may be late, and it may step back: a snapshot   *)
(* can overtake older changes still on the way, and so can a newer change. *)
(***************************************************************************)
CONSTANTS Widgets, Sessions, Absent

VARIABLES
    source, \* the daemon's entry of each session, or Absent
    past,   \* the entries each session has had
    copy,   \* each widget's entries
    linked  \* is the widget still being told?

vars == <<source, past, copy, linked>>

Init ==
    /\ source = [s \in Sessions |-> Absent]
    /\ past = [s \in Sessions |-> {Absent}]
    /\ copy = [w \in Widgets |-> source]
    /\ linked \in [Widgets -> BOOLEAN]

\* The daemon's list changes; a link may come back with that.
Publish ==
    /\ past' = [s \in Sessions |-> past[s] \cup {source'[s]}]
    /\ linked' \in [Widgets -> BOOLEAN]
    /\ UNCHANGED copy

\* A widget is told of some sessions what the daemon once had.
Learn(w) ==
    /\ \E entries \in [Sessions -> UNION {past[s] : s \in Sessions}] :
          /\ \A s \in Sessions : entries[s] \in past[s]
          /\ copy' = [copy EXCEPT ![w] = entries]
    /\ UNCHANGED <<source, past, linked>>

\* A linked widget is told of one session what the daemon has now.
CatchUp(w) ==
    /\ linked[w] /\ copy[w] # source
    /\ Learn(w)
    /\ \E s \in Sessions : copy[w][s] # source[s] /\ copy'[w][s] = source[s]

\* Links come and go.
Relink == linked' \in [Widgets -> BOOLEAN] /\ UNCHANGED <<source, past, copy>>

Next == Publish \/ Relink \/ \E w \in Widgets : Learn(w)

\* A linked widget catches up, if the daemon's list does not change for ever.
Spec ==
    /\ Init /\ [][Next]_vars
    /\ \A w \in Widgets : []<><<source' # source>>_vars \/ WF_vars(CatchUp(w))

=============================================================================
