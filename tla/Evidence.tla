------------------------------- MODULE Evidence -------------------------------
(***************************************************************************)
(* The commands evidence-bundle and collect-target-backend-evidence on one *)
(* directory of evidence, run again and again, interrupted anywhere, on a  *)
(* host with troubles that is repaired or set up anew in between; and what *)
(* target-evidence-check makes of the directory they leave.                *)
(***************************************************************************)
EXTENDS EvidenceReports

CONSTANTS
    MaxTroubles, \* bound: troubles, interruptions, new set-ups and failed actions in all
    MaxCommands  \* bound: commands run

ASSUME CommandsAssumption == MaxTroubles \in Nat /\ MaxCommands \in Nat

\* What a bundle's summary names as failed; the mark is a collection's.  The
\* paths it lists are its bundle's, and the backends' those of the last to write.
Failures == AcceptanceChecks \cup Artefact \cup {"backend_evidence"}

Paths    == {"none", "relative", "absolute"}
Summary  == [target : BOOLEAN, failed : SUBSET Failures, relative : BOOLEAN, backends : Paths]
Outcome == {"ok", "unmatched", "raised"}
Backend == [outcome : Outcome, pane : Panes, screens : DOMAIN Pairs]
Entry   == [ok : BOOLEAN, pane : Panes, relative : BOOLEAN]

ASSUME BackendAssumption == {Absent, Torn} \cap (Backend \cup [DOMAIN Pairs -> Entry]) = {}

VARIABLES
    host,  \* the host's troubles
    setup, \* how it is configured
    smoked,  \* set-ups whose database holds the event of a hook smoke
    dir,   \* the directory of evidence
    job,   \* the command running
    spent, commands, \* how many so far
    last,  \* history: the result of the last command to finish
    intact \* history: is the last bundle written whole, and the last collection merged?

counts == <<spent, commands>>
evidenceVars == <<host, setup, smoked, dir, job, counts, last, intact>>

Spend(n) == spent + n <= MaxTroubles /\ spent' = spent + n

-----------------------------------------------------------------------------
(* evidence-bundle *)

\* The command begins.  Its reports are made one after the other: those before
\* the widget's, the widget's and the wheels', the hook smoke's.
StartBundle(options) ==
    /\ job = Idle /\ commands < MaxCommands
    /\ Spend(Cardinality(options))
    /\ commands' = commands + 1
    /\ job' = [kind |-> "probing", options |-> options, probes |-> <<>>]
    /\ UNCHANGED <<host, setup, smoked, dir, last, intact>>

MakeReports ==
    /\ job # Idle /\ job.kind = "probing"
    /\ LET p == [trouble |-> host \cup job.options, setup |-> setup, stored |-> setup \in smoked]
           probes == Append(job.probes, p)
       IN  \/ /\ Len(probes) = 2 /\ Raises(p)
              /\ job' = Idle /\ UNCHANGED smoked
           \/ /\ Len(probes) < 3 /\ ~(Len(probes) = 2 /\ Raises(p))
              /\ job' = [job EXCEPT !.probes = probes] /\ UNCHANGED smoked
           \/ /\ Len(probes) = 3
              /\ job' = [kind |-> "writing", probes |-> probes, next |-> 1]
              /\ smoked' = IF Stores(p) THEN smoked \cup {setup} ELSE smoked
    /\ UNCHANGED <<host, setup, dir, counts, last, intact>>

\* The probe that the report of artefact a was made of.
ProbeOf(a, probes) ==
    probes[CASE a = "hook_event_smoke" -> 3 [] a = "widget_smoke" -> 2 [] OTHER -> 1]

\* Mutant of Failed: what was skipped does not count.
FailedIfMade(probes) ==
    (AcceptanceRequired(probes[1]) \ Acceptance(probes[1]).facts)
    \cup {a \in Artefact \ {"acceptance", "environment"} :
             LET r == Build(a, ProbeOf(a, probes)) IN r.required /\ ~r.ok /\ ~r.skipped}

\* failed_required: acceptance checks, and the reports required and not ok.
Failed(probes) ==
    (AcceptanceRequired(probes[1]) \ Acceptance(probes[1]).facts)
    \cup {a \in Artefact \ {"acceptance", "environment"} :
             LET r == Build(a, ProbeOf(a, probes)) IN r.required /\ ~r.ok}

PathsOf(relative) == IF relative THEN "relative" ELSE "absolute"

\* Mutant of BundleSummary: the backends' artifacts are left to the collection.
SummaryOfReports(probes) ==
    [target |-> Target(probes[1]), failed |-> Failed(probes),
     relative |-> ~Free(probes[1], {"relative"}), backends |-> "none"]

BundleSummary(probes) ==
    [target |-> Target(probes[1]), failed |-> Failed(probes),
     relative |-> ~Free(probes[1], {"relative"}),
     backends |-> IF ~Target(probes[1]) THEN "none" ELSE PathsOf(~Free(probes[1], {"relative"}))]

\* The report that is to be written next is one the check reads: a current
\* profile's acceptance has a file of its own.
Read == Artefacts[job.next] # "acceptance" \/ Target(job.probes[1])

\* One file after the other,
WriteReport ==
    /\ job # Idle /\ job.kind = "writing" /\ job.next <= Len(Artefacts)
    /\ LET a == Artefacts[job.next]
       IN  dir' = IF Read THEN [dir EXCEPT !.files[a] = ProbeOf(a, job.probes)] ELSE dir
    /\ job' = [job EXCEPT !.next = @ + 1]
    /\ intact' = intact \ {"bundle"}
    /\ UNCHANGED <<host, setup, smoked, counts, last>>

\* the summary last.
WriteSummary ==
    /\ job # Idle /\ job.kind = "writing" /\ job.next > Len(Artefacts)
    /\ dir' = [dir EXCEPT !.summary = BundleSummary(job.probes)]
    /\ job' = Idle /\ last' = "bundled"
    /\ intact' = intact \cup {"bundle"}
    /\ UNCHANGED <<host, setup, smoked, counts>>

-----------------------------------------------------------------------------
(* collect-target-backend-evidence *)

\* The directory may be given by a relative path, as the bundle's may.
StartCollection(pane, relative) ==
    /\ job = Idle /\ commands < MaxCommands
    /\ Spend(IF relative THEN 1 ELSE 0)
    /\ commands' = commands + 1
    /\ job' = [kind |-> "collecting", pane |-> pane, relative |-> relative, entries |-> <<>>]
    /\ UNCHANGED <<host, setup, smoked, dir, last, intact>>

\* An action is sent to its pane and the pane watched; the report is written,
\* read again and checked for itself.
Verify(outcome, screens) ==
    /\ job # Idle /\ job.kind = "collecting" /\ Len(job.entries) < Len(Pairs)
    /\ LET i == Len(job.entries) + 1
           report == [outcome |-> outcome, pane |-> job.pane, screens |-> screens]
       IN  /\ screens <= i
           /\ Spend(IF outcome = "ok" /\ screens = i THEN 0 ELSE 1)
           /\ dir' = [dir EXCEPT !.reports[i] = report]
           /\ job' = [job EXCEPT !.entries =
                         Append(@, [ok |-> BackendReportErrors(report) = {}, pane |-> job.pane,
                                    relative |-> job.relative])]
    /\ intact' = intact \ {"collection"}
    /\ UNCHANGED <<host, setup, smoked, commands, last>>

\* The summary of the backends is written.
WriteEntries ==
    /\ job # Idle /\ job.kind = "collecting" /\ Len(job.entries) = Len(Pairs)
    /\ dir' = [dir EXCEPT !.entries = job.entries]
    /\ job' = [kind |-> "merging", relative |-> job.relative,
               ok |-> \A i \in DOMAIN Pairs : job.entries[i].ok]
    /\ UNCHANGED <<host, setup, smoked, counts, last, intact>>

\* Mutant of Merged: a mark is never taken away.
MergedFor(summary, relative, ok) ==
    [summary EXCEPT !.backends = PathsOf(relative),
                    !.failed = @ \cup {x \in {"backend_evidence"} : ~ok}]

Merged(summary, relative, ok) ==
    [summary EXCEPT !.backends = PathsOf(relative),
                    !.failed = (@ \ {"backend_evidence"}) \cup {x \in {"backend_evidence"} : ~ok}]

\* Mutant of Merge: without a summary, one of nothing but artifacts is written.
MergeIntoNothing ==
    /\ job # Idle /\ job.kind = "merging"
    /\ dir' = [dir EXCEPT !.summary = IF Readable(@) THEN Merged(@, job.relative, job.ok)
                                      ELSE [backends |-> PathsOf(job.relative)]]
    /\ last' = IF job.ok THEN "collected" ELSE "failed"
    /\ job' = Idle /\ intact' = intact \cup {"collection"}
    /\ UNCHANGED <<host, setup, smoked, counts>>

\* And merged into the bundle's summary, if there is one.
Merge ==
    /\ job # Idle /\ job.kind = "merging"
    /\ dir' = IF Readable(dir.summary)
              THEN [dir EXCEPT !.summary = Merged(@, job.relative, job.ok)] ELSE dir
    /\ last' = IF job.ok THEN "collected" ELSE "failed"
    /\ job' = Idle /\ intact' = intact \cup {"collection"}
    /\ UNCHANGED <<host, setup, smoked, counts>>

-----------------------------------------------------------------------------
(* The world *)

\* The file being written is opened, which empties it, and not yet closed.
HalfWritten ==
    CASE job.kind = "writing" /\ job.next <= Len(Artefacts) ->
             IF Read THEN [dir EXCEPT !.files[Artefacts[job.next]] = Torn] ELSE dir
      [] job.kind = "writing" -> [dir EXCEPT !.summary = Torn]
      [] job.kind = "collecting" /\ Len(job.entries) < Len(Pairs) ->
             [dir EXCEPT !.reports[Len(job.entries) + 1] = Torn]
      [] job.kind = "collecting" -> [dir EXCEPT !.entries = Torn]
      [] job.kind = "merging" /\ Readable(dir.summary) -> [dir EXCEPT !.summary = Torn]
      [] OTHER -> dir

\* A command is interrupted, between two files or within one.
Interrupt ==
    /\ job # Idle /\ Spend(1)
    /\ dir' \in {dir, HalfWritten}
    /\ job' = Idle 
    /\ intact' = intact \ CASE job.kind = "probing" -> {} [] job.kind = "writing" -> {"bundle"}
                           [] OTHER -> {"collection"}
    /\ UNCHANGED <<host, setup, smoked, commands, last>>

\* Another theme, other directories.
SetUp == Spend(1) /\ setup' = 3 - setup /\ UNCHANGED <<host, smoked, dir, job, commands, last, intact>>

Few(troubles) == {{}} \cup {{x} : x \in troubles}

\* Troubles of the host appear and vanish, each for the bound; only while it is
\* looked at or no command runs, for otherwise the next probe sees no more.
HostChanges(troubles) ==
    /\ job # Idle => job.kind = "probing"
    /\ troubles # host /\ host' = troubles
    /\ Spend(Cardinality(troubles \ host) + Cardinality(host \ troubles))
    /\ UNCHANGED <<setup, smoked, dir, job, commands, last, intact>>

NewDirectory ==
    [files |-> [a \in Artefact |-> Absent], summary |-> Absent,
     reports |-> [i \in DOMAIN Pairs |-> Absent], entries |-> Absent]

EvidenceInit ==
    /\ host \in Few(Trouble \ Options) /\ spent = Cardinality(host) /\ spent <= MaxTroubles
    /\ setup = 1 /\ smoked = {} /\ dir = NewDirectory
    /\ job = Idle /\ commands = 0
    /\ last = "none" /\ intact = {}

EvidenceNext ==
    \/ \E options \in Few(Options) : StartBundle(options)
    \/ MakeReports \/ WriteReport \/ WriteSummary
    \/ \E pane \in Panes, relative \in BOOLEAN : StartCollection(pane, relative)
    \/ \E outcome \in Outcome, screens \in DOMAIN Pairs : Verify(outcome, screens)
    \/ WriteEntries \/ Merge
    \/ Interrupt \/ SetUp
    \/ \E troubles \in Few(Trouble \ Options) : HostChanges(troubles)

-----------------------------------------------------------------------------
(* Properties *)

\* The types of the variables: no file ever holds another's report.
EvidenceTypeOK ==
    /\ host \subseteq Trouble /\ setup \in Setups /\ smoked \subseteq Setups
    /\ dir \in [files : [Artefact -> File(Probe)], summary : File(Summary),
                reports : [DOMAIN Pairs -> File(Backend)], entries : File([DOMAIN Pairs -> Entry])]
    /\ job # Idle => job.kind \in {"probing", "writing", "collecting", "merging"}
    /\ spent \in 0 .. MaxTroubles /\ commands \in 0 .. MaxCommands
    /\ last \in {"none", "bundled", "collected", "failed"} /\ intact \subseteq {"bundle", "collection"}

\* Troubles that a bundle of the target passes over and the check does not.
BundleMisses ==
    {"machine", "kernel", "newer_glibc", "notify_send", "legacy_theme", "runtime_dir",
     "redaction", "event_limit", "xdg_elsewhere", "bus_elsewhere",
     "relative_path", "relative_db", "relative_systemctl", "relative_analyze", "relative_pets",
     "relative_hooks", "wheel_twice", "pet_twice", "pet_unpacked", "skip_smoke", "skip_claude",
     "skip_opencode", "relative"}

\* The directory holds one bundle of the target, made in one set-up.
OneBundle ==
    /\ "bundle" \in intact /\ Readable(dir.summary) /\ dir.summary.target
    /\ Cardinality({dir.files[a].setup : a \in Artefact}) = 1

\* None of those was there when a report was made, and the transcript was not
\* switched on between the first reports and the hook smoke.
Watched ==
    /\ \A a \in Artefact : dir.files[a].trouble \cap BundleMisses = {}
    /\ "transcript" \in dir.files["environment"].trouble =>
          "transcript" \in dir.files["hook_event_smoke"].trouble

\* A target bundle that says ok foretells the check: whatever was run or
\* interrupted before, and however the host changed while it was made, the
\* check has nothing to say of its reports unless a trouble that the bundle is
\* known to pass over was there; and what failed in the bundle the check does
\* not pass.
BundleForetells ==
    LET ok == dir.summary.failed \ {"backend_evidence"} = {}
    IN  (job = Idle /\ OneBundle) =>
            /\ ok /\ Watched => \A a \in Artefact : ErrorsOf(dir, a) = {}
            /\ ~ok => \E a \in Artefact : ErrorsOf(dir, a) # {}

\* The troubles each report has to tell of.
Telling ==
    [environment |-> {"python", "linux", "machine", "kernel", "glibc", "newer_glibc", "redhat", "gui",
                      "tmux", "notify_send", "runtime_dir", "relative_path", "transcript",
                      "redaction", "event_limit", "relative_db", "theme", "legacy_theme",
                      "claude_code", "opencode"},
     acceptance |-> AcceptanceChecks \ {"notify_send", "codex"},
     tmux_control |-> {"skip_tmux", "tmux", "tmux_probe"},
     systemd_units |-> {"skip_units", "no_analyze", "units", "syntax", "relative_analyze"},
     systemd_runtime |-> {"systemctl", "relative_systemctl", "xdg", "xdg_elsewhere", "display", "dbus",
                          "bus_elsewhere", "manager", "disabled", "inactive"},
     widget_smoke |-> {"gui", "theme", "legacy_theme", "display", "shell", "sprite", "qt_probe",
                       "relative_pets"},
     wheelhouse |-> (WheelTroubles \ {"install_hangs"}) \cup {"no_wheelhouse", "skip_smoke"},
     pet_packages |-> PetTroubles \cup {"no_pet_source"},
     agent_hooks |-> {"script", "script_fails", "claude_settings", "opencode_plugin",
                      "skip_claude", "skip_opencode", "relative_hooks"},
     hook_event_smoke |-> {"socket", "refused", "transcript", "relative_db", "cleanup", "relative"}]

\* Reports that only count when they were asked for.
Waived(a, p) ==
    \/ a = "wheelhouse" /\ "wheelhouse_optional" \in p.trouble
    \/ a = "pet_packages" /\ "pets_optional" \in p.trouble
    \/ a = "agent_hooks" /\ "hooks_optional" \in p.trouble

\* The check passes a report if and only if it is whole, of the target, tells
\* of no trouble it has to tell of, and comes from the set-up of the
\* environment; except that a hook event that was not stored goes unnoticed
\* when an earlier one is there.
CheckIsExact ==
    job = Idle /\ commands > 0 => \A a \in Artefact :
        LET p == dir.files[a]
            environment == dir.files["environment"]
            told == IF Waived(a, p) THEN {} ELSE Telling[a] \cap p.trouble
        IN  ErrorsOf(dir, a) = {} <=>
               /\ Readable(p) /\ "current" \notin p.trouble /\ told = {}
               /\ (a = "hook_event_smoke" /\ "unstored" \in p.trouble) => p.stored
               /\ (a \in {"widget_smoke", "hook_event_smoke"} /\ Readable(environment)) =>
                     environment.setup = p.setup

\* The bundle's summary is marked if and only if the last command to finish
\* was a collection that failed, in whatever order commands ran or broke off.
MarkedByLast ==
    Readable(dir.summary) => ("backend_evidence" \in dir.summary.failed <=> last = "failed")

\* Everything written without a trouble, after whatever was interrupted
\* before, passes the check but for the entries of the backends' summary, which
\* the collection writes without the identity the check demands; so the check
\* accepts no directory.  It only raises where a collection broke off.
UntroubledPasses ==
    /\ ~Accepts(dir)
    /\ job = Idle /\ CheckRaises(dir) => "collection" \notin intact
    /\ (/\ job = Idle /\ OneBundle /\ "collection" \in intact
        /\ \A a \in Artefact : dir.files[a].trouble = {}
        /\ \A i \in DOMAIN Pairs : /\ dir.reports[i].outcome = "ok" /\ dir.reports[i].screens = i
                                   /\ ~dir.entries[i].relative) =>
           /\ \A a \in Artefact : ErrorsOf(dir, a) = {}
           /\ SummaryErrors(dir) = {} /\ EntriesErrors(dir) = {"identity"}
           /\ \A i \in DOMAIN Pairs : BackendErrors(dir, i) = {}

=============================================================================
