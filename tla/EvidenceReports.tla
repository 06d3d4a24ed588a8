--------------------------- MODULE EvidenceReports ---------------------------
(***************************************************************************)
(* The reports of the admin commands that gather evidence of a target      *)
(* host, and what target-evidence-check says of them.                      *)
(*                                                                         *)
(* A probe is what a report was made of: the troubles of the host and of   *)
(* the command line at the time, the host's configuration, and whether an  *)
(* earlier hook smoke had left its event in the transcript.  A report      *)
(* keeps the facts it could establish; the check names those it misses.    *)
(***************************************************************************)
EXTENDS Files, Naturals, Sequences, FiniteSets

CONSTANTS
    Pairs, \* the agents and actions whose evidence is required, in order
    Panes  \* tmux panes

ASSUME PairsAssumption == Pairs \in Seq(STRING) /\ Pairs # <<>>

HostTroubles  == {"python", "linux", "machine", "kernel", "glibc", "newer_glibc", "redhat",
                  "dependency", "gui", "tmux", "notify_send", "theme", "legacy_theme", "path",
                  "claude_code", "opencode", "codex", "runtime_dir", "relative_path",
                  "transcript", "redaction", "event_limit", "relative_db"}
ProbeTroubles == {"tmux_probe", "no_analyze", "units", "syntax", "systemctl", "xdg", "xdg_elsewhere",
                  "display", "dbus", "bus_elsewhere", "manager", "disabled", "inactive",
                  "shell", "sprite", "qt_probe", "script", "script_fails", "claude_settings",
                  "opencode_plugin", "socket", "refused", "unstored", "cleanup",
                  "relative_systemctl", "relative_analyze", "relative_pets", "relative_hooks"}
WheelTroubles == {"wheel_dir", "wheel_missing", "wheel_platform", "wheel_python", "wheel_content",
                  "wheel_twice", "install", "import", "install_hangs"}
PetTroubles   == {"no_pets", "pet_invalid", "pet_twice", "pet_unpacked"}
Options       == {"current", "skip_tmux", "skip_units", "skip_smoke", "skip_claude", "skip_opencode",
                  "no_wheelhouse", "wheelhouse_optional", "no_pet_source", "pets_optional",
                  "hooks_optional", "relative"}

Trouble == HostTroubles \cup ProbeTroubles \cup WheelTroubles \cup PetTroubles \cup Options

Setups == {1, 2} \* which theme, directories and database are configured
Probe  == [trouble : SUBSET Trouble, setup : Setups, stored : BOOLEAN]

ASSUME ProbeAssumption == {Absent, Torn} \cap Probe = {}

Free(p, troubles) == troubles \cap p.trouble = {}
Target(p) == Free(p, {"current"})

Report(required, ok, skipped, facts) ==
    [required |-> required, ok |-> ok, skipped |-> skipped, facts |-> facts]

-----------------------------------------------------------------------------
(* The builders *)

AcceptanceChecks == {"python", "linux", "glibc", "redhat", "dependency", "gui", "tmux",
                     "notify_send", "theme", "path", "claude_code", "opencode", "codex"}

\* A check is required of the target, of every host, or never.
AcceptanceRequired(p) ==
    IF Target(p) THEN AcceptanceChecks \ {"notify_send", "codex"}
    ELSE {"python", "dependency", "theme", "path"}

Acceptance(p) ==
    LET passed == AcceptanceChecks \ p.trouble
    IN  Report(TRUE, AcceptanceRequired(p) \subseteq passed, FALSE, passed)

EnvironmentFacts == {"python", "linux", "machine", "kernel", "glibc_2_28", "redhat", "gui", "tmux",
                     "notify_send", "runtime_dir", "relative_path", "transcript", "redaction",
                     "event_limit", "relative_db", "theme", "legacy_theme", "claude_code", "opencode"}

\* It has neither "ok" nor "required": it only records.
Environment(p) ==
    Report(TRUE, TRUE, FALSE,
           {x \in EnvironmentFacts :
               IF x = "glibc_2_28" THEN Free(p, {"glibc", "newer_glibc"}) ELSE Free(p, {x})})

TmuxControl(p) ==
    LET ok == Free(p, {"skip_tmux", "tmux", "tmux_probe"})
    IN  Report(Target(p), ok, ~Free(p, {"skip_tmux"}), IF ok THEN {"preserved"} ELSE {})

\* The command is recorded only if it was run, its returncode if it ended.
SystemdUnits(p) ==
    LET run == Free(p, {"skip_units", "no_analyze", "units"})
        ok  == run /\ Free(p, {"syntax"})
    IN  Report(Target(p), ok, ~Free(p, {"skip_units"}),
               {x \in {"command", "absolute", "returncode"} :
                   CASE x = "command"  -> run
                     [] x = "absolute" -> run /\ Free(p, {"relative_analyze"})
                     [] OTHER          -> ok})

\* The session's variables are recorded whether or not systemctl is found; they
\* are errors only where the report is required.
SystemdRuntime(p) ==
    LET session  == {"xdg", "display", "dbus"} \ p.trouble
        runs     == IF Free(p, {"xdg", "xdg_elsewhere"}) THEN {"xdg_in_run"} ELSE {}
        bus      == IF Free(p, {"dbus", "bus_elsewhere"}) THEN {"bus_in_run"} ELSE {}
        services == IF Free(p, {"systemctl"})
                    THEN {"systemctl", "manager", "disabled", "inactive"} \ p.trouble ELSE {}
        absolute == IF Free(p, {"systemctl", "relative_systemctl"}) THEN {"absolute"} ELSE {}
    IN  Report(Target(p),
               /\ Cardinality(services) = 4
               /\ Target(p) => Cardinality(session) = 3,
               FALSE, session \cup runs \cup bus \cup services \cup absolute)

\* The pet's surfaces are made without Qt; a Qt probe of its own process shows
\* that a window can be made, which only a required report insists on.
WidgetSmoke(p) ==
    LET window == Free(p, {"gui", "display", "qt_probe"})
        shell  == Free(p, {"shell"})
        sprite == shell /\ Free(p, {"sprite"})
    IN  Report(Target(p),
               Free(p, {"theme"}) /\ sprite /\ (Target(p) => window),
               FALSE,
               ({"gui", "theme", "legacy_theme"} \ p.trouble)
                  \cup (IF window THEN {"window"} ELSE {})
                  \cup (IF shell THEN {"shell"} ELSE {}) \cup (IF sprite THEN {"sprite"} ELSE {})
                  \cup (IF sprite /\ Free(p, {"relative_pets"}) THEN {"absolute"} ELSE {}))

\* The wheels as they are listed, before anything is installed.
WheelsSound(p) ==
    Free(p, {"wheel_dir", "wheel_missing", "wheel_platform", "wheel_python", "wheel_content"})

\* The smoke installs in a fresh environment and imports: skipped on demand, or
\* when the wheels already failed.
InstallSmoked(p) ==
    WheelsSound(p) /\ Free(p, {"no_wheelhouse", "skip_smoke"})

Installs(p) == InstallSmoked(p) /\ Free(p, {"install", "import"})

\* A step of the smoke that runs into its time-out raises, and with it the
\* whole command, before any report is written.
Raises(p) == InstallSmoked(p) /\ ~Free(p, {"install_hangs"})

Wheelhouse(p) ==
    LET given  == Free(p, {"no_wheelhouse"})
        listed == given /\ Free(p, {"wheel_dir"})
        smoke  == ~Free(p, {"skip_smoke"}) \/ Installs(p)
    IN  Report(Free(p, {"wheelhouse_optional"}), given /\ WheelsSound(p) /\ smoke, ~given,
               {x \in {"all", "compatible", "distinct", "installed"} :
                   CASE x = "all"        -> listed /\ Free(p, {"wheel_missing"})
                     [] x = "compatible" -> listed /\ Free(p, {"wheel_platform", "wheel_python"})
                     [] x = "distinct"   -> listed /\ Free(p, {"wheel_twice"})
                     [] OTHER            -> given /\ Installs(p)})

\* A directory's sidecar is not compared with what the directory holds.
PetPackages(p) ==
    LET given == Free(p, {"no_pet_source"})
        some  == given /\ Free(p, {"no_pets"})
    IN  Report(Free(p, {"pets_optional"}), some /\ Free(p, {"pet_invalid"}), ~given,
               {x \in {"some", "valid", "distinct", "hashes"} :
                   CASE x = "some"     -> some
                     [] x = "valid"    -> some /\ Free(p, {"pet_invalid"})
                     [] x = "distinct" -> some /\ Free(p, {"pet_twice"})
                     [] OTHER          -> some /\ Free(p, {"pet_unpacked"})})

HookChecks == {"hook_script", "hook_script_smoke", "claude_settings", "opencode_plugin"}

\* The checks made, and those that passed.
HookMade(p) ==
    HookChecks \ ((IF Free(p, {"skip_claude"}) THEN {} ELSE {"claude_settings"})
                   \cup (IF Free(p, {"skip_opencode"}) THEN {} ELSE {"opencode_plugin"}))
HookPassed(p) ==
    {x \in HookMade(p) :
        CASE x = "hook_script"       -> Free(p, {"script"})
          [] x = "hook_script_smoke" -> Free(p, {"script", "script_fails"})
          [] OTHER                   -> Free(p, {x})}

AgentHooks(p) ==
    Report(Free(p, {"hooks_optional"}), HookMade(p) = HookPassed(p), FALSE,
           HookPassed(p) \cup (IF Free(p, {"relative_hooks"}) THEN {"absolute"} ELSE {}))

\* One hook event goes through the daemon; its row is looked for among the
\* last of that session, which an earlier smoke used too; the pet is hidden.
HookSmoke(p) ==
    LET sent     == Free(p, {"socket", "refused"})
        verified == sent /\ Free(p, {"transcript"}) /\ (Free(p, {"unstored"}) \/ p.stored)
        hidden   == sent /\ Free(p, {"cleanup"})
    IN  Report(Target(p), verified /\ hidden, FALSE,
               {x \in {"sent", "verified", "hidden", "workspace", "absolute"} :
                   CASE x = "sent" -> sent [] x = "verified" -> verified [] x = "hidden" -> hidden
                     [] x = "workspace" -> Free(p, {"relative"})
                     [] OTHER -> sent /\ Free(p, {"transcript", "relative_db"})})

\* Whether the smoke left its event in the transcript.
Stores(p) == p.stored \/ Free(p, {"socket", "refused", "transcript", "unstored"})

Build(a, p) ==
    CASE a = "environment"      -> Environment(p)
      [] a = "acceptance"       -> Acceptance(p)
      [] a = "tmux_control"     -> TmuxControl(p)
      [] a = "systemd_units"    -> SystemdUnits(p)
      [] a = "systemd_runtime"  -> SystemdRuntime(p)
      [] a = "widget_smoke"     -> WidgetSmoke(p)
      [] a = "wheelhouse"       -> Wheelhouse(p)
      [] a = "pet_packages"     -> PetPackages(p)
      [] a = "agent_hooks"      -> AgentHooks(p)
      [] a = "hook_event_smoke" -> HookSmoke(p)

-----------------------------------------------------------------------------
(* The check.  A directory dir holds the probes its reports were made of, the *)
(* bundle's summary, and the reports and the summary of the backends.         *)

\* The order in which a bundle writes.
Artefacts == <<"environment", "acceptance", "tmux_control", "systemd_units", "systemd_runtime",
               "widget_smoke", "wheelhouse", "pet_packages", "agent_hooks", "hook_event_smoke">>
Artefact  == {Artefacts[i] : i \in DOMAIN Artefacts}

\* The errors of a report that must be of the target, required, ok and made.
Strict(p, r) ==
    {x \in {"profile", "required", "ok", "skipped"} :
        CASE x = "profile" -> ~Target(p) [] x = "required" -> ~r.required
          [] x = "ok"      -> ~r.ok      [] OTHER          -> r.skipped}

\* The errors of one that is looked into only if it was required.
Optional(p, r, needs) ==
    {x \in {"profile"} : ~Target(p)}
    \cup IF r.required THEN {x \in {"ok"} : ~r.ok} \cup {x \in {"skipped"} : r.skipped}
                              \cup (needs \ r.facts)
         ELSE {}

AcceptanceErrors(p) ==
    LET r == Acceptance(p)
    IN  Strict(p, r) \cup ((AcceptanceChecks \ {"notify_send", "codex"}) \ r.facts)

EnvironmentErrors(p) ==
    {x \in {"profile"} : ~Target(p)} \cup (EnvironmentFacts \ Environment(p).facts)

TmuxErrors(p) ==
    LET r == TmuxControl(p) IN Strict(p, r) \cup ({"preserved"} \ r.facts)

UnitErrors(p) ==
    LET r == SystemdUnits(p)
    IN  Strict(p, r) \cup ({"command", "absolute", "returncode"} \ r.facts)

RuntimeErrors(p) ==
    LET r == SystemdRuntime(p)
    IN  Strict(p, r) \cup ({"systemctl", "absolute", "xdg", "xdg_in_run", "display", "dbus",
                            "bus_in_run", "manager", "disabled", "inactive"} \ r.facts)

WidgetFacts == {"gui", "theme", "legacy_theme", "window", "shell", "sprite", "absolute"}

\* Mutant of WidgetErrors: the widget's report is judged by itself.
WidgetErrorsAlone(p, environment) ==
    LET r == WidgetSmoke(p)
    IN  Strict(p, r) \cup (WidgetFacts \ r.facts)

\* The theme shown must be the environment's.
WidgetErrors(p, environment) ==
    LET r == WidgetSmoke(p)
    IN  Strict(p, r) \cup (WidgetFacts \ r.facts)
        \cup {x \in {"other_theme"} : Readable(environment) /\ environment.setup # p.setup}

\* The socket and the database used must be the environment's.
HookSmokeErrors(p, environment) ==
    LET r == HookSmoke(p)
    IN  Strict(p, r) \cup ({"sent", "verified", "hidden", "workspace", "absolute"} \ r.facts)
        \cup {x \in {"other_socket"} : Readable(environment) /\ environment.setup # p.setup}

WheelhouseErrors(p) == Optional(p, Wheelhouse(p), {"all", "compatible", "distinct", "installed"})
PetErrors(p)        == Optional(p, PetPackages(p), {"some", "valid", "distinct", "hashes"})
AgentHookErrors(p)  == Optional(p, AgentHooks(p), HookChecks \cup {"absolute"})

\* What the check says of artefact a.
ErrorsOf(dir, a) ==
    LET p == dir.files[a]
    IN  IF ~Readable(p) THEN {"unreadable"}
        ELSE CASE a = "environment"      -> EnvironmentErrors(p)
               [] a = "acceptance"       -> AcceptanceErrors(p)
               [] a = "tmux_control"     -> TmuxErrors(p)
               [] a = "systemd_units"    -> UnitErrors(p)
               [] a = "systemd_runtime"  -> RuntimeErrors(p)
               [] a = "widget_smoke"     -> WidgetErrors(p, dir.files["environment"])
               [] a = "wheelhouse"       -> WheelhouseErrors(p)
               [] a = "pet_packages"     -> PetErrors(p)
               [] a = "agent_hooks"      -> AgentHookErrors(p)
               [] a = "hook_event_smoke" -> HookSmokeErrors(p, dir.files["environment"])

SummaryErrors(dir) ==
    IF ~Readable(dir.summary) THEN {"unreadable"}
    ELSE {x \in {"profile", "ok", "output_dir", "artifacts"} :
             CASE x = "profile"    -> ~dir.summary.target
               [] x = "ok"         -> dir.summary.failed # {}
               [] x = "output_dir" -> dir.summary.relative
               [] OTHER            -> dir.summary.relative \/ dir.summary.backends # "absolute"}

\* What is wrong with one backend report by itself.
BackendReportErrors(report) ==
    IF ~Readable(report) THEN {"unreadable"}
    ELSE {x \in {"outcome"} : report.outcome # "ok"}

\* And by the reports before it and the entries of the backends' summary.
BackendErrors(dir, i) ==
    LET report  == dir.reports[i]
        entries == dir.entries
        \* a report of an action that raised has no hashes of the screen
        Twin(j) == Readable(dir.reports[j]) /\ dir.reports[j].outcome # "raised"
                   /\ dir.reports[j].screens = report.screens
    IN  BackendReportErrors(report)
        \cup {x \in {"same_screens"} :
                 /\ Readable(report) /\ report.outcome # "raised"
                 /\ \E j \in 1 .. i - 1 : Twin(j)}
        \cup {x \in {"other_pane"} : Readable(report) /\ Readable(entries) /\ entries[i].pane # report.pane}

\* The summary of the backends: every entry lacks a schema version and profile.
\* Paths that are not absolute are taken to be inside the directory.
EntriesErrors(dir) ==
    IF ~Readable(dir.entries) THEN {"unreadable"}
    ELSE {"identity"}
         \cup {x \in {"ok"} : \E i \in DOMAIN Pairs : ~dir.entries[i].ok}
         \cup {x \in {"paths"} : \E i \in DOMAIN Pairs : dir.entries[i].relative}

\* Without entries the first report that has a session is compared with a
\* variable that was never assigned: the check itself raises.
CheckRaises(dir) ==
    ~Readable(dir.entries)
    /\ \E i \in DOMAIN Pairs : Readable(dir.reports[i]) /\ dir.reports[i].outcome # "raised"

Accepts(dir) ==
    /\ ~CheckRaises(dir) /\ SummaryErrors(dir) = {} /\ EntriesErrors(dir) = {}
    /\ \A a \in Artefact : ErrorsOf(dir, a) = {}
    /\ \A i \in DOMAIN Pairs : BackendErrors(dir, i) = {}

=============================================================================
