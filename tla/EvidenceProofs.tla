---------------------------- MODULE EvidenceProofs ----------------------------
(***************************************************************************)
(* What the commands that gather evidence leave in their directory, for    *)
(* every set of agents and panes and every bound, and for any number of    *)
(* troubles at a time: what the check says of each report, and what a      *)
(* bundle's summary foretells of it.                                       *)
(***************************************************************************)
EXTENDS HostFiles, FiniteSetTheorems, SequenceTheorems, TLAPS

vars == <<part, evidenceVars, libraryVars, transcriptVars>>

-----------------------------------------------------------------------------
(* The mark of the backends in the bundle's summary *)

\* The directory and its summary have the fields of theirs.
DirShape ==
    /\ dir = [files |-> dir.files, summary |-> dir.summary, reports |-> dir.reports,
              entries |-> dir.entries]
    /\ Readable(dir.summary) =>
          dir.summary = [target |-> dir.summary.target, failed |-> dir.summary.failed,
                         relative |-> dir.summary.relative, backends |-> dir.summary.backends]

MarkInv == DirShape /\ MarkedByLast

\* A bundle's own failures never include the mark.
LEMMA BundleIsUnmarked ==
    ASSUME NEW probes PROVE "backend_evidence" \notin Failed(probes)
<1>1. "backend_evidence" \notin AcceptanceRequired(probes[1])
  BY DEF AcceptanceRequired, AcceptanceChecks
<1>2. "backend_evidence" \notin Artefact
  BY DEF Artefact, Artefacts
<1>3. QED
  BY <1>1, <1>2 DEF Failed

LEMMA MarkStep == MarkInv /\ [EvidenceNext]_evidenceVars => MarkInv'
<1> SUFFICES ASSUME MarkInv, [EvidenceNext]_evidenceVars PROVE MarkInv'
  OBVIOUS
<1> USE DEF MarkInv, DirShape, MarkedByLast, Readable
<1>1. ASSUME NEW options, StartBundle(options) PROVE MarkInv'
  BY <1>1 DEF StartBundle
<1>2. CASE MakeReports
  BY <1>2 DEF MakeReports
<1>3. CASE WriteReport
  BY <1>3 DEF WriteReport
<1>12. CASE WriteSummary
  <2> DEFINE written == BundleSummary(job.probes)
  <2>1. /\ dir' = [dir EXCEPT !.summary = written]
        /\ last' = "bundled"
    BY <1>12 DEF WriteSummary
  <2>2. /\ written = [target |-> written.target, failed |-> written.failed,
                      relative |-> written.relative, backends |-> written.backends]
        /\ "backend_evidence" \notin written.failed
    BY BundleIsUnmarked DEF BundleSummary
  <2>3. QED
    BY <2>1, <2>2
<1>4. ASSUME NEW where, NEW relative, StartCollection(where, relative) PROVE MarkInv'
  BY <1>4 DEF StartCollection
<1>5. ASSUME NEW outcome, NEW screens, Verify(outcome, screens) PROVE MarkInv'
  BY <1>5 DEF Verify
<1>6. CASE WriteEntries
  BY <1>6 DEF WriteEntries
<1>7. CASE Merge
  <2>1. CASE Readable(dir.summary)
    BY <1>7, <2>1 DEF Merge, Merged
  <2>2. CASE ~Readable(dir.summary)
    BY <1>7, <2>2 DEF Merge
  <2>3. QED
    BY <2>1, <2>2
<1>8. CASE Interrupt
  <2>1. HalfWritten.summary \in {dir.summary, Torn}
        /\ HalfWritten = [files |-> HalfWritten.files, summary |-> HalfWritten.summary,
                          reports |-> HalfWritten.reports, entries |-> HalfWritten.entries]
    BY DEF HalfWritten
  <2>2. QED
    BY <1>8, <2>1 DEF Interrupt
<1>9. CASE SetUp
  BY <1>9 DEF SetUp
<1>10. ASSUME NEW troubles, HostChanges(troubles) PROVE MarkInv'
  BY <1>10 DEF HostChanges
<1>11. CASE UNCHANGED evidenceVars
  BY <1>11 DEF evidenceVars
<1>13. QED
  BY <1>1, <1>2, <1>3, <1>4, <1>5, <1>6, <1>7, <1>8, <1>9, <1>10, <1>11, <1>12 DEF EvidenceNext

\* The bundle's summary bears the mark of the backends if and only if the last
\* command to finish was a collection that failed, as the merge of
\* collect-target-backend-evidence and the new summary of evidence-bundle have it.
THEOREM MarkIsOfTheLastCommand == Spec => []MarkedByLast
<1>1. Init => MarkInv
  BY DEF Init, EvidenceInit, NewDirectory, MarkInv, DirShape, MarkedByLast, Readable
<1>2. [Next]_vars => [EvidenceNext]_evidenceVars
  BY DEF Next, vars
<1>3. MarkInv => MarkedByLast
  BY DEF MarkInv
<1>4. QED
  BY <1>1, <1>2, <1>3, MarkStep, PTL DEF Spec, vars

-----------------------------------------------------------------------------
(* What the check says of a report *)

LEMMA EnvironmentTells ==
    ASSUME NEW p PROVE EnvironmentErrors(p) = {} <=> Free(p, {"current"} \cup Telling.environment)
BY DEF EnvironmentErrors, Environment, EnvironmentFacts, Report, Target, Free, Telling

LEMMA AcceptanceTells ==
    ASSUME NEW p PROVE AcceptanceErrors(p) = {} <=> Free(p, {"current"} \cup Telling.acceptance)
BY DEF AcceptanceErrors, Acceptance, AcceptanceChecks, AcceptanceRequired, Strict, Report, Target, Free, Telling

LEMMA TmuxTells ==
    ASSUME NEW p PROVE TmuxErrors(p) = {} <=> Free(p, {"current"} \cup Telling.tmux_control)
BY DEF TmuxErrors, TmuxControl, Strict, Report, Target, Free, Telling

LEMMA UnitsTell ==
    ASSUME NEW p PROVE UnitErrors(p) = {} <=> Free(p, {"current"} \cup Telling.systemd_units)
BY DEF UnitErrors, SystemdUnits, Strict, Report, Target, Free, Telling

LEMMA ThreeOfThree ==
    ASSUME NEW S, S \subseteq {"xdg", "display", "dbus"}
    PROVE  Cardinality(S) = 3 <=> S = {"xdg", "display", "dbus"}
<1> DEFINE T == {"xdg", "display", "dbus"}
<1>1. IsFiniteSet(T) /\ Cardinality(T) = 3
  <2>1. IsFiniteSet({}) /\ Cardinality({}) = 0
    BY FS_EmptySet
  <2>2. IsFiniteSet({"xdg"}) /\ Cardinality({"xdg"}) = 1
    BY FS_Singleton
  <2>3. IsFiniteSet({"xdg", "display"}) /\ Cardinality({"xdg", "display"}) = 2
    BY <2>2, FS_AddElement, {"xdg"} \cup {"display"} = {"xdg", "display"}
  <2>4. QED
    BY <2>3, FS_AddElement, {"xdg", "display"} \cup {"dbus"} = T
<1>2. QED
  BY <1>1, FS_Subset

LEMMA FourOfFour ==
    ASSUME NEW S, S \subseteq {"systemctl", "manager", "disabled", "inactive"}
    PROVE  Cardinality(S) = 4 <=> S = {"systemctl", "manager", "disabled", "inactive"}
<1> DEFINE T == {"systemctl", "manager", "disabled", "inactive"}
<1>1. IsFiniteSet(T) /\ Cardinality(T) = 4
  <2>2. IsFiniteSet({"systemctl"}) /\ Cardinality({"systemctl"}) = 1
    BY FS_Singleton
  <2>3. IsFiniteSet({"systemctl", "manager"}) /\ Cardinality({"systemctl", "manager"}) = 2
    BY <2>2, FS_AddElement, {"systemctl"} \cup {"manager"} = {"systemctl", "manager"}
  <2>4. /\ IsFiniteSet({"systemctl", "manager", "disabled"})
        /\ Cardinality({"systemctl", "manager", "disabled"}) = 3
    BY <2>3, FS_AddElement, {"systemctl", "manager"} \cup {"disabled"} = {"systemctl", "manager", "disabled"}
  <2>5. QED
    BY <2>4, FS_AddElement, {"systemctl", "manager", "disabled"} \cup {"inactive"} = T
<1>2. QED
  BY <1>1, FS_Subset

LEMMA RuntimeOk ==
    ASSUME NEW p
    PROVE  SystemdRuntime(p).ok <=> /\ Free(p, {"systemctl", "manager", "disabled", "inactive"})
                                    /\ Target(p) => Free(p, {"xdg", "display", "dbus"})
<1> DEFINE session == {"xdg", "display", "dbus"} \ p.trouble
           services == IF Free(p, {"systemctl"})
                       THEN {"systemctl", "manager", "disabled", "inactive"} \ p.trouble ELSE {}
<1>1. Cardinality(session) = 3 <=> Free(p, {"xdg", "display", "dbus"})
  <2>1. session = {"xdg", "display", "dbus"} <=> Free(p, {"xdg", "display", "dbus"})
    BY DEF Free
  <2> QED  BY <2>1, ThreeOfThree
<1>2. Cardinality(services) = 4 <=> Free(p, {"systemctl", "manager", "disabled", "inactive"})
  <2>1. services = {"systemctl", "manager", "disabled", "inactive"}
           <=> Free(p, {"systemctl", "manager", "disabled", "inactive"})
    BY DEF Free
  <2>2. services \subseteq {"systemctl", "manager", "disabled", "inactive"}
    OBVIOUS
  <2> QED  BY <2>1, <2>2, FourOfFour
<1> QED  BY <1>1, <1>2 DEF SystemdRuntime, Report

LEMMA RuntimeTells ==
    ASSUME NEW p PROVE RuntimeErrors(p) = {} <=> Free(p, {"current"} \cup Telling.systemd_runtime)
<1> DEFINE r == SystemdRuntime(p)
           session == {"xdg", "display", "dbus"} \ p.trouble
           services == IF Free(p, {"systemctl"})
                       THEN {"systemctl", "manager", "disabled", "inactive"} \ p.trouble ELSE {}
<1>3. /\ r.required <=> Target(p)
      /\ r.ok <=> /\ Free(p, {"systemctl", "manager", "disabled", "inactive"})
                  /\ Target(p) => Free(p, {"xdg", "display", "dbus"})
      /\ r.skipped = FALSE
  BY RuntimeOk DEF SystemdRuntime, Report
<1>4. {"systemctl", "absolute", "xdg", "xdg_in_run", "display", "dbus", "bus_in_run",
       "manager", "disabled", "inactive"} \ r.facts = {} <=> Free(p, Telling.systemd_runtime)
  <2> DEFINE run == IF Free(p, {"xdg", "xdg_elsewhere"}) THEN {"xdg_in_run"} ELSE {}
             bus == IF Free(p, {"dbus", "bus_elsewhere"}) THEN {"bus_in_run"} ELSE {}
             absolute == IF Free(p, {"systemctl", "relative_systemctl"}) THEN {"absolute"} ELSE {}
  <2>1. r.facts = session \cup run \cup bus \cup services \cup absolute
    BY DEF SystemdRuntime, Report
  <2>2. \A x : x \in session <=> x \in {"xdg", "display", "dbus"} \ p.trouble
    OBVIOUS
  <2>3. \A x : x \in services <=> /\ "systemctl" \notin p.trouble
                                /\ x \in {"systemctl", "manager", "disabled", "inactive"} \ p.trouble
    BY DEF Free
  <2>4. /\ \A x : x \in run <=> /\ x = "xdg_in_run"
                              /\ "xdg" \notin p.trouble /\ "xdg_elsewhere" \notin p.trouble
        /\ \A x : x \in bus <=> /\ x = "bus_in_run"
                              /\ "dbus" \notin p.trouble /\ "bus_elsewhere" \notin p.trouble
        /\ \A x : x \in absolute <=> /\ x = "absolute" /\ "systemctl" \notin p.trouble
                                   /\ "relative_systemctl" \notin p.trouble
    BY DEF Free
  <2> HIDE DEF session, services, run, bus, absolute, r
  <2>5. /\ "xdg" \in r.facts <=> "xdg" \notin p.trouble
        /\ "display" \in r.facts <=> "display" \notin p.trouble
        /\ "dbus" \in r.facts <=> "dbus" \notin p.trouble
        /\ "xdg_in_run" \in r.facts <=> "xdg" \notin p.trouble /\ "xdg_elsewhere" \notin p.trouble
        /\ "bus_in_run" \in r.facts <=> "dbus" \notin p.trouble /\ "bus_elsewhere" \notin p.trouble
        /\ "absolute" \in r.facts <=> "systemctl" \notin p.trouble /\ "relative_systemctl" \notin p.trouble
        /\ \A x \in {"systemctl", "manager", "disabled", "inactive"} :
              x \in r.facts <=> "systemctl" \notin p.trouble /\ x \notin p.trouble
    BY <2>1, <2>2, <2>3, <2>4
  <2> QED  BY <2>5 DEF Free, Telling
<1>5. Strict(p, r) = {} <=> Target(p) /\ r.required /\ r.ok /\ ~r.skipped
  BY DEF Strict
<1>6. Free(p, {"current"} \cup Telling.systemd_runtime) <=>
         /\ Target(p) /\ Free(p, Telling.systemd_runtime)
         /\ Free(p, {"systemctl", "manager", "disabled", "inactive"})
         /\ Free(p, {"xdg", "display", "dbus"})
  BY DEF Free, Telling, Target
<1> HIDE DEF r
<1> QED  BY <1>3, <1>4, <1>5, <1>6 DEF RuntimeErrors, r

LEMMA WidgetTells ==
    ASSUME NEW p, NEW environment
    PROVE  WidgetErrors(p, environment) = {} <=>
              /\ Free(p, {"current"} \cup Telling.widget_smoke)
              /\ Readable(environment) => environment.setup = p.setup
<1> DEFINE r == WidgetSmoke(p)
<1>1. /\ r.required <=> Target(p)
      /\ r.ok <=> /\ Free(p, {"theme", "shell", "sprite"})
                  /\ Target(p) => Free(p, {"gui", "display", "qt_probe"})
      /\ r.skipped = FALSE
  BY DEF WidgetSmoke, Report, Free
<1>2. WidgetFacts \ r.facts = {} <=> Free(p, Telling.widget_smoke)
  <2>1. /\ "gui" \in r.facts <=> "gui" \notin p.trouble
        /\ "theme" \in r.facts <=> "theme" \notin p.trouble
        /\ "legacy_theme" \in r.facts <=> "legacy_theme" \notin p.trouble
        /\ "window" \in r.facts <=> Free(p, {"gui", "display", "qt_probe"})
        /\ "shell" \in r.facts <=> "shell" \notin p.trouble
        /\ "sprite" \in r.facts <=> Free(p, {"shell", "sprite"})
        /\ "absolute" \in r.facts <=> Free(p, {"shell", "sprite", "relative_pets"})
    BY DEF WidgetSmoke, Report, Free
  <2> HIDE DEF r
  <2> QED  BY <2>1 DEF WidgetFacts, Free, Telling
<1>3. Strict(p, r) = {} <=> Target(p) /\ r.required /\ r.ok /\ ~r.skipped
  BY DEF Strict
<1> HIDE DEF r
<1>4. WidgetErrors(p, environment) = {} <=>
         /\ Strict(p, r) = {} /\ WidgetFacts \ r.facts = {}
         /\ Readable(environment) => environment.setup = p.setup
  BY DEF WidgetErrors, r
<1>5. Free(p, {"current"} \cup Telling.widget_smoke) <=>
         /\ Target(p) /\ Free(p, Telling.widget_smoke) /\ Free(p, {"theme", "shell", "sprite"})
         /\ Free(p, {"gui", "display", "qt_probe"})
  BY DEF Free, Telling, Target
<1> QED  BY <1>1, <1>2, <1>3, <1>4, <1>5

LEMMA PetsOk ==
    ASSUME NEW p
    PROVE  /\ PetPackages(p).required <=> Free(p, {"pets_optional"})
           /\ PetPackages(p).ok <=> Free(p, {"no_pet_source", "no_pets", "pet_invalid"})
           /\ PetPackages(p).skipped <=> ~Free(p, {"no_pet_source"})
BY DEF PetPackages, Report, Free

LEMMA PetsTell ==
    ASSUME NEW p
    PROVE  PetErrors(p) = {} <=>
              Free(p, {"current"} \cup IF Free(p, {"pets_optional"}) THEN Telling.pet_packages ELSE {})
<1> DEFINE r == PetPackages(p)
<1>2. {"some", "valid", "distinct", "hashes"} \ r.facts = {} <=>
         Free(p, {"no_pet_source", "no_pets", "pet_invalid", "pet_twice", "pet_unpacked"})
  BY DEF PetPackages, Report, Free
<1> HIDE DEF r
<1>3. PetErrors(p) = {} <=>
         /\ Target(p)
         /\ r.required => r.ok /\ ~r.skipped /\ {"some", "valid", "distinct", "hashes"} \ r.facts = {}
  BY DEF PetErrors, Optional, r
<1> QED  BY PetsOk, <1>2, <1>3 DEF r, Target, Free, Telling, PetTroubles

LEMMA WheelsOk ==
    ASSUME NEW p
    PROVE  /\ Wheelhouse(p).required <=> Free(p, {"wheelhouse_optional"})
           /\ Wheelhouse(p).ok <=>
                 /\ Free(p, {"no_wheelhouse", "wheel_dir", "wheel_missing", "wheel_platform",
                             "wheel_python", "wheel_content"})
                 /\ Free(p, {"skip_smoke"}) => Free(p, {"install", "import"})
           /\ Wheelhouse(p).skipped <=> ~Free(p, {"no_wheelhouse"})
BY DEF Wheelhouse, WheelsSound, Installs, InstallSmoked, Report, Free

LEMMA WheelsTell ==
    ASSUME NEW p
    PROVE  WheelhouseErrors(p) = {} <=>
              Free(p, {"current"} \cup IF Free(p, {"wheelhouse_optional"}) THEN Telling.wheelhouse ELSE {})
<1> DEFINE r == Wheelhouse(p)
<1>2. {"all", "compatible", "distinct", "installed"} \ r.facts = {} <=>
         Free(p, {"no_wheelhouse", "wheel_dir", "wheel_missing", "wheel_platform", "wheel_python",
                  "wheel_content", "wheel_twice", "skip_smoke", "install", "import"})
  BY DEF Wheelhouse, WheelsSound, Installs, InstallSmoked, Report, Free
<1> HIDE DEF r
<1>3. WheelhouseErrors(p) = {} <=>
         /\ Target(p)
         /\ r.required => /\ r.ok /\ ~r.skipped
                          /\ {"all", "compatible", "distinct", "installed"} \ r.facts = {}
  BY DEF WheelhouseErrors, Optional, r
<1> QED  BY WheelsOk, <1>2, <1>3 DEF r, Target, Free, Telling, WheelTroubles

LEMMA HooksTell ==
    ASSUME NEW p
    PROVE  AgentHookErrors(p) = {} <=>
              Free(p, {"current"} \cup IF Free(p, {"hooks_optional"}) THEN Telling.agent_hooks ELSE {})
<1> DEFINE r == AgentHooks(p)
<1>1. /\ r.required <=> Free(p, {"hooks_optional"})
      /\ r.ok <=> HookMade(p) = HookPassed(p)
      /\ r.skipped = FALSE
      /\ r.facts = HookPassed(p) \cup (IF Free(p, {"relative_hooks"}) THEN {"absolute"} ELSE {})
  BY DEF AgentHooks, Report
<1>2. HookChecks \ HookPassed(p) = {} <=> Free(p, Telling.agent_hooks \ {"relative_hooks"})
  <2>1. \A x : x \in HookPassed(p) <=>
              \/ x = "hook_script" /\ "script" \notin p.trouble
              \/ x = "hook_script_smoke" /\ Free(p, {"script", "script_fails"})
              \/ x = "claude_settings" /\ Free(p, {"skip_claude", "claude_settings"})
              \/ x = "opencode_plugin" /\ Free(p, {"skip_opencode", "opencode_plugin"})
    BY DEF HookPassed, HookMade, HookChecks, Free
  <2> QED  BY <2>1 DEF HookChecks, Free, Telling
<1>3. HookChecks \ HookPassed(p) = {} => HookMade(p) = HookPassed(p)
  BY DEF HookMade, HookPassed
<1> HIDE DEF r
<1>4. AgentHookErrors(p) = {} <=>
         /\ Target(p)
         /\ r.required => r.ok /\ ~r.skipped /\ (HookChecks \cup {"absolute"}) \ r.facts = {}
  BY DEF AgentHookErrors, Optional, r
<1>5. (HookChecks \cup {"absolute"}) \ r.facts = {} <=>
         HookChecks \ HookPassed(p) = {} /\ Free(p, {"relative_hooks"})
  <2>1. "absolute" \notin HookChecks /\ HookPassed(p) \subseteq HookChecks
    BY DEF HookPassed, HookMade, HookChecks
  <2>2. \A x : x \in r.facts <=> x \in HookPassed(p) \/ (x = "absolute" /\ Free(p, {"relative_hooks"}))
    BY <1>1
  <2>3. "absolute" \in r.facts <=> Free(p, {"relative_hooks"})
    BY <2>1, <2>2
  <2>4. \A x \in HookChecks : x \in r.facts <=> x \in HookPassed(p)
    BY <2>1, <2>2
  <2> QED  BY <2>3, <2>4
<1>6. Free(p, Telling.agent_hooks) <=>
         Free(p, Telling.agent_hooks \ {"relative_hooks"}) /\ Free(p, {"relative_hooks"})
  BY DEF Free, Telling
<1> QED  BY <1>1, <1>2, <1>3, <1>4, <1>5, <1>6 DEF Target, Free

LEMMA HookSmokeTells ==
    ASSUME NEW p, p.stored \in BOOLEAN, NEW environment
    PROVE  HookSmokeErrors(p, environment) = {} <=>
              /\ Free(p, {"current"} \cup Telling.hook_event_smoke)
              /\ "unstored" \in p.trouble => p.stored
              /\ Readable(environment) => environment.setup = p.setup
<1> DEFINE r == HookSmoke(p)
           verified == /\ Free(p, {"socket", "refused", "transcript"})
                       /\ Free(p, {"unstored"}) \/ p.stored
<1>1. /\ r.required <=> Target(p)
      /\ r.ok <=> verified /\ Free(p, {"cleanup"})
      /\ r.skipped = FALSE
  BY DEF HookSmoke, Report, Free
<1>2. {"sent", "verified", "hidden", "workspace", "absolute"} \ r.facts = {} <=>
         verified /\ Free(p, {"cleanup", "relative", "relative_db"})
  BY DEF HookSmoke, Report, Free
<1>3. Strict(p, r) = {} <=> Target(p) /\ r.required /\ r.ok /\ ~r.skipped
  BY DEF Strict
<1> HIDE DEF r
<1>4. HookSmokeErrors(p, environment) = {} <=>
         /\ Strict(p, r) = {}
         /\ {"sent", "verified", "hidden", "workspace", "absolute"} \ r.facts = {}
         /\ Readable(environment) => environment.setup = p.setup
  BY DEF HookSmokeErrors, r
<1> QED  BY <1>1, <1>2, <1>3, <1>4 DEF Target, Free, Telling

\* The troubles that the report of artefact a, made of probe p, has to tell of;
\* and what the check wants of the report of a in directory d.
ToTell(a, p) == {"current"} \cup IF Waived(a, p) THEN {} ELSE Telling[a]

Passes(d, a) ==
    LET p == d.files[a]
        environment == d.files["environment"]
    IN  /\ Readable(p) /\ Free(p, ToTell(a, p))
        /\ (a = "hook_event_smoke" /\ "unstored" \in p.trouble) => p.stored
        /\ (a \in {"widget_smoke", "hook_event_smoke"} /\ Readable(environment)) =>
              environment.setup = p.setup

LEMMA ArtefactNames ==
    Artefact = {"environment", "acceptance", "tmux_control", "systemd_units", "systemd_runtime",
                "widget_smoke", "wheelhouse", "pet_packages", "agent_hooks", "hook_event_smoke"}
BY DEF Artefact, Artefacts

LEMMA CheckTells ==
    ASSUME NEW d, d.files \in [Artefact -> File(Probe)], NEW a \in Artefact
    PROVE  ErrorsOf(d, a) = {} <=> Passes(d, a)
<1> DEFINE p == d.files[a]
           e == d.files["environment"]
<1>1. CASE ~Readable(p)
  BY <1>1 DEF ErrorsOf, Passes
<1>2. CASE Readable(p)
  <2>1. p.stored \in BOOLEAN
    BY <1>2 DEF File, Readable, Probe
  <2> HIDE DEF p, e
  <2>2. Passes(d, a) <=> /\ Free(p, ToTell(a, p))
                         /\ (a = "hook_event_smoke" /\ "unstored" \in p.trouble) => p.stored
                         /\ (a \in {"widget_smoke", "hook_event_smoke"} /\ Readable(e)) =>
                               e.setup = p.setup
    BY <1>2 DEF Passes, p, e
  <2>3. CASE a = "environment"
    <3>1. ErrorsOf(d, a) = EnvironmentErrors(p)
      BY <1>2, <2>3 DEF ErrorsOf, p
    <3>2. ToTell(a, p) = {"current"} \cup Telling.environment
      BY <2>3 DEF ToTell, Waived
    <3> QED  BY <2>2, <2>3, <3>1, <3>2, EnvironmentTells
  <2>4. CASE a = "acceptance"
    <3>1. ErrorsOf(d, a) = AcceptanceErrors(p)
      BY <1>2, <2>4 DEF ErrorsOf, p
    <3>2. ToTell(a, p) = {"current"} \cup Telling.acceptance
      BY <2>4 DEF ToTell, Waived
    <3> QED  BY <2>2, <2>4, <3>1, <3>2, AcceptanceTells
  <2>5. CASE a = "tmux_control"
    <3>1. ErrorsOf(d, a) = TmuxErrors(p)
      BY <1>2, <2>5 DEF ErrorsOf, p
    <3>2. ToTell(a, p) = {"current"} \cup Telling.tmux_control
      BY <2>5 DEF ToTell, Waived
    <3> QED  BY <2>2, <2>5, <3>1, <3>2, TmuxTells
  <2>6. CASE a = "systemd_units"
    <3>1. ErrorsOf(d, a) = UnitErrors(p)
      BY <1>2, <2>6 DEF ErrorsOf, p
    <3>2. ToTell(a, p) = {"current"} \cup Telling.systemd_units
      BY <2>6 DEF ToTell, Waived
    <3> QED  BY <2>2, <2>6, <3>1, <3>2, UnitsTell
  <2>7. CASE a = "systemd_runtime"
    <3>1. ErrorsOf(d, a) = RuntimeErrors(p)
      BY <1>2, <2>7 DEF ErrorsOf, p
    <3>2. ToTell(a, p) = {"current"} \cup Telling.systemd_runtime
      BY <2>7 DEF ToTell, Waived
    <3> QED  BY <2>2, <2>7, <3>1, <3>2, RuntimeTells
  <2>8. CASE a = "widget_smoke"
    <3>1. ErrorsOf(d, a) = WidgetErrors(p, e)
      BY <1>2, <2>8 DEF ErrorsOf, p, e
    <3>2. ToTell(a, p) = {"current"} \cup Telling.widget_smoke
      BY <2>8 DEF ToTell, Waived
    <3> QED  BY <2>2, <2>8, <3>1, <3>2, WidgetTells
  <2>9. CASE a = "wheelhouse"
    <3>1. ErrorsOf(d, a) = WheelhouseErrors(p)
      BY <1>2, <2>9 DEF ErrorsOf, p
    <3>2. ToTell(a, p) = {"current"} \cup
             IF Free(p, {"wheelhouse_optional"}) THEN Telling.wheelhouse ELSE {}
      BY <2>9 DEF ToTell, Waived, Free
    <3> QED  BY <2>2, <2>9, <3>1, <3>2, WheelsTell
  <2>10. CASE a = "pet_packages"
    <3>1. ErrorsOf(d, a) = PetErrors(p)
      BY <1>2, <2>10 DEF ErrorsOf, p
    <3>2. ToTell(a, p) = {"current"} \cup
             IF Free(p, {"pets_optional"}) THEN Telling.pet_packages ELSE {}
      BY <2>10 DEF ToTell, Waived, Free
    <3> QED  BY <2>2, <2>10, <3>1, <3>2, PetsTell
  <2>11. CASE a = "agent_hooks"
    <3>1. ErrorsOf(d, a) = AgentHookErrors(p)
      BY <1>2, <2>11 DEF ErrorsOf, p
    <3>2. ToTell(a, p) = {"current"} \cup
             IF Free(p, {"hooks_optional"}) THEN Telling.agent_hooks ELSE {}
      BY <2>11 DEF ToTell, Waived, Free
    <3> QED  BY <2>2, <2>11, <3>1, <3>2, HooksTell
  <2>12. CASE a = "hook_event_smoke"
    <3>1. ErrorsOf(d, a) = HookSmokeErrors(p, e)
      BY <1>2, <2>12 DEF ErrorsOf, p, e
    <3>2. ToTell(a, p) = {"current"} \cup Telling.hook_event_smoke
      BY <2>12 DEF ToTell, Waived
    <3> QED  BY <2>1, <2>2, <2>12, <3>1, <3>2, HookSmokeTells
  <2> QED
    BY <2>3, <2>4, <2>5, <2>6, <2>7, <2>8, <2>9, <2>10, <2>11, <2>12, ArtefactNames
<1> QED  BY <1>1, <1>2

-----------------------------------------------------------------------------
(* What a bundle's summary says of its reports *)

\* The bundle's reports are made of three probes with the same options.
Alike(probes) ==
    /\ probes \in Seq(Probe) /\ Len(probes) = 3
    /\ \A i, j \in 1 .. 3 : probes[i].trouble \cap Options = probes[j].trouble \cap Options

LEMMA ProbesOfOne ==
    ASSUME NEW probes, Alike(probes), NEW a \in Artefact
    PROVE  /\ ProbeOf(a, probes) \in Probe
           /\ ProbeOf(a, probes).trouble \cap Options = probes[1].trouble \cap Options
           /\ Target(ProbeOf(a, probes)) <=> Target(probes[1])
<1>1. \A i \in 1 .. 3 : probes[i] \in Probe
  BY ElementOfSeq DEF Alike
<1>2. PICK i \in 1 .. 3 : ProbeOf(a, probes) = probes[i]
  BY DEF ProbeOf
<1>3. probes[i].trouble \cap Options = probes[1].trouble \cap Options
  BY DEF Alike
<1>4. "current" \in Options
  BY DEF Options
<1> QED  BY <1>1, <1>2, <1>3, <1>4 DEF Target, Free

\* A report that is required and not ok has an error.
LEMMA NotOkIsAnError ==
    ASSUME NEW d, NEW a \in Artefact \ {"acceptance", "environment"}, Readable(d.files[a]),
           Build(a, d.files[a]).required, ~Build(a, d.files[a]).ok
    PROVE  ErrorsOf(d, a) # {}
<1> DEFINE p == d.files[a]
           r == Build(a, p)
<1>1. "ok" \in Strict(p, r) /\ \A needs : "ok" \in Optional(p, r, needs)
  BY DEF Strict, Optional
<1>2. CASE a = "tmux_control"
  BY <1>1, <1>2 DEF ErrorsOf, Build, TmuxErrors
<1>3. CASE a = "systemd_units"
  BY <1>1, <1>3 DEF ErrorsOf, Build, UnitErrors
<1>4. CASE a = "systemd_runtime"
  BY <1>1, <1>4 DEF ErrorsOf, Build, RuntimeErrors
<1>5. CASE a = "widget_smoke"
  BY <1>1, <1>5 DEF ErrorsOf, Build, WidgetErrors
<1>6. CASE a = "wheelhouse"
  BY <1>1, <1>6 DEF ErrorsOf, Build, WheelhouseErrors
<1>7. CASE a = "pet_packages"
  BY <1>1, <1>7 DEF ErrorsOf, Build, PetErrors
<1>8. CASE a = "agent_hooks"
  BY <1>1, <1>8 DEF ErrorsOf, Build, AgentHookErrors
<1>9. CASE a = "hook_event_smoke"
  BY <1>1, <1>9 DEF ErrorsOf, Build, HookSmokeErrors
<1> QED  BY <1>2, <1>3, <1>4, <1>5, <1>6, <1>7, <1>8, <1>9, ArtefactNames

\* One that is made of a target without the troubles a bundle passes over, and
\* is ok or not required, tells of no trouble.
LEMMA OkHasNothingToTell ==
    ASSUME NEW a \in Artefact \ {"acceptance", "environment"}, NEW p, p.stored \in BOOLEAN,
           Target(p), Free(p, BundleMisses), Build(a, p).required => Build(a, p).ok
    PROVE  /\ Free(p, ToTell(a, p))
           /\ a = "hook_event_smoke" => Free(p, {"unstored"}) \/ p.stored
<1> USE DEF ToTell, Waived, Telling, Target, Free, BundleMisses, Build, Report
<1>2. CASE a = "tmux_control"
  BY <1>2 DEF TmuxControl
<1>3. CASE a = "systemd_units"
  BY <1>3 DEF SystemdUnits
<1>4. CASE a = "systemd_runtime"
  BY <1>4, RuntimeOk DEF SystemdRuntime
<1>5. CASE a = "widget_smoke"
  BY <1>5 DEF WidgetSmoke
<1>6. CASE a = "wheelhouse"
  BY <1>6, WheelsOk DEF WheelTroubles
<1>7. CASE a = "pet_packages"
  BY <1>7, PetsOk DEF PetTroubles
<1>8. CASE a = "agent_hooks"
  <2>1. HookMade(p) = HookChecks
    BY DEF HookMade
  <2>2. CASE "hooks_optional" \in p.trouble
    BY <1>8, <2>2
  <2>3. CASE "hooks_optional" \notin p.trouble
    <3>1. \A x \in HookChecks : x \in HookPassed(p)
      BY <1>8, <2>1, <2>3 DEF AgentHooks
    <3>2. Free(p, {"script", "script_fails", "claude_settings", "opencode_plugin"})
      BY <3>1 DEF HookPassed, HookChecks
    <3> QED  BY <1>8, <3>2
  <2> QED  BY <2>2, <2>3
<1>9. CASE a = "hook_event_smoke"
  BY <1>9 DEF HookSmoke
<1> QED  BY <1>2, <1>3, <1>4, <1>5, <1>6, <1>7, <1>8, <1>9, ArtefactNames

\* The reports in d are those that were made of probes.
MadeOf(d, probes) ==
    /\ Alike(probes) /\ d.files \in [Artefact -> File(Probe)]
    /\ \A a \in Artefact : d.files[a] = ProbeOf(a, probes)

\* What failed is an error.
LEMMA FailuresAreErrors ==
    ASSUME NEW d, NEW probes, MadeOf(d, probes), Target(probes[1]), Failed(probes) # {}
    PROVE  \E a \in Artefact : ErrorsOf(d, a) # {}
<1>1. \A a \in Artefact : d.files[a] \in Probe /\ Readable(d.files[a])
  BY ProbesOfOne, ProbeAssumption DEF MadeOf, Readable
<1>2. CASE AcceptanceRequired(probes[1]) \ Acceptance(probes[1]).facts # {}
  <2>1. "acceptance" \in Artefact /\ d.files["acceptance"] = probes[1]
    BY ArtefactNames DEF MadeOf, ProbeOf
  <2>2. AcceptanceErrors(probes[1]) # {}
    BY <1>2 DEF AcceptanceErrors, AcceptanceRequired
  <2>3. ErrorsOf(d, "acceptance") = AcceptanceErrors(probes[1])
    BY <1>1, <2>1 DEF ErrorsOf
  <2> QED  BY <2>1, <2>2, <2>3
<1>3. CASE AcceptanceRequired(probes[1]) \ Acceptance(probes[1]).facts = {}
  <2>1. PICK a \in Artefact \ {"acceptance", "environment"} :
           LET r == Build(a, ProbeOf(a, probes)) IN r.required /\ ~r.ok
    BY <1>3 DEF Failed
  <2>2. ErrorsOf(d, a) # {}
    BY <1>1, <2>1, NotOkIsAnError DEF MadeOf
  <2> QED  BY <2>2
<1> QED  BY <1>2, <1>3

\* Where nothing failed and no trouble was passed over, there is no error.
LEMMA NoFailureNoError ==
    ASSUME NEW d, NEW probes, MadeOf(d, probes), Target(probes[1]), Failed(probes) = {},
           \A a \in Artefact : Free(d.files[a], BundleMisses),
           "transcript" \in d.files["environment"].trouble =>
               "transcript" \in d.files["hook_event_smoke"].trouble,
           \A a, b \in Artefact : d.files[a].setup = d.files[b].setup
    PROVE  \A a \in Artefact : ErrorsOf(d, a) = {}
<1> DEFINE p(a) == d.files[a]
<1>1. \A a \in Artefact : /\ p(a) \in Probe /\ Readable(p(a)) /\ p(a).stored \in BOOLEAN
                          /\ p(a) = ProbeOf(a, probes)
                          /\ Target(p(a)) /\ Free(p(a), BundleMisses)
  BY ProbesOfOne, ProbeAssumption DEF MadeOf, Readable, Probe
<1>2. \A a \in Artefact \ {"acceptance", "environment"} :
         /\ Free(p(a), ToTell(a, p(a))) /\ (a = "hook_event_smoke" => Free(p(a), {"unstored"}) \/ p(a).stored)
  <2> SUFFICES ASSUME NEW a \in Artefact \ {"acceptance", "environment"}
               PROVE  /\ Free(p(a), ToTell(a, p(a)))
                      /\ a = "hook_event_smoke" => Free(p(a), {"unstored"}) \/ p(a).stored
    OBVIOUS
  <2>1. Build(a, p(a)).required => Build(a, p(a)).ok
    BY <1>1 DEF Failed
  <2> QED  BY <1>1, <2>1, OkHasNothingToTell
<1>3. /\ p("acceptance") = probes[1] /\ p("environment") = probes[1]
      /\ Target(probes[1]) /\ Free(probes[1], BundleMisses)
  BY <1>1, ArtefactNames DEF ProbeOf
<1>4. Free(probes[1], AcceptanceChecks \ {"notify_send", "codex"})
  BY DEF Failed, Acceptance, AcceptanceRequired, Report, Free
<1>5. "transcript" \notin probes[1].trouble
  <2>1. "hook_event_smoke" \in Artefact \ {"acceptance", "environment"}
    BY ArtefactNames
  <2>2. Free(p("hook_event_smoke"), ToTell("hook_event_smoke", p("hook_event_smoke")))
    BY <1>2, <2>1
  <2>3. "transcript" \in ToTell("hook_event_smoke", p("hook_event_smoke"))
    BY DEF ToTell, Waived, Telling
  <2> QED  BY <1>3, <2>2, <2>3 DEF Free
<1>6. \A a \in {"acceptance", "environment"} : Free(probes[1], ToTell(a, probes[1]))
  BY <1>3, <1>4, <1>5 DEF Free, ToTell, Waived, Telling, Target, AcceptanceChecks, BundleMisses
<1>7. ASSUME NEW a \in Artefact PROVE Passes(d, a)
  <2>1. Free(p(a), ToTell(a, p(a))) /\ Readable(p(a))
    BY <1>1, <1>2, <1>3, <1>6
  <2>2. a = "hook_event_smoke" /\ "unstored" \in p(a).trouble => p(a).stored
    BY <1>2 DEF Free
  <2>3. "environment" \in Artefact
    BY ArtefactNames
  <2> QED  BY <2>1, <2>2, <2>3 DEF Passes
<1> QED  BY <1>7, CheckTells DEF MadeOf

-----------------------------------------------------------------------------
(* The commands *)

Job == [kind : {"probing"}, options : SUBSET Options, probes : Seq(Probe)]
       \cup [kind : {"writing"}, probes : Seq(Probe), next : 1 .. Len(Artefacts) + 1]
       \cup [kind : {"collecting"}, pane : Panes, relative : BOOLEAN, entries : Seq(Entry)]
       \cup [kind : {"merging"}, relative : BOOLEAN, ok : BOOLEAN]

JobOK == job # Idle => job \in Job

Doing(kind) == job # Idle /\ job.kind = kind

\* While a bundle is made, its reports are made with its options; from its
\* first file on it is not whole, and has written what precedes the next.
Bundling ==
    /\ host \cap Options = {} /\ IsFiniteSet(host)
    /\ Doing("probing") =>
          /\ Len(job.probes) <= 3
          /\ \A i \in 1 .. Len(job.probes) : job.probes[i].trouble \cap Options = job.options
    /\ Doing("writing") =>
          /\ Alike(job.probes)
          /\ "bundle" \in intact => job.next = 1
          /\ Target(job.probes[1]) =>
                \A k \in 1 .. job.next - 1 :
                    dir.files[Artefacts[k]] = ProbeOf(Artefacts[k], job.probes)

\* The probes of which the reports in d would have been made.
ProbesIn(d) == <<d.files["environment"], d.files["widget_smoke"], d.files["hook_event_smoke"]>>

\* A bundle of the target that is whole has its reports in the directory, and its
\* summary says of them what it said when it was written.
Foretold ==
    "bundle" \in intact /\ Readable(dir.summary) /\ dir.summary.target =>
        LET probes == ProbesIn(dir)
        IN  /\ MadeOf(dir, probes) /\ Target(probes[1])
            /\ dir.summary.failed \ {"backend_evidence"} = Failed(probes)
            /\ dir.summary.relative = ~Free(probes[1], {"relative"})

\* The entry that a collection makes of report r.
Records(entry, r) ==
    /\ Readable(r)
    /\ entry = [ok |-> BackendReportErrors(r) = {}, pane |-> r.pane, relative |-> entry.relative]

\* A collection has made entries of the reports it wrote; until it is merged it
\* is not whole.
Collecting ==
    /\ Doing("collecting") =>
          /\ Len(job.entries) <= Len(Pairs)
          /\ job.entries # <<>> => "collection" \notin intact
          /\ \A i \in 1 .. Len(job.entries) : /\ Records(job.entries[i], dir.reports[i])
                                             /\ job.entries[i].relative = job.relative
    /\ Doing("merging") =>
          /\ "collection" \notin intact
          /\ dir.entries \in [DOMAIN Pairs -> Entry]
          /\ \A i \in DOMAIN Pairs : /\ Records(dir.entries[i], dir.reports[i])
                                      /\ dir.entries[i].relative = job.relative
          /\ job.ok <=> \A i \in DOMAIN Pairs : dir.entries[i].ok

\* The entries of one that is whole are those of its reports.
Collected ==
    "collection" \in intact =>
        /\ dir.entries \in [DOMAIN Pairs -> Entry]
        /\ \A i \in DOMAIN Pairs : Records(dir.entries[i], dir.reports[i])
        /\ last = "failed" => \E i \in DOMAIN Pairs : ~dir.entries[i].ok

\* The backends' paths in the summary are those of the bundle or of the
\* collection, whichever wrote last.
PathsTold ==
    {"bundle", "collection"} \subseteq intact /\ Readable(dir.summary) /\ dir.summary.target =>
        \/ dir.summary.backends = "absolute" \/ dir.summary.relative
        \/ \E i \in DOMAIN Pairs : dir.entries[i].relative

EvidenceInv ==
    EvidenceTypeOK /\ JobOK /\ Bundling /\ Foretold /\ Collecting /\ Collected /\ PathsTold

LEMMA Places ==
    /\ Len(Artefacts) = 10 /\ DOMAIN Artefacts = 1 .. 10
    /\ \A i, j \in 1 .. 10 : Artefacts[i] = Artefacts[j] => i = j
    /\ Artefact = {Artefacts[i] : i \in 1 .. 10}
BY DEF Artefact, Artefacts

LEMMA PairsType == Len(Pairs) \in Nat /\ DOMAIN Pairs = 1 .. Len(Pairs) /\ Len(Pairs) > 0
BY PairsAssumption, EmptySeq

LEMMA FailedType == ASSUME NEW probes PROVE Failed(probes) \in SUBSET Failures
BY DEF Failed, Failures, AcceptanceRequired, AcceptanceChecks

LEMMA SummaryType == ASSUME NEW probes PROVE BundleSummary(probes) \in Summary
BY FailedType DEF BundleSummary, Summary, Target, Free, PathsOf, Paths

LEMMA MergedType ==
    ASSUME NEW summary \in Summary, NEW relative \in BOOLEAN, NEW ok \in BOOLEAN
    PROVE  Merged(summary, relative, ok) \in Summary
<1> DEFINE failed == (summary.failed \ {"backend_evidence"}) \cup {x \in {"backend_evidence"} : ~ok}
           paths == PathsOf(relative)
<1>1. failed \in SUBSET Failures /\ paths \in Paths
  BY DEF Summary, Failures, PathsOf, Paths
<1> HIDE DEF failed, paths
<1>2. [summary EXCEPT !.backends = paths, !.failed = failed] \in Summary
  BY <1>1 DEF Summary
<1> QED  BY <1>2 DEF Merged, failed, paths

LEMMA FewAreFinite ==
    ASSUME NEW troubles, NEW few \in Few(troubles)
    PROVE  few \subseteq troubles /\ IsFiniteSet(few) /\ Cardinality(few) \in Nat
<1>1. CASE few = {}
  BY <1>1, FS_EmptySet
<1>2. ASSUME NEW x \in troubles, few = {x}
      PROVE  few \subseteq troubles /\ IsFiniteSet(few) /\ Cardinality(few) \in Nat
  <2>1. IsFiniteSet({x}) /\ Cardinality({x}) = 1
    BY FS_Singleton
  <2> QED  BY <1>2, <2>1
<1> QED  BY <1>1, <1>2 DEF Few

\* What is left of a file whose writing breaks off is a file of its type.
LEMMA HalfWrittenType ==
    ASSUME EvidenceTypeOK, JobOK, job # Idle
    PROVE  HalfWritten \in [files : [Artefact -> File(Probe)], summary : File(Summary),
                            reports : [DOMAIN Pairs -> File(Backend)],
                            entries : File([DOMAIN Pairs -> Entry])]
<1> DEFINE Dir == [files : [Artefact -> File(Probe)], summary : File(Summary),
                   reports : [DOMAIN Pairs -> File(Backend)], entries : File([DOMAIN Pairs -> Entry])]
<1>1. dir \in Dir
  BY DEF EvidenceTypeOK
<1>2. \A what : Torn \in File(what)
  BY DEF File
<1>3. \A a \in Artefact : [dir EXCEPT !.files[a] = Torn] \in Dir
  BY <1>1, <1>2
<1>4. \A i \in DOMAIN Pairs : [dir EXCEPT !.reports[i] = Torn] \in Dir
  BY <1>1, <1>2
<1>5. [dir EXCEPT !.summary = Torn] \in Dir /\ [dir EXCEPT !.entries = Torn] \in Dir
  BY <1>1, <1>2
<1>6. job.kind = "writing" /\ job.next <= Len(Artefacts) => Artefacts[job.next] \in Artefact
  BY Places DEF JobOK, Job
<1>7. job.kind = "collecting" /\ Len(job.entries) < Len(Pairs) => Len(job.entries) + 1 \in DOMAIN Pairs
  BY PairsType DEF JobOK, Job
<1> HIDE DEF Dir
<1>8. HalfWritten \in Dir
  BY <1>1, <1>3, <1>4, <1>5, <1>6, <1>7 DEF HalfWritten
<1> QED  BY <1>8 DEF Dir

LEMMA EvidenceTypeStep ==
    EvidenceTypeOK /\ JobOK /\ Bundling /\ [EvidenceNext]_evidenceVars => EvidenceTypeOK' /\ JobOK'
<1> SUFFICES ASSUME EvidenceTypeOK, JobOK, Bundling, [EvidenceNext]_evidenceVars
             PROVE  EvidenceTypeOK' /\ JobOK'
  OBVIOUS
<1> DEFINE Dir == [files : [Artefact -> File(Probe)], summary : File(Summary),
                   reports : [DOMAIN Pairs -> File(Backend)], entries : File([DOMAIN Pairs -> Entry])]
<1>0. /\ dir \in Dir /\ spent \in Nat /\ spent <= MaxTroubles /\ commands \in 0 .. MaxCommands
      /\ MaxTroubles \in Nat /\ MaxCommands \in Nat /\ host \subseteq Trouble
      /\ setup \in Setups /\ smoked \subseteq Setups
      /\ last \in {"none", "bundled", "collected", "failed"} /\ intact \subseteq {"bundle", "collection"}
  BY CommandsAssumption DEF EvidenceTypeOK
<1>d. ASSUME dir' \in Dir, spent' \in 0 .. MaxTroubles, commands' \in 0 .. MaxCommands,
             host' \subseteq Trouble, setup' \in Setups, smoked' \subseteq Setups,
             last' \in {"none", "bundled", "collected", "failed"},
             intact' \subseteq {"bundle", "collection"}, job' \in Job \cup {Idle}
      PROVE  EvidenceTypeOK' /\ JobOK'
  BY <1>d DEF EvidenceTypeOK, JobOK, Job
<1>e. job \in Job \cup {Idle} /\ spent \in 0 .. MaxTroubles
  BY <1>0 DEF JobOK
<1>f. \A n \in Nat : Spend(n) => spent' \in 0 .. MaxTroubles
  BY <1>0 DEF Spend
<1> HIDE DEF Dir
<1>1. ASSUME NEW options \in Few(Options), StartBundle(options) PROVE EvidenceTypeOK' /\ JobOK'
  <2>1. options \subseteq Options /\ Cardinality(options) \in Nat
    BY FewAreFinite
  <2>2. job' \in Job
    <3>1. job' = [kind |-> "probing", options |-> options, probes |-> <<>>] /\ <<>> \in Seq(Probe)
      BY <1>1, EmptySeq DEF StartBundle
    <3> QED  BY <2>1, <3>1 DEF Job
  <2> QED  BY <1>0, <1>1, <1>d, <1>f, <2>1, <2>2 DEF StartBundle
<1>2. CASE MakeReports
  <2> DEFINE p == [trouble |-> host \cup job.options, setup |-> setup, stored |-> setup \in smoked]
  <2>1. job \in [kind : {"probing"}, options : SUBSET Options, probes : Seq(Probe)]
    BY <1>2 DEF MakeReports, JobOK, Job
  <2>2. p \in Probe
    BY <1>0, <2>1 DEF Probe, Trouble
  <2>3. Append(job.probes, p) \in Seq(Probe)
    BY <2>1, <2>2, AppendProperties
  <2> DEFINE made == Append(job.probes, p)
  <2> HIDE DEF made
  <2>4. [job EXCEPT !.probes = made] \in Job
    BY <2>1, <2>3 DEF Job, made
  <2>5. [kind |-> "writing", probes |-> made, next |-> 1] \in Job
    BY <2>3, Places DEF Job, made
  <2>6. smoked' = smoked \/ smoked' = smoked \cup {setup}
    BY <1>2 DEF MakeReports
  <2>7. job' \in {Idle, [job EXCEPT !.probes = made], [kind |-> "writing", probes |-> made, next |-> 1]}
    BY <1>2 DEF MakeReports, made
  <2> HIDE DEF p
  <2>8. job' \in Job \cup {Idle} /\ smoked' \subseteq Setups
    BY <1>0, <2>4, <2>5, <2>6, <2>7
  <2> QED  BY <1>0, <1>2, <1>d, <1>e, <2>8 DEF MakeReports, counts
<1>3. CASE WriteReport
  <2> DEFINE a == Artefacts[job.next]
  <2>1. /\ job \in [kind : {"writing"}, probes : Seq(Probe), next : 1 .. Len(Artefacts) + 1]
        /\ job.next <= 10
    BY <1>3, Places DEF WriteReport, JobOK, Job
  <2>2. a \in Artefact
    BY <2>1, Places
  <2>3. ProbeOf(a, job.probes) \in File(Probe)
    BY <1>3, <2>2, ProbesOfOne DEF WriteReport, Bundling, Doing, File
  <2>4. dir' = [dir EXCEPT !.files[a] = ProbeOf(a, job.probes)] \/ dir' = dir
    BY <1>3 DEF WriteReport
  <2>5. dir' \in Dir
    BY <1>0, <2>2, <2>3, <2>4 DEF Dir
  <2>6. job' \in Job
    BY <1>3, <2>1, Places DEF WriteReport, Job
  <2> QED  BY <1>0, <1>3, <1>d, <1>e, <2>5, <2>6 DEF WriteReport, counts
<1>4. CASE WriteSummary
  <2>1. BundleSummary(job.probes) \in File(Summary)
    BY SummaryType DEF File
  <2>2. dir' \in Dir
    BY <1>0, <1>4, <2>1 DEF WriteSummary, Dir
  <2> QED  BY <1>0, <1>4, <1>d, <1>e, <2>2 DEF WriteSummary, counts
<1>5. ASSUME NEW where \in Panes, NEW relative \in BOOLEAN, StartCollection(where, relative)
      PROVE  EvidenceTypeOK' /\ JobOK'
  <2>1. job' \in Job
    BY <1>5, EmptySeq DEF StartCollection, Job
  <2>2. spent' \in 0 .. MaxTroubles
    BY <1>5, <1>f DEF StartCollection
  <2> QED  BY <1>0, <1>5, <1>d, <1>e, <2>1, <2>2 DEF StartCollection
<1>6. ASSUME NEW outcome \in Outcome, NEW screens \in DOMAIN Pairs, Verify(outcome, screens)
      PROVE  EvidenceTypeOK' /\ JobOK'
  <2> DEFINE r == [outcome |-> outcome, pane |-> job.pane, screens |-> screens]
             entry == [ok |-> BackendReportErrors(r) = {}, pane |-> job.pane, relative |-> job.relative]
  <2>1. /\ job \in [kind : {"collecting"}, pane : Panes, relative : BOOLEAN, entries : Seq(Entry)]
        /\ Len(job.entries) < Len(Pairs)
    BY <1>6 DEF Verify, JobOK, Job
  <2>2. Len(job.entries) + 1 \in DOMAIN Pairs
    BY <2>1, PairsType
  <2>3. r \in File(Backend)
    BY <2>1 DEF File, Backend
  <2>4. dir' = [dir EXCEPT !.reports[Len(job.entries) + 1] = r]
    BY <1>6 DEF Verify
  <2>5. dir' \in Dir
    BY <1>0, <2>2, <2>3, <2>4 DEF Dir
  <2>6. job' = [job EXCEPT !.entries = Append(@, entry)]
    BY <1>6 DEF Verify
  <2>7. entry \in Entry
    BY <2>1 DEF Entry
  <2> HIDE DEF r, entry
  <2>8. job' \in Job
    BY <2>1, <2>6, <2>7, AppendProperties DEF Job
  <2>9. spent' \in 0 .. MaxTroubles
    BY <1>6, <1>f DEF Verify
  <2> QED  BY <1>0, <1>6, <1>d, <1>e, <2>5, <2>8, <2>9 DEF Verify
<1>7. CASE WriteEntries
  <2>1. /\ job \in [kind : {"collecting"}, pane : Panes, relative : BOOLEAN, entries : Seq(Entry)]
        /\ Len(job.entries) = Len(Pairs)
    BY <1>7 DEF WriteEntries, JobOK, Job
  <2>2. job.entries \in [DOMAIN Pairs -> Entry]
    BY <2>1, PairsType
  <2>3. dir' \in Dir
    BY <1>0, <1>7, <2>2 DEF WriteEntries, Dir, File
  <2>4. job' \in Job
    <3>1. job' = [kind |-> "merging", relative |-> job.relative,
                  ok |-> \A i \in DOMAIN Pairs : job.entries[i].ok]
      BY <1>7 DEF WriteEntries
    <3> QED  BY <2>1, <3>1 DEF Job
  <2> QED  BY <1>0, <1>7, <1>d, <1>e, <2>3, <2>4 DEF WriteEntries, counts
<1>8. CASE Merge
  <2>1. job.relative \in BOOLEAN /\ job.ok \in BOOLEAN
    BY <1>8 DEF Merge, JobOK, Job
  <2>2. Readable(dir.summary) => Merged(dir.summary, job.relative, job.ok) \in File(Summary)
    BY <1>0, <2>1, MergedType DEF Readable, File, Dir
  <2>3. dir' \in Dir
    BY <1>0, <1>8, <2>2 DEF Merge, Dir
  <2> QED  BY <1>0, <1>8, <1>d, <1>e, <2>3 DEF Merge, counts
<1>9. CASE Interrupt
  <2>1. dir' \in Dir
    BY <1>0, <1>9, HalfWrittenType DEF Interrupt, Dir
  <2>2. spent' \in 0 .. MaxTroubles
    BY <1>9, <1>f DEF Interrupt
  <2> QED  BY <1>0, <1>9, <1>d, <1>e, <2>1, <2>2 DEF Interrupt
<1>10. CASE SetUp
  <2>1. spent' \in 0 .. MaxTroubles
    BY <1>10, <1>f DEF SetUp
  <2>2. setup' \in Setups
    BY <1>0, <1>10 DEF SetUp, Setups
  <2> QED  BY <1>0, <1>10, <1>d, <1>e, <2>1, <2>2 DEF SetUp
<1>11. ASSUME NEW troubles \in Few(Trouble \ Options), HostChanges(troubles)
       PROVE  EvidenceTypeOK' /\ JobOK'
  <2> DEFINE n == Cardinality(troubles \ host) + Cardinality(host \ troubles)
  <2>1. n \in Nat
    <3>1. IsFiniteSet(troubles) /\ IsFiniteSet(host)
      BY FewAreFinite DEF Bundling
    <3>2. IsFiniteSet(troubles \ host) /\ IsFiniteSet(host \ troubles)
      BY <3>1, FS_Difference
    <3>3. Cardinality(troubles \ host) \in Nat /\ Cardinality(host \ troubles) \in Nat
      BY <3>2, FS_CardinalityType
    <3> QED  BY <3>3
  <2> HIDE DEF n
  <2>2. spent' \in 0 .. MaxTroubles
    BY <1>11, <1>f, <2>1 DEF HostChanges, n
  <2>3. host' \subseteq Trouble
    BY <1>11, FewAreFinite DEF HostChanges
  <2> QED  BY <1>0, <1>11, <1>d, <1>e, <2>2, <2>3 DEF HostChanges
<1>12. CASE UNCHANGED evidenceVars
  BY <1>0, <1>12, <1>d, <1>e DEF evidenceVars, counts
<1> QED
  BY <1>1, <1>2, <1>3, <1>4, <1>5, <1>6, <1>7, <1>8, <1>9, <1>10, <1>11, <1>12 DEF EvidenceNext

\* Commands that write no report leave the summary as it is, mark it, or tear it.
LEMMA ForetoldKept ==
    ASSUME EvidenceTypeOK, Foretold, dir'.files = dir.files, "bundle" \in intact' => "bundle" \in intact,
           \/ dir'.summary \in {dir.summary, Torn}
           \/ \E relative, ok \in BOOLEAN :
                 Readable(dir.summary) /\ dir'.summary = Merged(dir.summary, relative, ok)
    PROVE  Foretold'
<1>1. ProbesIn(dir)' = ProbesIn(dir) /\ \A probes : MadeOf(dir, probes) => MadeOf(dir', probes)
  BY DEF ProbesIn, MadeOf
<1>2. CASE dir'.summary \in {dir.summary, Torn}
  BY <1>1, <1>2 DEF Foretold, Readable
<1>3. ASSUME NEW relative \in BOOLEAN, NEW ok \in BOOLEAN, Readable(dir.summary),
             dir'.summary = Merged(dir.summary, relative, ok)
      PROVE  Foretold'
  <2> DEFINE s == Merged(dir.summary, relative, ok)
  <2>1. dir.summary \in Summary
    BY <1>3 DEF EvidenceTypeOK, File, Readable
  <2>2. /\ s.target = dir.summary.target /\ s.relative = dir.summary.relative
        /\ s.failed \ {"backend_evidence"} = dir.summary.failed \ {"backend_evidence"}
    BY <2>1 DEF Merged, Summary
  <2> HIDE DEF s
  <2> QED  BY <1>1, <1>3, <2>2 DEF Foretold, s
<1> QED  BY <1>2, <1>3

LEMMA ThreeInSequence ==
    ASSUME NEW S, NEW a \in S, NEW b \in S, NEW c \in S
    PROVE  <<a, b, c>> \in Seq(S) /\ Len(<<a, b, c>>) = 3
OBVIOUS

LEMMA ThreeProbes ==
    ASSUME NEW probes \in Seq(Probe), Len(probes) = 3
    PROVE  probes = <<probes[1], probes[2], probes[3]>>
<1>1. \A i \in 1 .. 3 : probes[i] \in Probe
  BY ElementOfSeq
<1> DEFINE three == <<probes[1], probes[2], probes[3]>>
<1>2. three \in Seq(Probe) /\ Len(three) = 3
  BY <1>1, ThreeInSequence
<1>3. \A i \in 1 .. 3 : i = 1 \/ i = 2 \/ i = 3
  OBVIOUS
<1>4. three[1] = probes[1] /\ three[2] = probes[2] /\ three[3] = probes[3]
  OBVIOUS
<1> HIDE DEF three
<1>6. probes = three
  <2>1. \A i \in 1 .. Len(probes) : probes[i] = three[i]
    BY <1>3, <1>4
  <2> QED  BY <1>2, <2>1, SeqEqual
<1> QED  BY <1>6 DEF three

LEMMA BundleStep ==
    EvidenceTypeOK /\ JobOK /\ Bundling /\ Foretold /\ [EvidenceNext]_evidenceVars
        => Bundling' /\ Foretold'
<1> SUFFICES ASSUME EvidenceTypeOK, JobOK, Bundling, Foretold, [EvidenceNext]_evidenceVars
             PROVE  Bundling' /\ Foretold'
  OBVIOUS
<1>0. \A kind : job' = job => (Doing(kind)' <=> Doing(kind))
  BY DEF Doing
<1>d. /\ DOMAIN dir = {"files", "summary", "reports", "entries"}
      /\ dir.files \in [Artefact -> File(Probe)]
  BY DEF EvidenceTypeOK
<1>1. ASSUME NEW options, StartBundle(options) PROVE Bundling' /\ Foretold'
  <2>1. job' = [kind |-> "probing", options |-> options, probes |-> <<>>] /\ Len(<<>>) = 0
    BY <1>1, EmptySeq DEF StartBundle
  <2>2. Bundling'
    BY <1>1, <2>1 DEF StartBundle, Bundling, Doing
  <2> QED  BY <1>1, <2>2, ForetoldKept DEF StartBundle
<1>2. CASE MakeReports
  <2> DEFINE p == [trouble |-> host \cup job.options, setup |-> setup, stored |-> setup \in smoked]
             made == Append(job.probes, p)
  <2>1. /\ job \in [kind : {"probing"}, options : SUBSET Options, probes : Seq(Probe)]
        /\ Doing("probing")
    BY <1>2 DEF MakeReports, JobOK, Job, Doing
  <2>2. p \in Probe
    BY <2>1 DEF Probe, Trouble, EvidenceTypeOK
  <2>3. /\ made \in Seq(Probe) /\ Len(made) = Len(job.probes) + 1 /\ Len(job.probes) \in Nat
        /\ \A i \in 1 .. Len(job.probes) : made[i] = job.probes[i]
        /\ made[Len(job.probes) + 1] = p
    BY <2>1, <2>2, AppendProperties
  <2>4. p.trouble \cap Options = job.options
    BY <2>1 DEF Bundling
  <2>5. \/ job' = Idle
        \/ Len(made) < 3 /\ job' = [job EXCEPT !.probes = made]
        \/ Len(made) = 3 /\ job' = [kind |-> "writing", probes |-> made, next |-> 1]
    BY <1>2 DEF MakeReports
  <2> HIDE DEF p, made
  <2>6. \A i \in 1 .. Len(made) : made[i].trouble \cap Options = job.options
    <3> SUFFICES ASSUME NEW i \in 1 .. Len(made) PROVE made[i].trouble \cap Options = job.options
      OBVIOUS
    <3>1. CASE i = Len(job.probes) + 1
      BY <2>3, <2>4, <3>1
    <3>2. CASE i # Len(job.probes) + 1
      BY <2>1, <2>3, <3>2 DEF Bundling
    <3> QED  BY <3>1, <3>2
  <2>7. host' = host /\ dir' = dir /\ intact' = intact
    BY <1>2 DEF MakeReports
  <2>8. Bundling'
    <3>1. CASE job' = Idle
      BY <2>7, <3>1 DEF Bundling, Doing
    <3>2. CASE Len(made) < 3 /\ job' = [job EXCEPT !.probes = made]
      <4>1. job'.kind = "probing" /\ job'.probes = made /\ job'.options = job.options
        BY <2>1, <3>2
      <4> QED  BY <2>3, <2>6, <2>7, <3>2, <4>1 DEF Bundling, Doing
    <3>3. CASE Len(made) = 3 /\ job' = [kind |-> "writing", probes |-> made, next |-> 1]
      <4>1. job'.kind = "writing" /\ job'.probes = made /\ job'.next = 1
        BY <3>3
      <4>2. Alike(made)
        BY <2>3, <2>6, <3>3 DEF Alike
      <4> QED  BY <2>7, <4>1, <4>2 DEF Bundling, Doing
    <3> QED  BY <2>5, <3>1, <3>2, <3>3
  <2> QED  BY <2>7, <2>8, ForetoldKept
<1>3. CASE WriteReport
  <2> DEFINE a == Artefacts[job.next]
  <2>1. /\ job \in [kind : {"writing"}, probes : Seq(Probe), next : 1 .. Len(Artefacts) + 1]
        /\ job.next \in 1 .. 10 /\ Doing("writing")
    BY <1>3, Places DEF WriteReport, JobOK, Job, Doing
  <2>2. job'.kind = "writing" /\ job'.probes = job.probes /\ job'.next = job.next + 1
    BY <1>3, <2>1 DEF WriteReport
  <2>3. Alike(job.probes) /\ "bundle" \notin intact'
    BY <1>3, <2>1 DEF WriteReport, Bundling
  <2>4. ASSUME Target(job.probes[1]), NEW k \in 1 .. job.next
        PROVE  dir'.files[Artefacts[k]] = ProbeOf(Artefacts[k], job.probes)
    <3>1. dir' = [dir EXCEPT !.files[a] = ProbeOf(a, job.probes)] /\ a \in Artefact
      BY <1>3, <2>1, <2>4, Places DEF WriteReport, Read
    <3>2. CASE k = job.next
      BY <1>d, <3>1, <3>2
    <3>3. CASE k # job.next
      <4>1. Artefacts[k] # a /\ Artefacts[k] \in Artefact /\ k \in 1 .. job.next - 1
        BY <2>1, <3>3, Places
      <4>2. dir.files[Artefacts[k]] = ProbeOf(Artefacts[k], job.probes)
        BY <2>1, <2>4, <4>1 DEF Bundling
      <4> QED  BY <1>d, <3>1, <4>1, <4>2
    <3> QED  BY <3>2, <3>3
  <2>5. host' = host
    BY <1>3 DEF WriteReport
  <2> QED  BY <2>1, <2>2, <2>3, <2>4, <2>5 DEF Bundling, Foretold, Doing
<1>4. CASE WriteSummary
  <2> DEFINE probes == job.probes
             s == BundleSummary(probes)
  <2>1. /\ job \in [kind : {"writing"}, probes : Seq(Probe), next : 1 .. Len(Artefacts) + 1]
        /\ job.next = 11 /\ Doing("writing") /\ job' = Idle
        /\ dir'.files = dir.files /\ dir'.summary = s /\ host' = host
    BY <1>4, <1>d, Places DEF WriteSummary, JobOK, Job, Doing
  <2>2. Alike(probes)
    BY <2>1 DEF Bundling
  <2>3. ASSUME dir'.summary.target PROVE Foretold'
    <3>1. Target(probes[1])
      BY <2>1, <2>3 DEF BundleSummary
    <3>2. \A a \in Artefact : dir'.files[a] = ProbeOf(a, probes)
      BY <2>1, <3>1, Places DEF Bundling
    <3>3. MadeOf(dir', probes)
      BY <1>d, <2>1, <2>2, <3>2 DEF MadeOf
    <3>4. ProbesIn(dir') = probes
      <4>1. /\ dir'.files["environment"] = probes[1] /\ dir'.files["widget_smoke"] = probes[2]
            /\ dir'.files["hook_event_smoke"] = probes[3]
        BY <3>2, ArtefactNames DEF ProbeOf
      <4> QED  BY <2>2, <4>1, ThreeProbes DEF ProbesIn, Alike
    <3>5. s.failed \ {"backend_evidence"} = Failed(probes)
      BY BundleIsUnmarked DEF BundleSummary
    <3>6. s.relative = ~Free(probes[1], {"relative"})
      BY DEF BundleSummary
    <3> HIDE DEF s, probes
    <3> QED  BY <2>1, <3>1, <3>3, <3>4, <3>5, <3>6 DEF Foretold
  <2> QED  BY <2>1, <2>3 DEF Bundling, Foretold, Doing
<1>5. ASSUME NEW where, NEW relative, StartCollection(where, relative) PROVE Bundling' /\ Foretold'
  BY <1>5, ForetoldKept DEF StartCollection, Bundling, Doing
<1>6. ASSUME NEW outcome, NEW screens, Verify(outcome, screens) PROVE Bundling' /\ Foretold'
  <2>1. job \in [kind : {"collecting"}, pane : Panes, relative : BOOLEAN, entries : Seq(Entry)]
    BY <1>6 DEF Verify, JobOK, Job
  <2>2. job'.kind = "collecting"
    BY <1>6, <2>1 DEF Verify
  <2>3. dir'.files = dir.files /\ dir'.summary = dir.summary /\ intact' = intact \ {"collection"}
    BY <1>6, <1>d DEF Verify
  <2>4. host' = host
    BY <1>6 DEF Verify
  <2> QED  BY <2>2, <2>3, <2>4, ForetoldKept DEF Bundling, Doing
<1>7. CASE WriteEntries
  <2>1. job'.kind = "merging" /\ intact' = intact /\ host' = host
    BY <1>7 DEF WriteEntries
  <2>2. dir'.files = dir.files /\ dir'.summary = dir.summary
    BY <1>7, <1>d DEF WriteEntries
  <2> QED  BY <2>1, <2>2, ForetoldKept DEF Bundling, Doing
<1>8. CASE Merge
  <2>1. /\ job' = Idle /\ intact' = intact \cup {"collection"} /\ host' = host
        /\ job.relative \in BOOLEAN /\ job.ok \in BOOLEAN
    BY <1>8 DEF Merge, JobOK, Job
  <2>2. dir'.files = dir.files
    BY <1>8, <1>d DEF Merge
  <2>3. \/ dir'.summary = dir.summary
        \/ Readable(dir.summary) /\ dir'.summary = Merged(dir.summary, job.relative, job.ok)
    BY <1>8, <1>d DEF Merge
  <2> QED  BY <2>1, <2>2, <2>3, ForetoldKept DEF Bundling, Doing
<1>9. CASE Interrupt
  <2>1. Bundling'
    BY <1>9 DEF Interrupt, Bundling, Doing
  <2>2. CASE job.kind = "writing"
    <3>1. "bundle" \notin intact'
      BY <1>9, <2>2 DEF Interrupt
    <3> QED  BY <2>1, <3>1 DEF Foretold
  <2>3. CASE job.kind # "writing"
    <3>1. HalfWritten.files = dir.files /\ HalfWritten.summary \in {dir.summary, Torn}
      BY <1>d, <2>3 DEF HalfWritten
    <3>2. dir'.files = dir.files /\ dir'.summary \in {dir.summary, Torn}
      BY <1>9, <3>1 DEF Interrupt
    <3>3. intact' \subseteq intact
      BY <1>9 DEF Interrupt
    <3> QED  BY <2>1, <3>2, <3>3, ForetoldKept
  <2> QED  BY <2>2, <2>3
<1>10. CASE SetUp
  BY <1>0, <1>10, ForetoldKept DEF SetUp, Bundling
<1>11. ASSUME NEW troubles \in Few(Trouble \ Options), HostChanges(troubles)
       PROVE  Bundling' /\ Foretold'
  <2>1. host' \cap Options = {} /\ IsFiniteSet(host')
    BY <1>11, FewAreFinite DEF HostChanges
  <2> QED  BY <1>0, <1>11, <2>1, ForetoldKept DEF HostChanges, Bundling
<1>12. CASE UNCHANGED evidenceVars
  BY <1>0, <1>12, ForetoldKept DEF evidenceVars, Bundling
<1> QED
  BY <1>1, <1>2, <1>3, <1>4, <1>5, <1>6, <1>7, <1>8, <1>9, <1>10, <1>11, <1>12 DEF EvidenceNext

\* What touches neither the backends' reports nor their entries.
LEMMA CollectedKept ==
    ASSUME Collected, dir'.reports = dir.reports, dir'.entries = dir.entries,
           "collection" \in intact' => "collection" \in intact, last' \in {last, "bundled"}
    PROVE  Collected'
BY DEF Collected, Records

LEMMA CollectStep ==
    EvidenceTypeOK /\ JobOK /\ Collecting /\ Collected /\ [EvidenceNext]_evidenceVars
        => Collecting' /\ Collected'
<1> SUFFICES ASSUME EvidenceTypeOK, JobOK, Collecting, Collected, [EvidenceNext]_evidenceVars
             PROVE  Collecting' /\ Collected'
  OBVIOUS
<1>d. /\ DOMAIN dir = {"files", "summary", "reports", "entries"}
      /\ dir.reports \in [DOMAIN Pairs -> File(Backend)]
  BY DEF EvidenceTypeOK
<1>1. ASSUME NEW options, StartBundle(options) PROVE Collecting' /\ Collected'
  BY <1>1, CollectedKept DEF StartBundle, Collecting, Doing
<1>2. CASE MakeReports
  <2>1. job \in [kind : {"probing"}, options : SUBSET Options, probes : Seq(Probe)]
    BY <1>2 DEF MakeReports, JobOK, Job
  <2>2. job' = Idle \/ job'.kind \in {"probing", "writing"}
    BY <1>2, <2>1 DEF MakeReports
  <2> QED  BY <1>2, <2>2, CollectedKept DEF MakeReports, Collecting, Doing
<1>3. CASE WriteReport
  <2>1. job \in [kind : {"writing"}, probes : Seq(Probe), next : 1 .. Len(Artefacts) + 1]
    BY <1>3 DEF WriteReport, JobOK, Job
  <2>2. job'.kind = "writing"
    BY <1>3, <2>1 DEF WriteReport
  <2>3. dir'.reports = dir.reports /\ dir'.entries = dir.entries /\ last' = last /\ intact' \subseteq intact
    BY <1>3, <1>d DEF WriteReport
  <2> QED  BY <2>2, <2>3, CollectedKept DEF Collecting, Doing
<1>4. CASE WriteSummary
  <2>1. dir'.reports = dir.reports /\ dir'.entries = dir.entries /\ intact' = intact \cup {"bundle"}
    BY <1>4, <1>d DEF WriteSummary
  <2> QED  BY <1>4, <2>1, CollectedKept DEF WriteSummary, Collecting, Doing
<1>5. ASSUME NEW where, NEW relative, StartCollection(where, relative)
      PROVE  Collecting' /\ Collected'
  <2>1. job'.kind = "collecting" /\ job'.entries = <<>> /\ Len(<<>>) = 0
    BY <1>5, EmptySeq DEF StartCollection
  <2> QED  BY <1>5, <2>1, PairsType, CollectedKept DEF StartCollection, Collecting, Doing
<1>6. ASSUME NEW outcome \in Outcome, NEW screens \in DOMAIN Pairs, Verify(outcome, screens)
      PROVE  Collecting' /\ Collected'
  <2> DEFINE r == [outcome |-> outcome, pane |-> job.pane, screens |-> screens]
             entry == [ok |-> BackendReportErrors(r) = {}, pane |-> job.pane, relative |-> job.relative]
             n == Len(job.entries)
             made == Append(job.entries, entry)
  <2>1. /\ job \in [kind : {"collecting"}, pane : Panes, relative : BOOLEAN, entries : Seq(Entry)]
        /\ n < Len(Pairs) /\ Doing("collecting")
    BY <1>6 DEF Verify, JobOK, Job, Doing
  <2>2. Records(entry, r) /\ entry \in Entry /\ entry.relative = job.relative
    BY <1>6, <2>1, BackendAssumption DEF Records, Entry, Readable, Backend
  <2>3. /\ dir' = [dir EXCEPT !.reports[n + 1] = r] /\ job' = [job EXCEPT !.entries = made]
        /\ "collection" \notin intact'
    BY <1>6 DEF Verify
  <2> HIDE DEF r, entry
  <2>4. /\ Len(made) = n + 1 /\ n \in Nat /\ made[n + 1] = entry
        /\ \A i \in 1 .. n : made[i] = job.entries[i]
    BY <2>1, <2>2, AppendProperties
  <2> HIDE DEF n, made
  <2>5. /\ n + 1 \in DOMAIN Pairs /\ job'.entries = made /\ job'.kind = "collecting"
        /\ job'.relative = job.relative
    BY <2>1, <2>3, <2>4, PairsType
  <2>6. dir'.reports[n + 1] = r /\ \A i \in 1 .. n : dir'.reports[i] = dir.reports[i]
    BY <1>d, <2>3, <2>4, <2>5, PairsType
  <2>7. \A i \in 1 .. n + 1 : Records(made[i], dir'.reports[i]) /\ made[i].relative = job.relative
    <3>1. \A i \in 1 .. n : Records(made[i], dir'.reports[i]) /\ made[i].relative = job.relative
      BY <2>1, <2>4, <2>6 DEF Collecting, n
    <3>2. \A i \in 1 .. n + 1 : i = n + 1 \/ i \in 1 .. n
      BY <2>4
    <3> QED  BY <2>2, <2>4, <2>6, <3>1, <3>2
  <2>8. n + 1 <= Len(Pairs)
    BY <2>1, <2>4, PairsType DEF n
  <2> QED  BY <2>3, <2>4, <2>5, <2>7, <2>8 DEF Collecting, Collected, Doing
<1>7. CASE WriteEntries
  <2>1. /\ job \in [kind : {"collecting"}, pane : Panes, relative : BOOLEAN, entries : Seq(Entry)]
        /\ Len(job.entries) = Len(Pairs) /\ Doing("collecting")
    BY <1>7 DEF WriteEntries, JobOK, Job, Doing
  <2>2. job.entries \in [DOMAIN Pairs -> Entry] /\ job.entries # <<>>
    BY <2>1, PairsType, EmptySeq
  <2>3. /\ dir'.entries = job.entries /\ dir'.reports = dir.reports /\ intact' = intact
        /\ job' = [kind |-> "merging", relative |-> job.relative,
                    ok |-> \A i \in DOMAIN Pairs : job.entries[i].ok]
    BY <1>7, <1>d DEF WriteEntries
  <2>4. /\ "collection" \notin intact
        /\ \A i \in DOMAIN Pairs : /\ Records(job.entries[i], dir.reports[i])
                                    /\ job.entries[i].relative = job.relative
    BY <2>1, <2>2, PairsType DEF Collecting
  <2>5. job'.kind = "merging" /\ job'.relative = job.relative /\ (job'.ok <=> \A i \in DOMAIN Pairs : job.entries[i].ok)
    BY <2>3
  <2>6. Collected'
    BY <2>3, <2>4 DEF Collected
  <2> QED  BY <2>2, <2>3, <2>4, <2>5, <2>6 DEF Collecting, Doing
<1>8. CASE Merge
  <2>1. /\ Doing("merging") /\ job' = Idle /\ last' = IF job.ok THEN "collected" ELSE "failed"
    BY <1>8 DEF Merge, Doing
  <2>2. dir'.reports = dir.reports /\ dir'.entries = dir.entries
    BY <1>8, <1>d DEF Merge
  <2>3. Collected'
    BY <2>1, <2>2 DEF Collecting, Collected
  <2> QED  BY <2>1, <2>3 DEF Collecting, Doing
<1>9. CASE Interrupt
  <2>1. job' = Idle /\ last' = last /\ intact' \subseteq intact
    BY <1>9 DEF Interrupt
  <2>2. CASE job.kind \in {"probing", "writing"}
    <3>1. HalfWritten.reports = dir.reports /\ HalfWritten.entries = dir.entries
      BY <1>d, <2>2 DEF HalfWritten
    <3>2. dir'.reports = dir.reports /\ dir'.entries = dir.entries
      BY <1>9, <3>1 DEF Interrupt
    <3> QED  BY <2>1, <3>2, CollectedKept DEF Collecting, Doing
  <2>3. CASE job.kind \notin {"probing", "writing"}
    <3>1. "collection" \notin intact'
      BY <1>9, <2>3 DEF Interrupt
    <3> QED  BY <2>1, <3>1 DEF Collecting, Collected, Doing
  <2> QED  BY <2>2, <2>3
<1>10. CASE SetUp
  BY <1>10 DEF SetUp, Collecting, Collected, Doing
<1>11. ASSUME NEW troubles, HostChanges(troubles) PROVE Collecting' /\ Collected'
  BY <1>11 DEF HostChanges, Collecting, Collected, Doing
<1>12. CASE UNCHANGED evidenceVars
  BY <1>12 DEF evidenceVars, Collecting, Collected, Doing
<1> QED
  BY <1>1, <1>2, <1>3, <1>4, <1>5, <1>6, <1>7, <1>8, <1>9, <1>10, <1>11, <1>12 DEF EvidenceNext

\* The paths of the backends: a bundle writes its own, a collection its own into
\* the entries and the summary.
LEMMA PathsStep ==
    EvidenceInv /\ [EvidenceNext]_evidenceVars => PathsTold'
<1> SUFFICES ASSUME EvidenceInv, [EvidenceNext]_evidenceVars PROVE PathsTold'
  OBVIOUS
<1>d. DOMAIN dir = {"files", "summary", "reports", "entries"}
  BY DEF EvidenceInv, EvidenceTypeOK
<1>k. ASSUME intact' \subseteq intact, dir'.summary = dir.summary, dir'.entries = dir.entries
      PROVE  PathsTold'
  BY <1>k DEF EvidenceInv, PathsTold
<1>1. ASSUME NEW options, StartBundle(options) PROVE PathsTold'
  BY <1>1, <1>k DEF StartBundle
<1>2. CASE MakeReports
  BY <1>2, <1>k DEF MakeReports
<1>3. CASE WriteReport
  BY <1>3 DEF WriteReport, PathsTold
<1>4. CASE WriteSummary
  <2>1. dir'.summary = BundleSummary(job.probes)
    BY <1>4, <1>d DEF WriteSummary
  <2> DEFINE relative == ~Free(job.probes[1], {"relative"})
             s == BundleSummary(job.probes)
  <2>2. s.relative = relative /\ (s.target => s.backends = PathsOf(relative))
    BY DEF BundleSummary
  <2>3. relative \in BOOLEAN
    BY DEF Free
  <2> HIDE DEF relative, s
  <2>4. s.target => s.relative \/ s.backends = "absolute"
    BY <2>2, <2>3 DEF PathsOf
  <2>5. dir'.summary = s
    BY <2>1 DEF s
  <2> QED  BY <2>4, <2>5 DEF PathsTold
<1>5. ASSUME NEW where, NEW relative, StartCollection(where, relative) PROVE PathsTold'
  BY <1>5, <1>k DEF StartCollection
<1>6. ASSUME NEW outcome, NEW screens, Verify(outcome, screens) PROVE PathsTold'
  BY <1>6 DEF Verify, PathsTold
<1>7. CASE WriteEntries
  <2>1. "collection" \notin intact
    <3>1. job.entries # <<>>
      BY <1>7, PairsType, EmptySeq DEF WriteEntries
    <3> QED  BY <1>7, <3>1 DEF WriteEntries, EvidenceInv, Collecting, Doing
  <2> QED  BY <1>7, <2>1 DEF WriteEntries, PathsTold
<1>8. CASE Merge
  <2>1. \A i \in DOMAIN Pairs : dir.entries[i].relative = job.relative
    BY <1>8 DEF Merge, EvidenceInv, Collecting, Doing
  <2>2. 1 \in DOMAIN Pairs
    BY PairsType
  <2>3. dir'.entries = dir.entries
    BY <1>8, <1>d DEF Merge
  <2>4. CASE Readable(dir.summary)
    <3>1. dir.summary \in Summary
      BY <2>4 DEF EvidenceInv, EvidenceTypeOK, File, Readable
    <3>2. dir'.summary = Merged(dir.summary, job.relative, job.ok)
      BY <1>8, <1>d, <2>4 DEF Merge
    <3>3. dir'.summary.backends = PathsOf(job.relative)
      BY <3>1, <3>2 DEF Merged, Summary
    <3> QED  BY <2>1, <2>2, <2>3, <3>3 DEF PathsTold, PathsOf
  <2>5. CASE ~Readable(dir.summary)
    BY <1>8, <2>5 DEF Merge, PathsTold
  <2> QED  BY <2>4, <2>5
<1>9. CASE Interrupt
  <2>1. CASE job.kind = "probing"
    <3>1. dir' = dir
      BY <1>9, <2>1 DEF Interrupt, HalfWritten
    <3> QED  BY <1>9, <3>1, <1>k DEF Interrupt
  <2>2. CASE job.kind # "probing"
    BY <1>9, <2>2 DEF Interrupt, PathsTold
  <2> QED  BY <2>1, <2>2
<1>10. CASE SetUp
  BY <1>10, <1>k DEF SetUp
<1>11. ASSUME NEW troubles, HostChanges(troubles) PROVE PathsTold'
  BY <1>11, <1>k DEF HostChanges
<1>12. CASE UNCHANGED evidenceVars
  BY <1>12, <1>k DEF evidenceVars
<1> QED
  BY <1>1, <1>2, <1>3, <1>4, <1>5, <1>6, <1>7, <1>8, <1>9, <1>10, <1>11, <1>12 DEF EvidenceNext

-----------------------------------------------------------------------------
(* The theorems *)

LEMMA EvidenceInvariant == Spec => []EvidenceInv
<1>1. Init => EvidenceInv
  <2> SUFFICES ASSUME EvidenceInit PROVE EvidenceInv
    BY DEF Init
  <2>1. /\ host \subseteq Trouble /\ spent \in 0 .. MaxTroubles
    <3>1. host \subseteq Trouble \ Options /\ Cardinality(host) \in Nat
      BY FewAreFinite DEF EvidenceInit
    <3> QED  BY <3>1, CommandsAssumption DEF EvidenceInit
  <2>2. dir \in [files : [Artefact -> File(Probe)], summary : File(Summary),
                 reports : [DOMAIN Pairs -> File(Backend)], entries : File([DOMAIN Pairs -> Entry])]
    BY DEF EvidenceInit, NewDirectory, File
  <2>3. EvidenceTypeOK /\ JobOK
    BY <2>1, <2>2, CommandsAssumption DEF EvidenceInit, EvidenceTypeOK, JobOK, Setups
  <2>4. host \cap Options = {} /\ IsFiniteSet(host)
    BY FewAreFinite DEF EvidenceInit
  <2> QED  BY <2>3, <2>4
           DEF EvidenceInv, EvidenceInit, Bundling, Foretold, Collecting, Collected, PathsTold, Doing
<1>2. EvidenceInv /\ [EvidenceNext]_evidenceVars => EvidenceInv'
  BY EvidenceTypeStep, BundleStep, CollectStep, PathsStep DEF EvidenceInv
<1>3. [Next]_vars => [EvidenceNext]_evidenceVars
  BY DEF Next, vars
<1> QED  BY <1>1, <1>2, <1>3, PTL DEF Spec, vars

\* The files of the evidence commands hold what they should, and no command is
\* at a step it has not got, whatever is interrupted.
THEOREM EvidenceTypeCorrect == Spec => []EvidenceTypeOK
<1>1. EvidenceInv => EvidenceTypeOK
  BY DEF EvidenceInv
<1> QED  BY <1>1, EvidenceInvariant, PTL

\* target-evidence-check passes a report if and only if it tells of no trouble
\* it has to tell of, for any number of troubles at a time.
THEOREM CheckReadsReports == Spec => []CheckIsExact
<1>1. ASSUME EvidenceInv PROVE CheckIsExact
  <2> SUFFICES ASSUME NEW a \in Artefact
               PROVE  LET p == dir.files[a]
                          environment == dir.files["environment"]
                          told == IF Waived(a, p) THEN {} ELSE Telling[a] \cap p.trouble
                      IN  ErrorsOf(dir, a) = {} <=>
                             /\ Readable(p) /\ "current" \notin p.trouble /\ told = {}
                             /\ (a = "hook_event_smoke" /\ "unstored" \in p.trouble) => p.stored
                             /\ (a \in {"widget_smoke", "hook_event_smoke"} /\ Readable(environment)) =>
                                   environment.setup = p.setup
    BY DEF CheckIsExact
  <2>1. dir.files \in [Artefact -> File(Probe)]
    BY <1>1 DEF EvidenceInv, EvidenceTypeOK
  <2>2. ErrorsOf(dir, a) = {} <=> Passes(dir, a)
    BY <2>1, CheckTells
  <2>3. \A p : Free(p, ToTell(a, p)) <=>
           /\ "current" \notin p.trouble
           /\ (IF Waived(a, p) THEN {} ELSE Telling[a] \cap p.trouble) = {}
    BY DEF Free, ToTell
  <2> QED  BY <2>2, <2>3 DEF Passes
<1> QED  BY <1>1, EvidenceInvariant, PTL

\* All reports of a bundle that is whole come from one set-up.
LEMMA OneSetup ==
    ASSUME NEW probes, MadeOf(dir, probes), Cardinality({dir.files[a].setup : a \in Artefact}) = 1
    PROVE  \A a, b \in Artefact : dir.files[a].setup = dir.files[b].setup
<1> DEFINE setups == {dir.files[a].setup : a \in Artefact}
<1>1. setups \subseteq {1, 2}
  BY ProbesOfOne DEF MadeOf, Probe, Setups
<1>2. IsFiniteSet({1, 2})
  <2>1. IsFiniteSet({1})
    BY FS_Singleton
  <2> QED  BY <2>1, FS_AddElement, {1} \cup {2} = {1, 2}
<1>3. IsFiniteSet(setups)
  BY <1>1, <1>2, FS_Subset
<1>4. PICK x : setups = {x}
  <2> HIDE DEF setups
  <2> SUFFICES Cardinality(setups) = 1
    BY <1>3, FS_Singleton
  <2> QED  BY DEF setups
<1> QED  BY <1>4

\* The summary that evidence-bundle writes foretells what the check says of its
\* reports, for any number of troubles that come and go while it is made:
\* nothing, when nothing failed and no trouble was there that a bundle passes
\* over; something, when something failed.
THEOREM BundlesForetellTheCheck == Spec => []BundleForetells
<1>1. ASSUME EvidenceInv PROVE BundleForetells
  <2> DEFINE probes == ProbesIn(dir)
             ok == dir.summary.failed \ {"backend_evidence"} = {}
  <2> SUFFICES ASSUME OneBundle
               PROVE  /\ ok /\ Watched => \A a \in Artefact : ErrorsOf(dir, a) = {}
                      /\ ~ok => \E a \in Artefact : ErrorsOf(dir, a) # {}
    BY DEF BundleForetells
  <2>1. /\ MadeOf(dir, probes) /\ Target(probes[1])
        /\ dir.summary.failed \ {"backend_evidence"} = Failed(probes)
    BY <1>1 DEF EvidenceInv, Foretold, OneBundle
  <2>2. ok <=> Failed(probes) = {}
    BY <2>1
  <2> HIDE DEF probes, ok
  <2>3. \A a, b \in Artefact : dir.files[a].setup = dir.files[b].setup
    BY <2>1, OneSetup DEF OneBundle
  <2>4. ASSUME ok, Watched PROVE \A a \in Artefact : ErrorsOf(dir, a) = {}
    <3>1. \A a \in Artefact : Free(dir.files[a], BundleMisses)
      BY <2>4 DEF Watched, Free
    <3> QED  BY <2>1, <2>2, <2>3, <2>4, <3>1, NoFailureNoError DEF Watched
  <2>5. ASSUME ~ok PROVE \E a \in Artefact : ErrorsOf(dir, a) # {}
    BY <2>1, <2>2, <2>5, FailuresAreErrors
  <2> QED  BY <2>4, <2>5
<1> QED  BY <1>1, EvidenceInvariant, PTL

\* What a directory holds after a bundle and a collection without a trouble
\* passes target-evidence-check but for the entries' missing identity; the check
\* accepts no directory, and raises only where a collection broke off.
THEOREM UntroubledEvidencePasses == Spec => []UntroubledPasses
<1>1. ASSUME EvidenceInv, MarkedByLast PROVE UntroubledPasses
  <2>1. ~Accepts(dir)
    BY DEF Accepts, EntriesErrors
  <2>2. "collection" \in intact => Readable(dir.entries)
    BY <1>1, BackendAssumption DEF EvidenceInv, Collected, Readable
  <2>3. CheckRaises(dir) => "collection" \notin intact
    BY <2>2 DEF CheckRaises
  <2>4. ASSUME OneBundle, "collection" \in intact, \A a \in Artefact : dir.files[a].trouble = {},
               \A i \in DOMAIN Pairs : /\ dir.reports[i].outcome = "ok" /\ dir.reports[i].screens = i
                                       /\ ~dir.entries[i].relative
        PROVE  /\ \A a \in Artefact : ErrorsOf(dir, a) = {}
               /\ SummaryErrors(dir) = {} /\ EntriesErrors(dir) = {"identity"}
               /\ \A i \in DOMAIN Pairs : BackendErrors(dir, i) = {}
    <3> DEFINE probes == ProbesIn(dir)
    <3>1. /\ MadeOf(dir, probes) /\ Target(probes[1])
          /\ dir.summary.failed \ {"backend_evidence"} = Failed(probes)
          /\ dir.summary.relative = ~Free(probes[1], {"relative"})
          /\ Readable(dir.summary) /\ dir.summary.target
      BY <1>1, <2>4 DEF EvidenceInv, Foretold, OneBundle
    <3>2. probes[1] = dir.files["environment"]
      BY DEF ProbesIn
    <3> HIDE DEF probes
    <3>3. \A a, b \in Artefact : dir.files[a].setup = dir.files[b].setup
      BY <2>4, <3>1, OneSetup DEF OneBundle
    <3>4. \A a \in Artefact : Readable(dir.files[a]) /\ dir.files[a].trouble = {}
      BY <2>4, <3>1, ProbesOfOne, ProbeAssumption DEF MadeOf, Readable
    <3>5. \A a \in Artefact : ErrorsOf(dir, a) = {}
      <4>1. \A a \in Artefact : Passes(dir, a)
        BY <3>3, <3>4, ArtefactNames DEF Passes, Free
      <4> QED  BY <3>1, <4>1, CheckTells DEF MadeOf
    <3>6. \A i \in DOMAIN Pairs : /\ Records(dir.entries[i], dir.reports[i])
                                  /\ BackendReportErrors(dir.reports[i]) = {}
      BY <1>1, <2>4 DEF EvidenceInv, Collected, BackendReportErrors, Records
    <3>7. \A i \in DOMAIN Pairs : dir.entries[i].ok /\ dir.entries[i].pane = dir.reports[i].pane
      <4>1. ASSUME NEW entry, NEW r, Records(entry, r), BackendReportErrors(r) = {}
            PROVE  entry.pane = r.pane /\ entry.ok
        <5>1. entry = [ok |-> TRUE, pane |-> r.pane, relative |-> entry.relative]
          BY <4>1, Zenon DEF Records
        <5> QED  BY <5>1
      <4> QED  BY <3>6, <4>1
    <3>8. SummaryErrors(dir) = {}
      <4>1. Failed(probes) = {}
        BY <3>1, <3>5, FailuresAreErrors
      <4>2. last # "failed"
        BY <1>1, <2>4, <3>7 DEF EvidenceInv, Collected
      <4>3. dir.summary.failed = {}
        BY <1>1, <3>1, <4>1, <4>2 DEF MarkedByLast
      <4>4. ~dir.summary.relative
        BY <2>4, <3>1, <3>2, ArtefactNames DEF Free
      <4>5. dir.summary.backends = "absolute"
        BY <1>1, <2>4, <3>1, <4>4 DEF EvidenceInv, PathsTold, OneBundle
      <4> QED  BY <3>1, <4>3, <4>4, <4>5 DEF SummaryErrors
    <3>9. EntriesErrors(dir) = {"identity"}
      BY <2>2, <2>4, <3>7 DEF EntriesErrors
    <3>10. ASSUME NEW i \in DOMAIN Pairs PROVE BackendErrors(dir, i) = {}
      <4>1. \A j \in 1 .. i - 1 : j \in DOMAIN Pairs /\ j # i
        BY PairsType
      <4>2. \A j \in 1 .. i - 1 : dir.reports[j].screens # dir.reports[i].screens
        BY <2>4, <4>1
      <4> QED  BY <3>6, <3>7, <4>2 DEF BackendErrors
    <3> QED  BY <3>5, <3>8, <3>9, <3>10
  <2> QED  BY <2>1, <2>3, <2>4 DEF UntroubledPasses
<1> QED  BY <1>1, EvidenceInvariant, MarkIsOfTheLastCommand, PTL

===============================================================================
