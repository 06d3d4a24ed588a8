------------------------------ MODULE PetLibrary ------------------------------
(***************************************************************************)
(* The admin commands for pets: download-petdex stages archives beside     *)
(* sidecars that describe them, import-pet and import-pet-batch install    *)
(* staged archives in the library, set-pet selects one in the services'    *)
(* settings, build-pet-qa reports on one.  Commands run one at a time, fail *)
(* and are interrupted anywhere.                                           *)
(***************************************************************************)
EXTENDS Files, SequencesExt

CONSTANTS
    Pets,         \* theme ids
    Builtin,      \* a bundled theme
    Slugs,        \* names of archives on Petdex
    Packages,     \* what archives hold
    MaxTools,     \* bound: commands run
    MaxMishaps    \* bound: failures and interruptions

ASSUME PackagesAssumption == \A x \in Packages : x.pet \in Pets /\ x.sound \in BOOLEAN
ASSUME LibraryAssumption ==
    /\ {Absent, Torn} \cap Packages = {} /\ IsFiniteSet(Slugs)
    /\ Pets \cap (Slugs \cup {Absent, Builtin, "qa", "settings"}) = {}
    /\ MaxTools \in Nat /\ MaxMishaps \in Nat

Staged   == [zip : File(Packages), sidecar : File(Packages)]

\* service.env: the selected theme, whether the pets' root is set, whether all
\* other lines are there.  History: the theme was selected by a path.
Settings == [theme : Pets \cup {Builtin, Absent}, root : BOOLEAN, other : BOOLEAN,
             path : BOOLEAN]
QaReport == [of : Packages, ok : BOOLEAN]

\* What each command carries from one step to the next.
Download  == [kind : {"download", "sidecar"}, slug : Slugs, package : Packages]
Import    == [kind : {"clear", "copy"}, left : Seq(Slugs \cup Pets), replace : BOOLEAN]
Selection == [kind : {"select"}, lines : Settings]
Reporting == [kind : {"validate"}, package : Packages]
             \cup [kind : {"render", "summarize"}, package : Packages, ok : BOOLEAN]

Tool == Download \cup Import \cup Selection \cup Reporting

ASSUME TypesAssumption == Idle \notin Tool /\ {Absent, Torn} \cap QaReport = {}

VARIABLES
    staged,   \* the staging directory: archives and the packages sidecars describe
    library,  \* the installed package of each pet; Torn: copied or removed in part
    settings, \* service.env
    qa,       \* the directory of build-pet-qa
    tool,     \* the command running
    tools, mishaps, \* how many so far
    fetched,  \* history: archives that a download said it fetched
    report,   \* history: what the last import says, and what it found
    hurt      \* history: what a mishap hit and nobody wrote whole since

shelf == <<staged, library, settings, qa>>
libraryVars == <<shelf, tool, tools, mishaps, fetched, report, hurt>>

Starts == tool = Idle /\ tools < MaxTools /\ tools' = tools + 1
Running(kind) == tool # Idle /\ tool.kind = kind
Mishap == mishaps < MaxMishaps /\ mishaps' = mishaps + 1

-----------------------------------------------------------------------------
(* download-petdex *)

\* Petdex serves package x for slug s.  An archive that is there is only
\* fetched again with --replace.
StartDownload(s, x, replace) ==
    /\ Starts /\ (staged[s].zip = Absent \/ replace)
    /\ tool' = [kind |-> "download", slug |-> s, package |-> x]
    /\ UNCHANGED <<shelf, mishaps, fetched, report, hurt>>

\* The archive takes its place in one step.  One that does not validate ends
\* the command; it stays, beside the sidecar of the one before.
ReplaceZip ==
    /\ Running("download")
    /\ staged' = [staged EXCEPT ![tool.slug].zip = tool.package]
    /\ tool' = IF tool.package.sound THEN [tool EXCEPT !.kind = "sidecar"] ELSE Idle
    /\ UNCHANGED <<library, settings, qa, tools, mishaps, fetched, report, hurt>>

WriteSidecar ==
    /\ Running("sidecar")
    /\ staged' = [staged EXCEPT ![tool.slug].sidecar = staged[tool.slug].zip]
    /\ fetched' = fetched \cup {<<tool.slug, staged[tool.slug].zip>>}
    /\ tool' = Idle
    /\ UNCHANGED <<library, settings, qa, tools, mishaps, report, hurt>>

-----------------------------------------------------------------------------
(* import-pet-batch and import-pet *)

\* Mutant of EntryOk: any sidecar that can be read will do.
EntryOkBesideAny(s) ==
    Readable(staged[s].zip) /\ staged[s].zip.sound /\ staged[s].sidecar # Torn

\* What validate-pet-batch accepts: a package that is sound, with no sidecar or
\* one that describes it.
EntryOk(s) ==
    /\ Readable(staged[s].zip) /\ staged[s].zip.sound
    /\ staged[s].sidecar \in {Absent, staged[s].zip}

Batch == {s \in Slugs : staged[s].zip # Absent}

\* A package to import: staged, or an installed one where it is.
Content(source) == IF source \in Slugs THEN staged[source].zip ELSE library[source]

\* Mutant of Preflight: two archives may hold the same pet.
PreflightEach(batch, replace) ==
    /\ batch # {} /\ \A s \in batch : EntryOk(s)
    /\ replace \/ \A s \in batch : library[staged[s].zip.pet] = Absent

\* All are accepted, no two are the same pet, none is there already.
Preflight(batch, replace) ==
    /\ batch # {} /\ \A s \in batch : EntryOk(s)
    /\ \A s, t \in batch : staged[s].zip.pet = staged[t].zip.pet => s = t
    /\ replace \/ \A s \in batch : library[staged[s].zip.pet] = Absent

Begin(sources, replace, passed) ==
    /\ report' = [of |-> [s \in sources |-> Content(s)], was |-> library, replace |-> replace,
                  done |-> {}, failed |-> {}]
    /\ tool' = IF passed THEN [kind |-> "clear", left |-> SetToSeq(sources), replace |-> replace]
               ELSE Idle
    /\ UNCHANGED <<shelf, mishaps, fetched, hurt>>

StartBatch(replace) == Starts /\ Begin(Batch, replace, Preflight(Batch, replace))

StartImport(source, replace) ==
    /\ Starts /\ Readable(Content(source))
    /\ Begin({source}, replace, Content(source).sound)

Source == Head(tool.left)
Destination == Content(Source).pet

\* The import of one source is over; a batch goes on with the next.
Ends(outcome) ==
    /\ report' = [report EXCEPT ![outcome] = @ \cup {Source}]
    /\ tool' = IF Len(tool.left) = 1 THEN Idle
               ELSE [tool EXCEPT !.kind = "clear", !.left = Tail(@)]

\* Mutant of Clear: what is there is removed before the option is looked at.
ClearFirst ==
    /\ Running("clear")
    /\ \/ Source = Destination /\ Ends("done") /\ UNCHANGED library
       \/ /\ Source # Destination
          /\ library' = [library EXCEPT ![Destination] = Absent]
          /\ IF library[Destination] # Absent /\ ~tool.replace
             THEN Ends("failed") ELSE tool' = [tool EXCEPT !.kind = "copy"] /\ UNCHANGED report
    /\ UNCHANGED <<staged, settings, qa, tools, mishaps, fetched, hurt>>

\* A package that is where it belongs is left there; another is removed with
\* --replace, and without it is the end of this import.
Clear ==
    /\ Running("clear")
    /\ \/ Source = Destination /\ Ends("done") /\ UNCHANGED library
       \/ /\ Source # Destination /\ library[Destination] # Absent /\ ~tool.replace
          /\ Ends("failed") /\ UNCHANGED library
       \/ /\ Source # Destination /\ (library[Destination] = Absent \/ tool.replace)
          /\ library' = [library EXCEPT ![Destination] = Absent]
          /\ tool' = [tool EXCEPT !.kind = "copy"] /\ UNCHANGED report
    /\ UNCHANGED <<staged, settings, qa, tools, mishaps, fetched, hurt>>

\* Copied, with its alias, and validated.
Copy ==
    /\ Running("copy")
    /\ library' = [library EXCEPT ![Destination] = Content(Source)]
    /\ hurt' = hurt \ {Destination}
    /\ Ends("done")
    /\ UNCHANGED <<staged, settings, qa, tools, mishaps, fetched>>

\* Whether it is removed or copied, in part.
Damages ==
    \/ Running("clear") /\ Source # Destination /\ library[Destination] # Absent /\ tool.replace
    \/ Running("copy")

Hit == IF Readable(library'[Destination]) THEN hurt ELSE hurt \cup {Destination}

ImportFails ==
    /\ Mishap /\ Damages
    /\ library' \in {library, [library EXCEPT ![Destination] = Torn]}
    /\ hurt' = Hit
    /\ Ends("failed")
    /\ UNCHANGED <<staged, settings, qa, tools, fetched>>

-----------------------------------------------------------------------------
(* set-pet *)

\* The packages that discovery lists.
Discovered == {p \in Pets : Readable(library[p])}

\* What is to be written: all other lines are kept, and the root of the pets is
\* written with an imported pet.
Select(theme, imported, path) ==
    /\ Starts
    /\ tool' = [kind |-> "select",
                lines |-> [settings EXCEPT !.theme = theme, !.root = @ \/ imported, !.path = path]]
    /\ UNCHANGED <<shelf, mishaps, fetched, report, hurt>>

\* A theme that loads and validates is selected by its name.
StartSelect(theme) == theme \in Discovered \cup {Builtin} /\ Select(theme, theme # Builtin, FALSE)

\* Or by the path of its manifest, which may be anywhere and say any name.
StartSelectPath(theme, imported) == Select(theme, imported, TRUE)

WriteSettings ==
    /\ Running("select") /\ settings' = tool.lines /\ tool' = Idle
    /\ UNCHANGED <<staged, library, qa, tools, mishaps, fetched, report, hurt>>

-----------------------------------------------------------------------------
(* build-pet-qa *)

StartQa(s) ==
    /\ Starts /\ Readable(staged[s].zip)
    /\ tool' = [kind |-> "validate", package |-> staged[s].zip]
    /\ UNCHANGED <<shelf, mishaps, fetched, report, hurt>>

QaFile(ok) == [of |-> tool.package, ok |-> ok]

\* validation.json, and for a sound package the previews.
Validate ==
    /\ Running("validate")
    /\ qa' = [qa EXCEPT !.validation = QaFile(tool.package.sound)]
    /\ tool' = [kind |-> IF tool.package.sound THEN "render" ELSE "summarize",
                package |-> tool.package, ok |-> tool.package.sound]
    /\ UNCHANGED <<staged, library, settings, tools, mishaps, fetched, report, hurt>>

Render ==
    /\ Running("render") /\ tool' = [tool EXCEPT !.kind = "summarize"]
    /\ UNCHANGED <<shelf, tools, mishaps, fetched, report, hurt>>

\* A preview cannot be rendered: the validation stands.  Any other exception
\* makes it a failed one.
RenderFails ==
    /\ Running("render") /\ Mishap
    /\ qa' \in {qa, [qa EXCEPT !.validation = QaFile(FALSE)]}
    /\ tool' = [tool EXCEPT !.kind = "summarize", !.ok = FALSE]
    /\ UNCHANGED <<staged, library, settings, tools, fetched, report, hurt>>

\* run-summary.json.
Summarize ==
    /\ Running("summarize")
    /\ qa' = [qa EXCEPT !.summary = QaFile(tool.ok)]
    /\ hurt' = hurt \ {"qa"} /\ tool' = Idle
    /\ UNCHANGED <<staged, library, settings, tools, mishaps, fetched, report>>

-----------------------------------------------------------------------------
(* The world *)

Blank == [theme |-> Absent, root |-> FALSE, other |-> FALSE, path |-> FALSE]

\* A command is interrupted, between two writes or within one: an archive is
\* written whole or not at all, any other file is emptied first.
BreakOff ==
    /\ tool # Idle /\ Mishap /\ tool' = Idle
    /\ \/ /\ tool.kind \in {"download", "sidecar"}
          /\ staged' \in {staged, [staged EXCEPT ![tool.slug].sidecar =
                                      IF tool.kind = "sidecar" THEN Torn ELSE @]}
          /\ UNCHANGED <<library, settings, qa, report, hurt>>
       \/ /\ tool.kind \in {"clear", "copy"}
          /\ library' = library \/ (Damages /\ library' = [library EXCEPT ![Destination] = Torn])
          /\ report' = [report EXCEPT !.failed = @ \cup {Source}]
          /\ hurt' = Hit
          /\ UNCHANGED <<staged, settings, qa>>
       \/ /\ tool.kind = "select" /\ settings' \in {settings, Blank} /\ hurt' = hurt \cup {"settings"}
          /\ UNCHANGED <<staged, library, qa, report>>
       \/ /\ tool.kind \in {"validate", "render", "summarize"} /\ hurt' = hurt \cup {"qa"}
          /\ qa' \in {qa, IF tool.kind = "summarize" THEN [qa EXCEPT !.summary = Torn]
                          ELSE [qa EXCEPT !.validation = Torn]}
          /\ UNCHANGED <<staged, library, settings, report>>
    /\ UNCHANGED <<tools, fetched>>

LibraryInit ==
    /\ staged = [s \in Slugs |-> [zip |-> Absent, sidecar |-> Absent]]
    /\ library = [p \in Pets |-> Absent]
    /\ settings = [Blank EXCEPT !.other = TRUE]
    /\ qa = [validation |-> Absent, summary |-> Absent]
    /\ tool = Idle /\ tools = 0 /\ mishaps = 0
    /\ fetched = {} /\ hurt = {}
    /\ report = [of |-> <<>>, was |-> library, replace |-> FALSE, done |-> {}, failed |-> {}]

LibraryNext ==
    \/ \E s \in Slugs, x \in Packages, replace \in BOOLEAN : StartDownload(s, x, replace)
    \/ ReplaceZip \/ WriteSidecar
    \/ \E replace \in BOOLEAN : \/ StartBatch(replace)
                                \/ \E source \in Slugs \cup Pets : StartImport(source, replace)
    \/ Clear \/ Copy \/ ImportFails
    \/ \E theme \in Pets \cup {Builtin} :
          StartSelect(theme) \/ \E imported \in BOOLEAN : StartSelectPath(theme, imported)
    \/ WriteSettings
    \/ \E s \in Slugs : StartQa(s)
    \/ Validate \/ Render \/ RenderFails \/ Summarize
    \/ BreakOff

-----------------------------------------------------------------------------
(* Properties *)

\* The types of the variables.
LibraryTypeOK ==
    /\ staged \in [Slugs -> Staged] /\ library \in [Pets -> File(Packages)]
    /\ settings \in Settings /\ qa \in [validation : File(QaReport), summary : File(QaReport)]
    /\ tool \in Tool \cup {Idle}
    /\ tools \in 0 .. MaxTools /\ mishaps \in 0 .. MaxMishaps
    /\ fetched \subseteq Slugs \X Packages /\ hurt \subseteq Pets \cup {"qa", "settings"}

\* What the last import says is true, however many failed or broke off before
\* it: every source it calls imported is in the library as it was, even over
\* the remains of an earlier one; without --replace nothing that was there has
\* changed; and only pets of sources that failed or broke off have changed
\* otherwise.  A QA bundle that did not break off is of one package, and ok
\* only if its validation is.
ReportsAreTrue ==
    /\ tool = Idle => \A p \in Pets :
          LET by == {s \in report.done : report.of[s].pet = p}
              failing == {s \in report.failed : report.of[s].pet = p}
          IN  /\ \A s \in by : library[p] = report.of[s]
              /\ by = {} /\ failing = {} => library[p] = report.was[p]
              /\ ~report.replace /\ report.was[p] # Absent => library[p] = report.was[p]
    /\ (tool = Idle /\ "qa" \notin hurt /\ Readable(qa.summary)) =>
          /\ Readable(qa.validation) /\ qa.summary.of = qa.validation.of
          /\ qa.summary.ok => qa.validation.ok

\* A batch accepts an archive beside a sidecar only if a download fetched that
\* archive for that slug and said so, whatever was fetched over it, rejected
\* or broken off.
SidecarsVouch ==
    \A s \in Slugs : EntryOk(s) /\ staged[s].sidecar # Absent => <<s, staged[s].zip>> \in fetched

\* The selected pet is one that discovery lists and its root is set, unless it
\* was selected by a path, an import is replacing it, or one failed or broke off
\* and none has succeeded since; all other settings are kept unless a selection
\* broke off; and no pet is there in part without such a mishap.
SelectionHolds ==
    /\ \/ settings.theme \in Discovered \cup hurt \cup {Builtin, Absent}
       \/ settings.path
       \/ Running("copy") /\ settings.theme = Destination
    /\ settings.theme \in Pets => settings.root \/ settings.path
    /\ settings.other \/ "settings" \in hurt
    /\ \A p \in Pets : library[p] = Torn => p \in hurt

=============================================================================
