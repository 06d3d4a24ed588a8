--------------------------- MODULE HostFilesProofs ---------------------------
(***************************************************************************)
(* Invariants of HostFiles for every set of pets, slugs and packages and   *)
(* every bound.  A step belongs to one part and leaves the files of the    *)
(* others alone, so each invariant is about one part.                      *)
(***************************************************************************)
EXTENDS EvidenceProofs

-----------------------------------------------------------------------------
(* The commands for pets *)

\* The archive that a download put in its place is there when its sidecar is
\* written, and every sidecar written whole was for an archive fetched.
VouchInv ==
    /\ Running("sidecar") => staged[tool.slug].zip \in Packages
    /\ \A s \in Slugs : Readable(staged[s].sidecar) => <<s, staged[s].sidecar>> \in fetched

\* What is left to import is there; only staged archives are many; a pet that
\* is copied is not a copy of itself.
Importing ==
    (Running("clear") \/ Running("copy")) =>
        /\ tool.left # <<>>
        /\ \A i \in DOMAIN tool.left : Content(tool.left[i]) \in Packages
        /\ Len(tool.left) > 1 => tool.left \in Seq(Slugs)
        /\ Running("copy") => Source # Destination

\* The lines that a selection is about to write can be written still.
Selecting ==
    Running("select") =>
        /\ tool.lines.theme \in Discovered \cup {Builtin} \/ tool.lines.path
        /\ tool.lines.theme \in Pets => tool.lines.root \/ tool.lines.path
        /\ tool.lines.other = settings.other

\* The order of a finite set of sources is a sequence of them, as many.
LEMMA SetToSeqType ==
    ASSUME NEW S, IsFiniteSet(S)
    PROVE  /\ SetToSeq(S) \in Seq(S) /\ Len(SetToSeq(S)) = Cardinality(S)
           /\ Cardinality(S) \in Nat /\ IsInjective(SetToSeq(S))
<1>1. /\ Cardinality(S) \in Nat
      /\ \E f \in [1 .. Cardinality(S) -> S] : IsInjective(f)
  <2>1. Cardinality(S) \in Nat /\ ExistsBijection(1 .. Cardinality(S), S)
    BY FS_CardinalityType
  <2>2. PICK f : f \in Bijection(1 .. Cardinality(S), S)
    BY <2>1 DEF ExistsBijection
  <2>3. f \in [1 .. Cardinality(S) -> S] /\ IsInjective(f)
    BY <2>2 DEF Bijection, Injection, IsInjective
  <2>4. QED
    BY <2>1, <2>3
<1>2. SetToSeq(S) \in [1 .. Cardinality(S) -> S] /\ IsInjective(SetToSeq(S))
  BY <1>1 DEF SetToSeq
<1>3. QED
  BY <1>1, <1>2

\* A selection by name or by path: what is to be written of the theme.
Selects(theme, imported, path) ==
    /\ Select(theme, imported, path)
    /\ path \/ theme \in Discovered \cup {Builtin}
    /\ path \/ imported = (theme # Builtin)

LEMMA SelectionsAre ==
    ASSUME NEW theme \in Pets \cup {Builtin},
           StartSelect(theme) \/ \E imported \in BOOLEAN : StartSelectPath(theme, imported)
    PROVE  \E imported, path \in BOOLEAN : Selects(theme, imported, path)
<1>1. CASE StartSelect(theme)
  <2>1. Selects(theme, theme # Builtin, FALSE)
    BY <1>1 DEF StartSelect, Selects
  <2>2. QED
    BY <2>1
<1>2. ASSUME NEW imported \in BOOLEAN, StartSelectPath(theme, imported)
      PROVE  \E other, path \in BOOLEAN : Selects(theme, other, path)
  <2>1. Selects(theme, imported, TRUE)
    BY <1>2 DEF StartSelectPath, Selects
  <2>2. QED
    BY <2>1
<1>3. QED
  BY <1>1, <1>2

\* A command at a step carries what that step needs.
LEMMA ToolOfKind ==
    ASSUME LibraryTypeOK
    PROVE  /\ Running("download") \/ Running("sidecar") => tool \in Download
           /\ Running("clear") \/ Running("copy") => tool \in Import
           /\ Running("select") => tool \in Selection
           /\ Running("validate") \/ Running("render") \/ Running("summarize") => tool \in Reporting
BY DEF LibraryTypeOK, Running, Tool, Download, Import, Selection, Reporting

\* The import that is next has a pet it is for.
LEMMA DestinationIsPet ==
    ASSUME LibraryTypeOK, Importing, Running("clear") \/ Running("copy")
    PROVE  /\ tool \in Import /\ tool.left # <<>> /\ tool.left \in Seq(Slugs \cup Pets)
           /\ Source \in Slugs \cup Pets /\ Content(Source) \in Packages /\ Destination \in Pets
           /\ Len(tool.left) \in Nat \ {0} /\ Tail(tool.left) \in Seq(Slugs \cup Pets)
<1>1. tool \in Import /\ tool.left # <<>> /\ tool.left \in Seq(Slugs \cup Pets)
  BY ToolOfKind DEF Importing, Import
<1>2. /\ Source \in Slugs \cup Pets /\ 1 \in DOMAIN tool.left /\ Source = tool.left[1]
      /\ Len(tool.left) \in Nat \ {0} /\ Tail(tool.left) \in Seq(Slugs \cup Pets)
  BY <1>1 DEF Source
<1>3. Content(Source) \in Packages
  BY <1>2 DEF Importing
<1>4. QED
  BY <1>1, <1>2, <1>3, PackagesAssumption DEF Destination

LEMMA OneOrMany == \A n \in Nat \ {0} : n = 1 \/ n > 1
OBVIOUS

\* When an import is over, a command that goes on is at the next one.
LEMMA EndsAnImport ==
    ASSUME LibraryTypeOK, Importing, Running("clear") \/ Running("copy"), NEW outcome, Ends(outcome)
    PROVE  \/ tool' = Idle
           \/ /\ Len(tool.left) > 1 /\ tool' \in Import
              /\ tool' = [kind |-> "clear", left |-> Tail(tool.left), replace |-> tool.replace]
<1>1. tool = [kind |-> tool.kind, left |-> tool.left, replace |-> tool.replace]
  BY DestinationIsPet DEF Import
<1>2. CASE Len(tool.left) = 1
  BY <1>2 DEF Ends
<1>3. CASE Len(tool.left) # 1
  <2>1. tool' = [[tool EXCEPT !.kind = "clear"] EXCEPT !.left = Tail(tool.left)]
    BY <1>1, <1>3 DEF Ends
  <2>2. tool' = [kind |-> "clear", left |-> Tail(tool.left), replace |-> tool.replace]
    BY <1>1, <2>1
  <2>3. /\ tool \in Import
        /\ Len(tool.left) \in Nat \ {0} /\ Tail(tool.left) \in Seq(Slugs \cup Pets)
    BY DestinationIsPet
  <2>4. tool' \in Import
    BY <2>2, <2>3 DEF Import
  <2>5. Len(tool.left) > 1
    BY <1>3, <2>3, OneOrMany
  <2>6. QED
    BY <2>2, <2>4, <2>5
<1>4. QED
  BY <1>2, <1>3

LEMMA ImportTyped ==
    ASSUME LibraryTypeOK, NEW sources \in (SUBSET Slugs) \cup {{p} : p \in Slugs \cup Pets},
           NEW replace \in BOOLEAN, NEW passed, Starts, Begin(sources, replace, passed)
    PROVE  LibraryTypeOK'
<1>1. IsFiniteSet(sources)
  <2>1. CASE \E p \in Slugs \cup Pets : sources = {p}
    BY <2>1, FS_Singleton
  <2>2. CASE sources \in SUBSET Slugs
    BY <2>2, LibraryAssumption, FS_Subset
  <2>3. QED
    BY <2>1, <2>2
<1>2. SetToSeq(sources) \in Seq(Slugs \cup Pets)
  <2>1. SetToSeq(sources) \in Seq(sources)
    BY <1>1, SetToSeqType
  <2>2. sources \subseteq Slugs \cup Pets
    OBVIOUS
  <2>3. QED
    BY <2>1, <2>2
<1>3. QED
  BY <1>2, LibraryAssumption DEF LibraryTypeOK, Begin, Starts, shelf, Tool, Import

LEMMA TypeStep ==
    ASSUME LibraryTypeOK, VouchInv, Importing, [LibraryNext]_libraryVars PROVE LibraryTypeOK'
<1> USE LibraryAssumption DEF shelf, Starts, Mishap, File
<1>1. ASSUME NEW s \in Slugs, NEW x \in Packages, NEW replace, StartDownload(s, x, replace)
      PROVE  LibraryTypeOK'
  BY <1>1 DEF LibraryTypeOK, StartDownload, Tool, Download
<1>2. CASE ReplaceZip
  <2>1. tool \in Download
    BY <1>2, ToolOfKind DEF LibraryTypeOK, ReplaceZip
  <2>2. tool' # Idle => tool' \in Download
    BY <1>2, <2>1 DEF LibraryTypeOK, ReplaceZip, Download
  <2>3. staged' \in [Slugs -> Staged]
    BY <1>2, <2>1 DEF LibraryTypeOK, ReplaceZip, Download, Staged
  <2>4. QED
    BY <1>2, <2>2, <2>3 DEF LibraryTypeOK, ReplaceZip, Tool
<1>3. CASE WriteSidecar
  <2>1. tool \in Download /\ staged[tool.slug].zip \in Packages
    BY <1>3, ToolOfKind DEF LibraryTypeOK, WriteSidecar, VouchInv
  <2>2. staged' \in [Slugs -> Staged] /\ fetched' \subseteq Slugs \X Packages
    BY <1>3, <2>1 DEF LibraryTypeOK, WriteSidecar, Download, Staged
  <2>3. QED
    BY <1>3, <2>2 DEF LibraryTypeOK, WriteSidecar
<1>4. CASE Clear
  <2>1. Destination \in Pets /\ tool \in Import
    BY <1>4, DestinationIsPet DEF LibraryTypeOK, Clear
  <2>2. tool' # Idle => tool' \in Import
    BY <1>4, <2>1, EndsAnImport DEF LibraryTypeOK, Clear, Import
  <2>3. QED
    BY <1>4, <2>1, <2>2 DEF LibraryTypeOK, Clear, Tool
<1>5. CASE Copy
  BY <1>5, DestinationIsPet, EndsAnImport DEF LibraryTypeOK, Copy, Tool
<1>6. CASE ImportFails
  <2>1. Running("clear") \/ Running("copy")
    BY <1>6 DEF LibraryTypeOK, ImportFails, Damages
  <2>2. QED
    <3>1. Destination \in Pets /\ (tool' # Idle => tool' \in Tool)
      BY <1>6, <2>1, DestinationIsPet, EndsAnImport DEF ImportFails, Tool
    <3>2. library' \in [Pets -> File(Packages)] /\ hurt' \subseteq Pets \cup {"qa", "settings"}
      BY <1>6, <3>1 DEF LibraryTypeOK, ImportFails, Hit
    <3>3. QED
      BY <1>6, <3>1, <3>2 DEF LibraryTypeOK, ImportFails
<1>7. ASSUME NEW theme \in Pets \cup {Builtin}, NEW imported \in BOOLEAN, NEW path \in BOOLEAN,
             Selects(theme, imported, path)
      PROVE  LibraryTypeOK'
  <2>1. settings \in Settings /\ (settings.root \/ imported) \in BOOLEAN
    BY DEF LibraryTypeOK
  <2>2. [settings EXCEPT !.theme = theme, !.root = settings.root \/ imported, !.path = path]
           \in Settings
    BY <2>1 DEF Settings
  <2>3. QED
    BY <1>7, <2>2 DEF LibraryTypeOK, Selects, Select, Tool, Selection
<1>8. CASE WriteSettings
  BY <1>8, ToolOfKind DEF LibraryTypeOK, WriteSettings, Selection
<1>9. ASSUME NEW s \in Slugs, StartQa(s) PROVE LibraryTypeOK'
  BY <1>9 DEF LibraryTypeOK, StartQa, Tool, Reporting, Staged, Readable
<1>10. CASE Validate
  BY <1>10, ToolOfKind, PackagesAssumption DEF LibraryTypeOK, Validate, Tool, Reporting, QaFile, QaReport
<1>11. CASE Render
  BY <1>11, ToolOfKind DEF LibraryTypeOK, Render, Running, Tool, Reporting
<1>12. CASE RenderFails
  <2>1. tool \in Reporting /\ tool.kind = "render"
    BY <1>12, ToolOfKind DEF LibraryTypeOK, RenderFails, Running
  <2>2. tool' \in Reporting
    BY <1>12, <2>1 DEF LibraryTypeOK, RenderFails, Reporting
  <2>3. QaFile(FALSE) \in QaReport
    BY <2>1 DEF LibraryTypeOK, QaFile, QaReport, Reporting
  <2>4. qa' \in [validation : File(QaReport), summary : File(QaReport)]
    BY <1>12, <2>3 DEF LibraryTypeOK, RenderFails
  <2>5. QED
    BY <1>12, <2>2, <2>4 DEF LibraryTypeOK, RenderFails, Tool
<1>13. CASE Summarize
  BY <1>13, ToolOfKind DEF LibraryTypeOK, Summarize, Running, Tool, Reporting, QaFile, QaReport
<1>14. CASE BreakOff
  <2>1. CASE tool.kind \in {"download", "sidecar"}
    <3>1. tool.slug \in Slugs
      BY <1>14, <2>1, ToolOfKind DEF LibraryTypeOK, BreakOff, Running, Download
    <3>2. QED
      BY <1>14, <2>1, <3>1 DEF LibraryTypeOK, BreakOff, Staged
  <2>2. CASE tool.kind \in {"clear", "copy"}
    <3>1. Destination \in Pets
      BY <1>14, <2>2, DestinationIsPet DEF LibraryTypeOK, BreakOff, Running
    <3>2. library' \in [Pets -> File(Packages)] /\ hurt' \subseteq Pets \cup {"qa", "settings"}
      BY <1>14, <2>2, <3>1 DEF LibraryTypeOK, BreakOff, Hit
    <3>3. QED
      BY <1>14, <2>2, <3>2 DEF LibraryTypeOK, BreakOff
  <2>3. CASE tool.kind = "select"
    <3>1. settings' \in {settings, Blank} /\ hurt' = hurt \cup {"settings"}
      BY <1>14, <2>3 DEF LibraryTypeOK, BreakOff
    <3>2. Blank \in Settings
      BY DEF Blank, Settings
    <3>3. QED
      BY <1>14, <2>3, <3>1, <3>2 DEF LibraryTypeOK, BreakOff
  <2>4. CASE tool.kind \in {"validate", "render", "summarize"}
    BY <1>14, <2>4 DEF LibraryTypeOK, BreakOff
  <2>5. QED
    BY <1>14, <2>1, <2>2, <2>3, <2>4 DEF LibraryTypeOK, BreakOff
<1>15. CASE UNCHANGED libraryVars
  BY <1>15 DEF LibraryTypeOK, libraryVars
<1>16. ASSUME NEW replace \in BOOLEAN, StartBatch(replace) PROVE LibraryTypeOK'
  BY <1>16, ImportTyped DEF StartBatch, Batch
<1>17. ASSUME NEW replace \in BOOLEAN, NEW source \in Slugs \cup Pets, StartImport(source, replace)
       PROVE  LibraryTypeOK'
  BY <1>17, ImportTyped DEF StartImport
<1>18. ASSUME NEW theme \in Pets \cup {Builtin},
              StartSelect(theme) \/ \E imported \in BOOLEAN : StartSelectPath(theme, imported)
       PROVE  LibraryTypeOK'
  BY <1>7, <1>18, SelectionsAre
<1>19. QED
  BY <1>1, <1>2, <1>3, <1>4, <1>5, <1>6, <1>8, <1>9, <1>10, <1>11, <1>12, <1>13, <1>14,
     <1>15, <1>16, <1>17, <1>18 DEF LibraryNext

\* What the commands are at after each step, and what a step leaves alone that
\* is not an import's.
LEMMA StepsOfOthers ==
    ASSUME LibraryTypeOK, VouchInv, [LibraryNext]_libraryVars
    PROVE  \/ UNCHANGED <<tool, staged, library, settings, fetched, hurt, report>>
           \/ \E s \in Slugs, x \in Packages, replace \in BOOLEAN : StartDownload(s, x, replace)
           \/ ReplaceZip \/ WriteSidecar
           \/ \E replace \in BOOLEAN : StartBatch(replace)
           \/ \E replace \in BOOLEAN, source \in Slugs \cup Pets : StartImport(source, replace)
           \/ Clear \/ Copy \/ ImportFails
           \/ \E theme \in Pets \cup {Builtin} :
                 \E imported, path \in BOOLEAN : Selects(theme, imported, path)
           \/ WriteSettings \/ BreakOff
           \/ /\ UNCHANGED <<staged, library, settings, fetched, report>> /\ hurt' \in {hurt, hurt \ {"qa"}}
              /\ tool' \in Reporting \cup {Idle} /\ ~Running("copy")
<1> USE DEF shelf
<1>1. ASSUME NEW s \in Slugs, StartQa(s)
      PROVE  /\ tool' \in Reporting /\ UNCHANGED <<staged, library, settings, fetched, hurt, report>>
             /\ ~Running("copy")
  BY <1>1 DEF StartQa, Starts, Running, Reporting, LibraryTypeOK, Staged, File, Readable
<1>2. ASSUME Validate \/ Render \/ RenderFails
      PROVE  /\ tool' \in Reporting /\ UNCHANGED <<staged, library, settings, fetched, hurt, report>>
             /\ ~Running("copy")
  <2>1. tool \in Reporting
    BY <1>2, ToolOfKind DEF Validate, Render, RenderFails
  <2>2. CASE Validate
    BY <2>1, <2>2, PackagesAssumption DEF Validate, Running, Reporting
  <2>3. CASE Render
    BY <2>1, <2>3 DEF Render, Running, Reporting
  <2>4. CASE RenderFails
    BY <2>1, <2>4 DEF RenderFails, Running, Reporting
  <2>5. QED
    BY <1>2, <2>2, <2>3, <2>4
<1>3. CASE Summarize
  BY <1>3 DEF Summarize, Running
<1>4. CASE UNCHANGED libraryVars
  BY <1>4 DEF libraryVars
<1>5. QED
  BY <1>1, <1>2, <1>3, <1>4, SelectionsAre DEF LibraryNext

\* An import that starts leaves all files alone and is at its first source.
LEMMA BeginsAnImport ==
    ASSUME NEW sources, NEW replace, NEW passed, Begin(sources, replace, passed)
    PROVE  /\ UNCHANGED <<staged, library, settings, fetched, hurt>>
           /\ tool' # Idle => passed /\ tool' = [kind |-> "clear", left |-> SetToSeq(sources),
                                                 replace |-> replace]
BY DEF Begin, shelf

LEMMA VouchStep ==
    ASSUME LibraryTypeOK, VouchInv, Importing, [LibraryNext]_libraryVars PROVE VouchInv'
<1> USE DEF VouchInv, Running
<1>1. CASE UNCHANGED <<tool, staged, library, settings, fetched, hurt, report>>
  BY <1>1
<1>2. ASSUME NEW s \in Slugs, NEW x \in Packages, NEW replace, StartDownload(s, x, replace)
      PROVE  VouchInv'
  BY <1>2 DEF StartDownload, shelf
<1>3. CASE ReplaceZip
  <2>1. tool \in Download
    BY <1>3, ToolOfKind DEF ReplaceZip
  <2>2. staged'[tool.slug].zip \in Packages /\ (tool' # Idle => tool'.slug = tool.slug)
    BY <1>3, <2>1 DEF ReplaceZip, Download, LibraryTypeOK, Staged
  <2>3. \A s \in Slugs : staged'[s].sidecar = staged[s].sidecar
    BY <1>3, <2>1 DEF ReplaceZip, Download, LibraryTypeOK, Staged
  <2>4. QED
    BY <1>3, <2>2, <2>3 DEF ReplaceZip
<1>4. CASE WriteSidecar
  <2>1. tool \in Download
    BY <1>4, ToolOfKind DEF WriteSidecar
  <2>2. \A s \in Slugs : staged'[s].sidecar =
            IF s = tool.slug THEN staged[tool.slug].zip ELSE staged[s].sidecar
    BY <1>4, <2>1 DEF WriteSidecar, Download, LibraryTypeOK, Staged
  <2>3. QED
    BY <1>4, <2>2 DEF WriteSidecar
<1>5. ASSUME NEW sources, NEW replace, NEW passed, Begin(sources, replace, passed) PROVE VouchInv'
  BY <1>5, BeginsAnImport
<1>6. CASE Clear \/ Copy \/ ImportFails
  <2>1. Running("clear") \/ Running("copy")
    BY <1>6 DEF Clear, Copy, ImportFails, Damages
  <2>2. UNCHANGED <<staged, fetched>>
    BY <1>6 DEF Clear, Copy, ImportFails
  <2>3. tool' # Idle => tool'.kind \in {"clear", "copy"}
    BY <1>6, <2>1, DestinationIsPet, EndsAnImport DEF Clear, Copy, ImportFails, Import
  <2>4. QED
    BY <2>2, <2>3
<1>7. ASSUME NEW theme, NEW imported, NEW path, Selects(theme, imported, path) PROVE VouchInv'
  BY <1>7 DEF Selects, Select, shelf
<1>8. CASE WriteSettings
  BY <1>8 DEF WriteSettings
<1>9. CASE BreakOff
  <2>1. CASE tool.kind \in {"download", "sidecar"}
    <3>1. tool \in Download
      BY <1>9, <2>1, ToolOfKind DEF BreakOff
    <3>2. \A s \in Slugs : staged'[s].sidecar \in {staged[s].sidecar, Torn}
      BY <1>9, <2>1, <3>1 DEF BreakOff, Download, LibraryTypeOK, Staged
    <3>3. QED
      BY <1>9, <3>2 DEF BreakOff, Readable
  <2>2. CASE tool.kind \notin {"download", "sidecar"}
    BY <1>9, <2>2 DEF BreakOff
  <2>3. QED
    BY <2>1, <2>2
<1>10. ASSUME UNCHANGED <<staged, library, settings, fetched>>, tool' \in Reporting \cup {Idle}
       PROVE  VouchInv'
  BY <1>10 DEF Reporting
<1>11. QED
  BY <1>1, <1>2, <1>3, <1>4, <1>5, <1>6, <1>7, <1>8, <1>9, <1>10, StepsOfOthers
     DEF StartBatch, StartImport

\* A sequence of one.
LEMMA SequenceOfOne ==
    ASSUME NEW S, NEW q \in Seq(S), Len(q) = 1
    PROVE  /\ q # <<>> /\ ~(Len(q) > 1)
           /\ \A i \in DOMAIN q : q[i] \in S
<1>1. \A n : n = 1 => ~(n > 1)
  OBVIOUS
<1>2. QED
  BY <1>1

\* The rest of a sequence of many.
LEMMA TailOfMany ==
    ASSUME NEW S, NEW q \in Seq(S), Len(q) > 1
    PROVE  /\ Tail(q) \in Seq(S) /\ Tail(q) # <<>>
           /\ \A i \in DOMAIN Tail(q) : i + 1 \in DOMAIN q /\ Tail(q)[i] = q[i + 1]
<1>1. q # <<>> /\ Len(q) \in Nat
  OBVIOUS
<1>2. /\ Tail(q) \in Seq(S) /\ Len(Tail(q)) = Len(q) - 1
      /\ \A i \in 1 .. Len(Tail(q)) : Tail(q)[i] = q[i + 1]
  BY <1>1, HeadTailProperties
<1>3. DOMAIN Tail(q) = 1 .. Len(q) - 1 /\ DOMAIN q = 1 .. Len(q)
  BY <1>2
<1>4. Tail(q) # <<>>
  <2>1. Len(q) - 1 # 0
    <3>1. \A n \in Nat : n > 1 => n - 1 # 0
      OBVIOUS
    <3>2. QED
      BY <1>1, <3>1
  <2>2. Len(<<>>) = 0
    OBVIOUS
  <2>3. QED
    BY <1>2, <2>1, <2>2
<1>5. QED
  BY <1>1, <1>2, <1>3, <1>4

\* A batch goes on with what is left of it, whatever became of the library.
LEMMA BatchGoesOn ==
    ASSUME LibraryTypeOK, Importing, Running("clear") \/ Running("copy"), NEW outcome, Ends(outcome),
           UNCHANGED staged
    PROVE  Importing'
<1>1. CASE tool' = Idle
  BY <1>1 DEF Importing, Running
<1>2. CASE /\ Len(tool.left) > 1
           /\ tool' = [kind |-> "clear", left |-> Tail(tool.left), replace |-> tool.replace]
  <2>1. tool.left \in Seq(Slugs) /\ \A i \in DOMAIN tool.left : Content(tool.left[i]) \in Packages
    BY <1>2 DEF Importing
  <2>2. /\ Tail(tool.left) \in Seq(Slugs) /\ Tail(tool.left) # <<>>
        /\ \A i \in DOMAIN Tail(tool.left) :
              i + 1 \in DOMAIN tool.left /\ Tail(tool.left)[i] = tool.left[i + 1]
    BY <1>2, <2>1, TailOfMany
  <2>3. \A s \in Slugs : Content(s)' = Content(s)
    BY DEF Content
  <2>4. \A i \in DOMAIN tool'.left : tool'.left[i] \in Slugs /\ Content(tool.left[i + 1]) \in Packages
                                  /\ tool'.left[i] = tool.left[i + 1]
    BY <1>2, <2>1, <2>2
  <2>5. \A i \in DOMAIN tool'.left : Content(tool.left[i])' \in Packages
    BY <2>3, <2>4
  <2>6. QED
    BY <1>2, <2>2, <2>5 DEF Importing, Running
<1>3. QED
  BY <1>1, <1>2, EndsAnImport

\* The destination is out of the way, and what is to be copied there is not.
LEMMA ClearedForCopy ==
    ASSUME LibraryTypeOK, Importing, Running("clear"), Source # Destination, UNCHANGED staged,
           library' = [library EXCEPT ![Destination] = Absent], tool' = [tool EXCEPT !.kind = "copy"]
    PROVE  /\ tool'.left = tool.left /\ tool'.kind = "copy"
           /\ Source' = Source /\ Destination' = Destination
           /\ \A i \in DOMAIN tool.left : Content(tool.left[i])' = Content(tool.left[i])
<1>1. /\ tool \in Import /\ Source = tool.left[1] /\ tool.left # <<>>
      /\ tool.left \in Seq(Slugs \cup Pets) /\ Len(tool.left) \in Nat \ {0}
  BY DestinationIsPet DEF Source
<1>2. tool'.left = tool.left /\ Source' = Source
  BY <1>1 DEF Import, Source
<1>3. \A x \in Slugs \cup Pets : x \in Slugs \/ x # Destination => Content(x)' = Content(x)
  BY DEF Content, LibraryTypeOK
<1>4. \A i \in DOMAIN tool.left :
          /\ tool.left[i] \in Slugs \cup Pets
          /\ tool.left[i] \in Slugs \/ tool.left[i] # Destination
  <2>1. CASE Len(tool.left) > 1
    BY <2>1 DEF Importing
  <2>2. CASE Len(tool.left) = 1
    <3>1. DOMAIN tool.left = 1 .. 1
      BY <1>1, <2>2
    <3>2. \A i \in DOMAIN tool.left : tool.left[i] = Source /\ tool.left[i] \in Slugs \cup Pets
      BY <1>1, <3>1
    <3>3. QED
      BY <3>2
  <2>3. QED
    BY <1>1, <2>1, <2>2, OneOrMany
<1>5. \A i \in DOMAIN tool.left : Content(tool.left[i])' = Content(tool.left[i])
  BY <1>2, <1>3, <1>4
<1>6. Destination' = Destination
  <2>1. 1 \in DOMAIN tool.left
    BY <1>1
  <2>2. QED
    BY <1>1, <1>2, <1>5, <2>1 DEF Destination, Source
<1>7. tool'.kind = "copy"
  BY <1>1 DEF Import
<1>8. QED
  BY <1>2, <1>5, <1>6, <1>7

LEMMA ImportingStep ==
    ASSUME LibraryTypeOK, VouchInv, Importing, [LibraryNext]_libraryVars PROVE Importing'
<1> USE DEF Importing, Running
<1>1. CASE UNCHANGED <<tool, staged, library, settings, fetched, hurt, report>>
  BY <1>1 DEF Content, Source, Destination
<1>2. ASSUME NEW s \in Slugs, NEW x \in Packages, NEW replace, StartDownload(s, x, replace)
      PROVE  Importing'
  BY <1>2 DEF StartDownload
<1>3. CASE ReplaceZip \/ WriteSidecar
  BY <1>3, ToolOfKind DEF ReplaceZip, WriteSidecar, Download
<1>4. ASSUME NEW replace, StartBatch(replace) PROVE Importing'
  <2> SUFFICES ASSUME tool' # Idle PROVE Importing'
    OBVIOUS
  <2>1. Preflight(Batch, replace) /\ UNCHANGED staged
        /\ tool' = [kind |-> "clear", left |-> SetToSeq(Batch), replace |-> replace]
    BY <1>4, BeginsAnImport DEF StartBatch
  <2>2. IsFiniteSet(Batch) /\ Batch # {} /\ Batch \subseteq Slugs
    BY <2>1, LibraryAssumption, FS_Subset DEF Preflight, Batch
  <2>3. SetToSeq(Batch) \in Seq(Batch) /\ SetToSeq(Batch) # <<>>
    BY <2>2, SetToSeqType, FS_EmptySet
  <2>4. \A s \in Batch : Content(s)' \in Packages
    BY <2>1, <2>2 DEF Preflight, EntryOk, Readable, Content, LibraryTypeOK, Staged, File
  <2>5. SetToSeq(Batch) \in Seq(Slugs)
    BY <2>2, <2>3
  <2>6. QED
    BY <2>1, <2>3, <2>4, <2>5
<1>5. ASSUME NEW replace, NEW source \in Slugs \cup Pets, StartImport(source, replace)
      PROVE  Importing'
  <2> SUFFICES ASSUME tool' # Idle PROVE Importing'
    OBVIOUS
  <2>1. Readable(Content(source)) /\ UNCHANGED <<staged, library>>
        /\ tool' = [kind |-> "clear", left |-> SetToSeq({source}), replace |-> replace]
    BY <1>5, BeginsAnImport DEF StartImport
  <2>2. IsFiniteSet({source}) /\ Cardinality({source}) = 1
    BY FS_Singleton
  <2>3. SetToSeq({source}) \in Seq({source}) /\ Len(SetToSeq({source})) = 1
    BY <2>2, SetToSeqType
  <2>4. Content(source)' \in Packages
    BY <2>1 DEF Readable, Content, LibraryTypeOK, Staged, File
  <2>5. /\ SetToSeq({source}) # <<>> /\ ~(Len(SetToSeq({source})) > 1)
        /\ \A i \in DOMAIN SetToSeq({source}) : SetToSeq({source})[i] = source
    BY <2>3, SequenceOfOne
  <2>6. \A i \in DOMAIN tool'.left : tool'.left[i] = source
    BY <2>1, <2>5
  <2>7. \A i \in DOMAIN tool'.left : Content(tool.left[i])' \in Packages
    BY <2>4, <2>6
  <2>8. tool'.left = SetToSeq({source}) /\ tool'.kind = "clear"
    BY <2>1
  <2>9. QED
    BY <2>5, <2>7, <2>8
<1>6. CASE Clear
  <2>1. CASE \E outcome : Ends(outcome)
    BY <1>6, <2>1, BatchGoesOn DEF Clear
  <2>2. CASE ~ \E outcome : Ends(outcome)
    <3>1. /\ Source # Destination /\ UNCHANGED staged
          /\ library' = [library EXCEPT ![Destination] = Absent]
          /\ tool' = [tool EXCEPT !.kind = "copy"]
      BY <1>6, <2>2 DEF Clear
    <3>2. /\ tool'.left = tool.left /\ tool'.kind = "copy"
          /\ Source' = Source /\ Destination' = Destination
          /\ \A i \in DOMAIN tool.left : Content(tool.left[i])' = Content(tool.left[i])
      BY <1>6, <3>1, ClearedForCopy DEF Clear
    <3>3. tool.left # <<>>
      BY <1>6 DEF Clear
    <3>4. \A i \in DOMAIN tool'.left : Content(tool.left[i])' \in Packages
      BY <1>6, <3>2 DEF Clear
    <3>5. QED
      BY <1>6, <3>1, <3>2, <3>3, <3>4 DEF Clear
  <2>3. QED
    BY <2>1, <2>2
<1>7. CASE Copy
  BY <1>7, BatchGoesOn DEF Copy
<1>8. CASE ImportFails
  BY <1>8, BatchGoesOn DEF ImportFails, Damages
<1>9. ASSUME NEW theme, NEW imported, NEW path, Selects(theme, imported, path) PROVE Importing'
  BY <1>9 DEF Selects, Select
<1>10. CASE WriteSettings \/ BreakOff
  BY <1>10 DEF WriteSettings, BreakOff
<1>11. ASSUME tool' \in Reporting \cup {Idle} PROVE Importing'
  BY <1>11 DEF Reporting
<1>12. QED
  BY <1>1, <1>2, <1>3, <1>4, <1>5, <1>6, <1>7, <1>8, <1>9, <1>10, <1>11, StepsOfOthers

\* A command that touches neither the library nor the settings disturbs no
\* selection.
LEMMA SelectionUndisturbed ==
    ASSUME LibraryTypeOK, SelectionHolds, ~Running("copy"), UNCHANGED <<library, settings>>,
           hurt' \in {hurt, hurt \ {"qa"}}, ~Running("select")'
    PROVE  (Selecting /\ SelectionHolds)'
<1>1. Discovered' = Discovered
  BY DEF Discovered
<1>2. \A p \in Pets \cup {"settings"} : p \in hurt => p \in hurt'
  BY LibraryAssumption
<1>3. settings.theme \in Pets \cup {Builtin, Absent}
  BY DEF LibraryTypeOK, Settings
<1>4. QED
  BY <1>1, <1>2, <1>3 DEF SelectionHolds, Selecting

\* A mishap in an import leaves its pet as it was, or hurts it.
LEMMA MishapHurts ==
    ASSUME LibraryTypeOK, Importing, SelectionHolds, Running("clear") \/ Running("copy"),
           library' = library \/ library' = [library EXCEPT ![Destination] = Torn],
           hurt' = Hit, UNCHANGED settings, tool' # Idle => tool'.kind = "clear"
    PROVE  (Selecting /\ SelectionHolds)'
<1>1. Destination \in Pets
  BY DestinationIsPet
<1>2. ~Running("copy")' /\ ~Running("select")'
  BY DEF Running
<1>3. \A p \in Pets : p # Destination => library'[p] = library[p]
  BY <1>1 DEF LibraryTypeOK
<1>4. Destination \in Discovered' \cup hurt' /\ hurt \subseteq hurt'
      /\ (library'[Destination] = Torn => Destination \in hurt')
  BY <1>1 DEF Hit, Discovered, Readable
<1>5. \A p \in Pets : p \in Discovered => p \in Discovered' \cup hurt'
  BY <1>3, <1>4 DEF Discovered
<1>6. \A p \in Pets : library'[p] = Torn => p \in hurt'
  BY <1>3, <1>4 DEF SelectionHolds
<1>7. settings.theme \in Discovered' \cup hurt' \cup {Builtin, Absent} \/ settings.path
  BY <1>4, <1>5 DEF SelectionHolds, Discovered
<1>8. QED
  BY <1>2, <1>4, <1>6, <1>7 DEF SelectionHolds, Selecting

LEMMA SelectionStep ==
    ASSUME LibraryTypeOK, VouchInv, Importing, Selecting, SelectionHolds, [LibraryNext]_libraryVars
    PROVE  (Selecting /\ SelectionHolds)'
<1>1. CASE UNCHANGED <<tool, staged, library, settings, fetched, hurt, report>>
  BY <1>1 DEF Selecting, SelectionHolds, Discovered, Running, Destination, Content, Source
<1>2. ASSUME NEW s \in Slugs, NEW x \in Packages, NEW replace, StartDownload(s, x, replace)
      PROVE  (Selecting /\ SelectionHolds)'
  BY <1>2, SelectionUndisturbed DEF StartDownload, Starts, Running, shelf
<1>3. CASE ReplaceZip \/ WriteSidecar
  <2>1. tool \in Download /\ ~Running("copy")
    BY <1>3, ToolOfKind DEF ReplaceZip, WriteSidecar, Running
  <2>2. ~Running("select")'
    BY <1>3, <2>1 DEF ReplaceZip, WriteSidecar, Running, Download
  <2>3. QED
    BY <1>3, <2>1, <2>2, SelectionUndisturbed DEF ReplaceZip, WriteSidecar
<1>4. ASSUME NEW sources, NEW replace, NEW passed, Starts, Begin(sources, replace, passed)
      PROVE  (Selecting /\ SelectionHolds)'
  BY <1>4, BeginsAnImport, SelectionUndisturbed DEF Starts, Running
<1>5. CASE Clear
  <2>1. Running("clear") /\ ~Running("copy") /\ UNCHANGED <<staged, settings, hurt>>
    BY <1>5 DEF Clear, Running
  <2>2. CASE UNCHANGED library
    <3>1. ~Running("select")'
      BY <1>5, <2>1, EndsAnImport, ToolOfKind DEF Clear, Running, Import
    <3>2. QED
      BY <2>1, <2>2, <3>1, SelectionUndisturbed
  <2>3. CASE /\ Source # Destination /\ library' = [library EXCEPT ![Destination] = Absent]
             /\ tool' = [tool EXCEPT !.kind = "copy"]
    <3>1. tool'.kind = "copy" /\ Destination' = Destination /\ Destination \in Pets
      BY <2>1, <2>3, ClearedForCopy, DestinationIsPet
    <3>2. \A p \in Pets : library'[p] = IF p = Destination THEN Absent ELSE library[p]
      BY <2>3, <3>1 DEF LibraryTypeOK
    <3>3. \A p \in Discovered : p \in Discovered' \/ p = Destination
      BY <3>2 DEF Discovered
    <3>4. tool' \in Import
      BY <2>1, <2>3, ToolOfKind DEF Import
    <3>5. tool' # Idle
      BY <3>4, TypesAssumption DEF Tool
    <3>6. QED
      BY <2>1, <3>1, <3>2, <3>3, <3>5, FilesAssumption DEF SelectionHolds, Selecting, Running
  <2>4. QED
    BY <1>5, <2>2, <2>3 DEF Clear
<1>6. CASE Copy
  <2>1. /\ Running("copy") /\ UNCHANGED settings /\ Ends("done")
        /\ library' = [library EXCEPT ![Destination] = Content(Source)]
        /\ hurt' = hurt \ {Destination}
    BY <1>6 DEF Copy
  <2>2. Destination \in Pets /\ Content(Source) \in Packages
    BY <2>1, DestinationIsPet
  <2>3. ~Running("copy")' /\ ~Running("select")'
    BY <2>1, EndsAnImport DEF Running
  <2>4. /\ \A p \in Pets : library'[p] = IF p = Destination THEN Content(Source) ELSE library[p]
        /\ Content(Source) \notin {Absent, Torn}
    BY <2>1, <2>2, LibraryAssumption DEF LibraryTypeOK
  <2>5. Discovered' = Discovered \cup {Destination}
    BY <2>2, <2>4 DEF Discovered, Readable
  <2>6. "settings" # Destination
    BY <2>2, LibraryAssumption
  <2>7. QED
    BY <2>1, <2>3, <2>4, <2>5, <2>6 DEF SelectionHolds, Selecting
<1>7. CASE ImportFails
  <2>1. Running("clear") \/ Running("copy")
    BY <1>7 DEF ImportFails, Damages
  <2>2. tool' # Idle => tool'.kind = "clear"
    BY <1>7, <2>1, EndsAnImport DEF ImportFails
  <2>3. QED
    BY <1>7, <2>1, <2>2, MishapHurts DEF ImportFails
<1>8. ASSUME NEW theme \in Pets \cup {Builtin}, NEW imported \in BOOLEAN, NEW path \in BOOLEAN,
             Selects(theme, imported, path)
      PROVE  (Selecting /\ SelectionHolds)'
  <2>1. /\ tool = Idle /\ UNCHANGED <<library, settings, hurt>>
        /\ path \/ theme \in Discovered \cup {Builtin}
        /\ path \/ imported = (theme # Builtin)
        /\ tool'.kind = "select"
        /\ tool'.lines = [settings EXCEPT !.theme = theme, !.root = settings.root \/ imported,
                                          !.path = path]
    BY <1>8 DEF Selects, Select, Starts, shelf
  <2>2. /\ tool'.lines.theme = theme /\ tool'.lines.other = settings.other
        /\ tool'.lines.root = (settings.root \/ imported) /\ tool'.lines.path = path
    BY <2>1 DEF LibraryTypeOK, Settings
  <2>3. theme \in Pets => theme # Builtin
    BY LibraryAssumption
  <2>4. Discovered' = Discovered
    BY <2>1 DEF Discovered
  <2>5. Selecting'
    BY <2>1, <2>2, <2>3, <2>4 DEF Selecting
  <2>6. SelectionHolds'
    BY <2>1, <2>4 DEF SelectionHolds, Running
  <2>7. QED
    BY <2>5, <2>6
<1>9. CASE WriteSettings
  <2>1. settings' = tool.lines /\ tool' = Idle /\ UNCHANGED <<library, hurt>> /\ Running("select")
    BY <1>9 DEF WriteSettings
  <2>2. Discovered' = Discovered
    BY <2>1 DEF Discovered
  <2>3. QED
    BY <2>1, <2>2 DEF Selecting, SelectionHolds, Running
<1>10. CASE BreakOff
  <2>1. tool # Idle /\ tool' = Idle /\ ~Running("select")' /\ ~Running("copy")'
    BY <1>10 DEF BreakOff, Running
  <2>2. CASE tool.kind \in {"download", "sidecar"}
    BY <1>10, <2>1, <2>2, SelectionUndisturbed DEF BreakOff, Running
  <2>3. CASE tool.kind \in {"clear", "copy"}
    BY <1>10, <2>1, <2>3, MishapHurts DEF BreakOff, Running
  <2>4. CASE tool.kind = "select"
    <3>1. settings' \in {settings, Blank} /\ hurt' = hurt \cup {"settings"} /\ UNCHANGED library
      BY <1>10, <2>4 DEF BreakOff
    <3>2. Discovered' = Discovered
      BY <3>1 DEF Discovered
    <3>3. ~Running("copy")
      BY <2>4 DEF Running
    <3>4. Blank.theme = Absent /\ Absent \notin Pets
      BY LibraryAssumption DEF Blank
    <3>5. QED
      BY <2>1, <3>1, <3>2, <3>3, <3>4 DEF Selecting, SelectionHolds
  <2>5. CASE tool.kind \in {"validate", "render", "summarize"}
    <3>1. hurt' = hurt \cup {"qa"} /\ UNCHANGED <<library, settings>>
      BY <1>10, <2>5 DEF BreakOff
    <3>2. Discovered' = Discovered
      BY <3>1 DEF Discovered
    <3>3. ~Running("copy")
      BY <2>5 DEF Running
    <3>4. QED
      BY <2>1, <3>1, <3>2, <3>3 DEF Selecting, SelectionHolds
  <2>6. QED
    BY <1>10, <2>2, <2>3, <2>4, <2>5 DEF BreakOff
<1>11. ASSUME UNCHANGED <<library, settings>>, hurt' \in {hurt, hurt \ {"qa"}},
              tool' \in Reporting \cup {Idle}, ~Running("copy")
       PROVE  (Selecting /\ SelectionHolds)'
  <2>1. ~Running("select")'
    BY <1>11 DEF Running, Reporting
  <2>2. QED
    BY <1>11, <2>1, SelectionUndisturbed
<1>12. QED
  BY <1>1, <1>2, <1>3, <1>4, <1>5, <1>6, <1>7, <1>8, <1>9, <1>10, <1>11, StepsOfOthers
     DEF StartBatch, StartImport

-----------------------------------------------------------------------------
(* What the imports say *)

Imports == Running("clear") \/ Running("copy")

\* The sources that are over, and those that are to come.
Finished == report.done \cup report.failed
Coming   == IF Imports THEN {tool.left[i] : i \in DOMAIN tool.left} ELSE {}

PetOf(source) == report.of[source].pet

ReportShape ==
    report = [of |-> report.of, was |-> report.was, replace |-> report.replace,
              done |-> report.done, failed |-> report.failed]

\* A source is over once, and of another pet than any other.
SourcesApart ==
    /\ Finished \cap Coming = {}
    /\ \A s, t \in Finished \cup Coming : PetOf(s) = PetOf(t) => s = t
    /\ Imports => IsInjective(tool.left) /\ tool.replace = report.replace
    /\ \A s \in Coming : Content(s) = report.of[s]
    /\ \A s \in Finished \cup Coming : report.of[s] \in Packages

\* What is done is so, and what is not over is as it was, unless its turn has come.
SaidSoFar ==
    /\ \A s \in report.done : library[PetOf(s)] = report.of[s]
    /\ \A p \in Pets : (\A s \in Finished : PetOf(s) # p) /\ ~(Running("copy") /\ p = Destination)
          => library[p] = report.was[p]
    /\ Running("copy") => library[Destination] = Absent
    /\ ~report.replace => \A p \in Pets : report.was[p] # Absent => library[p] = report.was[p]

ReportInv == ReportShape /\ SourcesApart /\ SaidSoFar

\* The next source is one of those to come, for the pet that the report has.
LEMMA SourceIsComing ==
    ASSUME LibraryTypeOK, Importing, ReportInv, Imports
    PROVE  /\ Source \in Coming /\ Source \notin Finished
           /\ report.of[Source] = Content(Source) /\ PetOf(Source) = Destination
           /\ \A s \in Finished : PetOf(s) # Destination
<1>1. tool.left \in Seq(Slugs \cup Pets) /\ tool.left # <<>>
  BY DestinationIsPet DEF Imports
<1>2. 1 \in DOMAIN tool.left /\ Source = tool.left[1]
  BY <1>1 DEF Source
<1>3. Source \in Coming
  BY <1>2 DEF Coming
<1>4. QED
  BY <1>3 DEF ReportInv, SourcesApart, PetOf, Destination

\* When an import is over, its source is not among those that are to come.
LEMMA ComingAfterwards ==
    ASSUME LibraryTypeOK, Importing, ReportInv, Imports, UNCHANGED staged,
           NEW outcome, Ends(outcome) \/ tool' = Idle
    PROVE  /\ Coming' \subseteq Coming \ {Source} /\ ~Running("copy")'
           /\ Imports' => IsInjective(tool'.left) /\ tool'.replace = tool.replace
           /\ \A s \in Coming' : Content(s)' = Content(s)
<1>1. CASE tool' = Idle
  BY <1>1 DEF Coming, Imports, Running
<1>2. CASE /\ Len(tool.left) > 1
           /\ tool' = [kind |-> "clear", left |-> Tail(tool.left), replace |-> tool.replace]
  <2>1. tool.left \in Seq(Slugs) /\ tool.left # <<>> /\ Len(tool.left) \in Nat
    BY <1>2 DEF Importing, Imports
  <2>2. \A i \in DOMAIN Tail(tool.left) :
            /\ i \in Nat \ {0} /\ i + 1 \in DOMAIN tool.left
            /\ Tail(tool.left)[i] = tool.left[i + 1] /\ Tail(tool.left)[i] \in Slugs
    BY <1>2, <2>1, TailOfMany
  <2>3. IsInjective(tool.left)
    BY DEF ReportInv, SourcesApart
  <2>4. \A i, j \in Nat \ {0} : (i + 1 = j + 1 => i = j) /\ i + 1 # 1
    OBVIOUS
  <2>5. 1 \in DOMAIN tool.left /\ Source = tool.left[1]
    BY <2>1 DEF Source
  <2>6. IsInjective(Tail(tool.left))
    BY <2>2, <2>3, <2>4 DEF IsInjective
  <2>7. \A i \in DOMAIN Tail(tool.left) : /\ Tail(tool.left)[i] \in Coming /\ Tail(tool.left)[i] \in Slugs
                                          /\ Tail(tool.left)[i] # Source
    BY <2>2, <2>3, <2>4, <2>5 DEF IsInjective, Coming
  <2>8. Coming' \subseteq {Tail(tool.left)[i] : i \in DOMAIN Tail(tool.left)}
    BY <1>2 DEF Coming
  <2>9. \A s \in Slugs : Content(s)' = Content(s)
    BY DEF Content
  <2>10. QED
    BY <1>2, <2>6, <2>7, <2>8, <2>9 DEF Running
<1>3. QED
  BY <1>1, <1>2, EndsAnImport DEF Imports

\* An import that is over leaves a true report.
LEMMA ImportReported ==
    ASSUME LibraryTypeOK, Importing, ReportInv, Imports, UNCHANGED staged,
           NEW outcome, Ends(outcome) \/ tool' = Idle,
           NEW done, NEW failed, report' = [report EXCEPT !.done = done, !.failed = failed],
           done \subseteq report.done \cup {Source}, done \cup failed = Finished \cup {Source},
           \A p \in Pets : p # Destination => library'[p] = library[p],
           Source \in done => library'[Destination] = Content(Source),
           ~report.replace /\ report.was[Destination] # Absent =>
               library'[Destination] = library[Destination]
    PROVE  ReportInv'
<1>1. /\ report' = [of |-> report.of, was |-> report.was, replace |-> report.replace,
                    done |-> done, failed |-> failed]
      /\ Finished' = Finished \cup {Source}
  BY DEF ReportInv, ReportShape, Finished
<1>2. \A s : PetOf(s)' = PetOf(s)
  BY <1>1 DEF PetOf
<1>3. SourcesApart'
  BY <1>1, <1>2, ComingAfterwards, SourceIsComing DEF ReportInv, SourcesApart
<1>4. \A s \in report'.done : library'[PetOf(s)] = report.of[s]
  <2>1. ASSUME NEW s \in done, s # Source PROVE library'[PetOf(s)] = report.of[s]
    <3>1. s \in report.done /\ s \in Finished /\ PetOf(s) # Destination
      BY <2>1, SourceIsComing DEF Finished
    <3>2. PetOf(s) \in Pets
      BY <3>1, PackagesAssumption DEF ReportInv, SourcesApart, PetOf
    <3>3. QED
      BY <3>1, <3>2 DEF ReportInv, SaidSoFar
  <2>2. QED
    BY <1>1, <2>1, SourceIsComing
<1>5. \A p \in Pets : (\A s \in Finished' : PetOf(s) # p) => library'[p] = report.was[p]
  BY <1>1, SourceIsComing DEF ReportInv, SaidSoFar
<1>6. ~report.replace => \A p \in Pets : report.was[p] # Absent => library'[p] = report.was[p]
  BY DEF ReportInv, SaidSoFar
<1>7. QED
  BY <1>1, <1>2, <1>3, <1>4, <1>5, <1>6, ComingAfterwards DEF ReportInv, ReportShape, SaidSoFar

\* A step outside an import leaves the report as true as it was.
LEMMA ReportUndisturbed ==
    ASSUME ReportInv, UNCHANGED <<library, report>>, ~Running("copy"), ~Imports' PROVE ReportInv'
<1>1. Finished' = Finished /\ Coming' = {} /\ \A s : PetOf(s)' = PetOf(s)
  BY DEF Finished, Coming, PetOf
<1>2. ~Running("copy")'
  BY DEF Imports
<1>3. QED
  BY <1>1, <1>2 DEF ReportInv, ReportShape, SourcesApart, SaidSoFar

\* An import begins with all of its sources to come.
LEMMA ReportBegins ==
    ASSUME LibraryTypeOK, Importing, NEW sources, IsFiniteSet(sources), NEW replace, NEW passed,
           Begin(sources, replace, passed), Importing',
           passed => \A s, t \in sources : Content(s).pet = Content(t).pet => s = t
    PROVE  ReportInv'
<1>1. /\ report' = [of |-> [s \in sources |-> Content(s)], was |-> library, replace |-> replace,
                    done |-> {}, failed |-> {}]
      /\ UNCHANGED <<staged, library>>
  BY DEF Begin, shelf
<1>2. Finished' = {} /\ ~Running("copy")'
  BY <1>1 DEF Finished, Begin, Running
<1>3. CASE tool' = Idle
  BY <1>1, <1>2, <1>3 DEF ReportInv, ReportShape, SourcesApart, SaidSoFar, Coming, Imports, Running
<1>4. CASE tool' # Idle
  <2>1. passed /\ tool' = [kind |-> "clear", left |-> SetToSeq(sources), replace |-> replace]
    BY <1>4, BeginsAnImport
  <2>2. SetToSeq(sources) \in Seq(sources) /\ IsInjective(SetToSeq(sources))
    BY SetToSeqType
  <2>3. tool'.left = SetToSeq(sources) /\ tool'.replace = replace /\ tool'.kind = "clear"
    BY <2>1
  <2>4. \A s \in Coming' : /\ s \in sources
                           /\ \E i \in DOMAIN tool'.left : s = tool'.left[i]
    BY <2>2, <2>3 DEF Coming
  <2>5. \A s \in sources : Content(s)' = Content(s) /\ report'.of[s] = Content(s)
    BY <1>1 DEF Content
  <2>6. \A s \in Coming' : report'.of[s] \in Packages
    <3>1. \A i \in DOMAIN tool'.left : Content(tool.left[i])' \in Packages
      BY <1>4, <2>3 DEF Importing, Running
    <3>2. QED
      BY <2>4, <2>5, <3>1
  <2>7. SourcesApart'
    BY <1>1, <1>2, <2>1, <2>2, <2>3, <2>4, <2>5, <2>6 DEF SourcesApart, PetOf
  <2>8. QED
    BY <1>1, <1>2, <2>7 DEF ReportInv, ReportShape, SaidSoFar
<1>5. QED
  BY <1>3, <1>4

\* An import that fails or breaks off can only have damaged the pet it is for.
LEMMA ImportBroken ==
    ASSUME LibraryTypeOK, Importing, ReportInv, Imports, UNCHANGED staged,
           Ends("failed") \/ tool' = Idle,
           report' = [report EXCEPT !.done = report.done, !.failed = report.failed \cup {Source}],
           library' = library \/ (Damages /\ library' = [library EXCEPT ![Destination] = Torn])
    PROVE  ReportInv'
<1>1. Destination \in Pets /\ Source \notin report.done
  BY DestinationIsPet, SourceIsComing DEF Imports, Finished
<1>2. \A p \in Pets : p # Destination => library'[p] = library[p]
  BY <1>1 DEF LibraryTypeOK
<1>3. Damages /\ ~report.replace => report.was[Destination] = Absent
  BY <1>1 DEF Damages, Imports, ReportInv, SourcesApart, SaidSoFar, Running
<1>4. QED
  BY <1>1, <1>2, <1>3, ImportReported DEF Finished

LEMMA ReportStep ==
    ASSUME LibraryTypeOK, VouchInv, Importing, Importing', ReportInv, [LibraryNext]_libraryVars
    PROVE  ReportInv'
<1>1. CASE UNCHANGED <<tool, staged, library, settings, fetched, hurt, report>>
  BY <1>1 DEF ReportInv, ReportShape, SourcesApart, SaidSoFar, Finished, Coming, Imports, PetOf,
              Running, Content, Source, Destination
<1>2. ASSUME NEW s \in Slugs, NEW x \in Packages, NEW replace, StartDownload(s, x, replace)
      PROVE  ReportInv'
  BY <1>2, ReportUndisturbed DEF StartDownload, Starts, Imports, Running, shelf
<1>3. CASE ReplaceZip \/ WriteSidecar
  <2>1. tool \in Download /\ ~Running("copy") /\ UNCHANGED <<library, report>>
    BY <1>3, ToolOfKind DEF ReplaceZip, WriteSidecar, Running
  <2>2. ~Imports'
    BY <1>3, <2>1 DEF ReplaceZip, WriteSidecar, Imports, Running, Download
  <2>3. QED
    BY <2>1, <2>2, ReportUndisturbed
<1>4. ASSUME NEW replace \in BOOLEAN, StartBatch(replace) PROVE ReportInv'
  <2>1. IsFiniteSet(Batch) /\ Batch \subseteq Slugs
    BY LibraryAssumption, FS_Subset DEF Batch
  <2>2. Preflight(Batch, replace) =>
            \A s, t \in Batch : Content(s).pet = Content(t).pet => s = t
    BY <2>1 DEF Preflight, Content
  <2>3. QED
    BY <1>4, <2>1, <2>2, ReportBegins DEF StartBatch
<1>5. ASSUME NEW replace \in BOOLEAN, NEW source \in Slugs \cup Pets, StartImport(source, replace)
      PROVE  ReportInv'
  <2>1. IsFiniteSet({source})
    BY FS_Singleton
  <2>2. \A s, t \in {source} : Content(s).pet = Content(t).pet => s = t
    OBVIOUS
  <2>3. QED
    BY <1>5, <2>1, <2>2, ReportBegins DEF StartImport
<1>6. CASE Clear
  <2>1. Running("clear") /\ Imports /\ ~Running("copy") /\ UNCHANGED staged
    BY <1>6 DEF Clear, Imports, Running
  <2>2. CASE Source = Destination /\ Ends("done") /\ UNCHANGED library
    <3>1. report' = [report EXCEPT !.done = report.done \cup {Source}, !.failed = report.failed]
      BY <2>2 DEF Ends, ReportInv, ReportShape
    <3>2. Source \in Pets /\ Source \notin Slugs
      BY <2>1, <2>2, DestinationIsPet, LibraryAssumption
    <3>3. library[Destination] = Content(Source)
      BY <2>2, <3>2 DEF Content
    <3>4. QED
      BY <2>1, <2>2, <3>1, <3>3, ImportReported DEF Finished
  <2>3. CASE Ends("failed") /\ UNCHANGED library
    <3>1. report' = [report EXCEPT !.done = report.done, !.failed = report.failed \cup {Source}]
      BY <2>3 DEF Ends, ReportInv, ReportShape
    <3>2. Source \notin report.done
      BY <2>1, SourceIsComing DEF Finished
    <3>3. QED
      BY <2>1, <2>3, <3>1, <3>2, ImportReported DEF Finished
  <2>4. CASE /\ Source # Destination /\ (library[Destination] = Absent \/ tool.replace)
             /\ library' = [library EXCEPT ![Destination] = Absent]
             /\ tool' = [tool EXCEPT !.kind = "copy"] /\ UNCHANGED report
    <3>1. /\ tool'.left = tool.left /\ tool'.kind = "copy" /\ Destination' = Destination
          /\ \A i \in DOMAIN tool.left : Content(tool.left[i])' = Content(tool.left[i])
          /\ tool \in Import /\ Destination \in Pets
      BY <2>1, <2>4, ClearedForCopy, DestinationIsPet
    <3>2. tool' # Idle /\ tool'.replace = tool.replace /\ Imports'
      BY <2>4, <3>1, TypesAssumption DEF Tool, Import, Imports, Running
    <3>3. Coming' = Coming /\ Finished' = Finished /\ \A s : PetOf(s)' = PetOf(s)
      BY <2>1, <2>4, <3>1, <3>2 DEF Coming, Finished, PetOf
    <3>4. \A s \in Coming' : Content(s)' = Content(s)
      BY <2>1, <3>1, <3>3 DEF Coming
    <3>5. SourcesApart'
      BY <2>1, <2>4, <3>1, <3>2, <3>3, <3>4 DEF ReportInv, SourcesApart
    <3>6. \A p \in Pets : library'[p] = IF p = Destination THEN Absent ELSE library[p]
      BY <2>4, <3>1 DEF LibraryTypeOK
    <3>7. \A s \in report.done : PetOf(s) # Destination /\ PetOf(s) \in Pets
      BY <2>1, SourceIsComing, PackagesAssumption DEF Finished, ReportInv, SourcesApart, PetOf
    <3>8. SaidSoFar'
      BY <2>1, <2>4, <3>1, <3>2, <3>3, <3>6, <3>7 DEF ReportInv, SourcesApart, SaidSoFar, Running
    <3>9. QED
      BY <2>4, <3>5, <3>8 DEF ReportInv, ReportShape
  <2>5. QED
    BY <1>6, <2>2, <2>3, <2>4 DEF Clear
<1>7. CASE Copy
  <2>1. /\ Imports /\ Running("copy") /\ UNCHANGED staged /\ Ends("done")
        /\ library' = [library EXCEPT ![Destination] = Content(Source)]
    BY <1>7 DEF Copy, Imports
  <2>2. report' = [report EXCEPT !.done = report.done \cup {Source}, !.failed = report.failed]
    BY <2>1 DEF Ends, ReportInv, ReportShape
  <2>3. Destination \in Pets
    BY <2>1, DestinationIsPet DEF Imports
  <2>4. \A p \in Pets : library'[p] = IF p = Destination THEN Content(Source) ELSE library[p]
    BY <2>1, <2>3 DEF LibraryTypeOK
  <2>5. ~report.replace => report.was[Destination] = Absent
    BY <2>1, <2>3 DEF ReportInv, SaidSoFar
  <2>6. QED
    BY <2>1, <2>2, <2>3, <2>4, <2>5, ImportReported DEF Finished
<1>8. CASE ImportFails
  <2>1. Damages /\ UNCHANGED staged /\ Ends("failed")
        /\ library' \in {library, [library EXCEPT ![Destination] = Torn]}
    BY <1>8 DEF ImportFails
  <2>2. Imports
    BY <2>1 DEF Damages, Imports
  <2>3. report' = [report EXCEPT !.done = report.done, !.failed = report.failed \cup {Source}]
    BY <2>1 DEF Ends, ReportInv, ReportShape
  <2>4. QED
    BY <2>1, <2>2, <2>3, ImportBroken
<1>9. ASSUME NEW theme, NEW imported, NEW path, Selects(theme, imported, path) PROVE ReportInv'
  BY <1>9, ReportUndisturbed DEF Selects, Select, Starts, Imports, Running, shelf
<1>10. CASE WriteSettings
  BY <1>10, ReportUndisturbed DEF WriteSettings, Imports, Running
<1>11. CASE BreakOff
  <2>1. tool # Idle /\ tool' = Idle /\ ~Imports'
    BY <1>11 DEF BreakOff, Imports, Running
  <2>2. CASE tool.kind \in {"clear", "copy"}
    <3>1. /\ Imports /\ UNCHANGED staged
          /\ library' = library \/ (Damages /\ library' = [library EXCEPT ![Destination] = Torn])
          /\ report' = [report EXCEPT !.failed = report.failed \cup {Source}]
      BY <1>11, <2>1, <2>2 DEF BreakOff, Imports, Running
    <3>2. report' = [report EXCEPT !.done = report.done, !.failed = report.failed \cup {Source}]
      BY <3>1 DEF ReportInv, ReportShape
    <3>3. QED
      BY <2>1, <3>1, <3>2, ImportBroken
  <2>3. CASE tool.kind \notin {"clear", "copy"}
    BY <1>11, <2>1, <2>3, ReportUndisturbed DEF BreakOff, Running
  <2>4. QED
    BY <2>2, <2>3
<1>12. ASSUME UNCHANGED <<library, report>>, tool' \in Reporting \cup {Idle}, ~Running("copy")
       PROVE  ReportInv'
  <2>1. ~Imports'
    BY <1>12 DEF Imports, Running, Reporting
  <2>2. QED
    BY <1>12, <2>1, ReportUndisturbed
<1>13. QED
  BY <1>1, <1>2, <1>3, <1>4, <1>5, <1>6, <1>7, <1>8, <1>9, <1>10, <1>11, <1>12, StepsOfOthers

-----------------------------------------------------------------------------
(* What build-pet-qa says *)

\* The two files of a bundle agree.
QaAgrees ==
    /\ Readable(qa.validation) /\ qa.summary.of = qa.validation.of
    /\ qa.summary.ok => qa.validation.ok

\* A bundle being made is of the package validated, and no better; any other is
\* whole unless it broke off.
QaInv ==
    /\ Running("render") \/ Running("summarize") =>
          /\ Readable(qa.validation) /\ qa.validation.of = tool.package
          /\ tool.ok => qa.validation.ok
    /\ ~Running("render") /\ ~Running("summarize") /\ "qa" \notin hurt /\ Readable(qa.summary) =>
          QaAgrees

\* A command other than build-pet-qa leaves its bundle alone.
LEMMA QaUndisturbed ==
    ASSUME QaInv, UNCHANGED qa, "qa" \in hurt => "qa" \in hurt',
           ~Running("render"), ~Running("summarize"), ~Running("render")', ~Running("summarize")'
    PROVE  QaInv'
BY DEF QaInv, QaAgrees

LEMMA QaStep ==
    ASSUME LibraryTypeOK, Importing, QaInv, [LibraryNext]_libraryVars PROVE QaInv'
<1>1. ASSUME NEW s \in Slugs, NEW x \in Packages, NEW replace, StartDownload(s, x, replace)
      PROVE  QaInv'
  BY <1>1, QaUndisturbed DEF StartDownload, Starts, Running, shelf
<1>2. CASE ReplaceZip \/ WriteSidecar
  <2>1. tool \in Download
    BY <1>2, ToolOfKind DEF ReplaceZip, WriteSidecar
  <2>2. /\ ~Running("render") /\ ~Running("summarize")
        /\ ~Running("render")' /\ ~Running("summarize")'
    BY <1>2, <2>1 DEF ReplaceZip, WriteSidecar, Running, Download
  <2>3. QED
    BY <1>2, <2>2, QaUndisturbed DEF ReplaceZip, WriteSidecar
<1>3. ASSUME NEW sources, NEW replace, NEW passed, Starts, Begin(sources, replace, passed)
      PROVE  QaInv'
  BY <1>3, QaUndisturbed DEF Starts, Begin, Running, shelf
<1>4. CASE Clear \/ Copy \/ ImportFails
  <2>1. Running("clear") \/ Running("copy")
    BY <1>4 DEF Clear, Copy, ImportFails, Damages
  <2>2. tool' # Idle => tool'.kind \in {"clear", "copy"}
    BY <1>4, <2>1, DestinationIsPet, EndsAnImport DEF Clear, Copy, ImportFails, Import
  <2>3. UNCHANGED qa
    BY <1>4 DEF Clear, Copy, ImportFails
  <2>4. Destination # "qa"
    BY <2>1, DestinationIsPet, LibraryAssumption
  <2>5. "qa" \in hurt => "qa" \in hurt'
    BY <1>4, <2>4 DEF Clear, Copy, ImportFails, Hit
  <2>6. QED
    BY <2>1, <2>2, <2>3, <2>5, QaUndisturbed DEF Running
<1>5. ASSUME NEW theme, NEW imported, NEW path, Selects(theme, imported, path) PROVE QaInv'
  BY <1>5, QaUndisturbed DEF Selects, Select, Starts, Running, shelf
<1>6. CASE WriteSettings
  BY <1>6, QaUndisturbed DEF WriteSettings, Running
<1>7. ASSUME NEW s \in Slugs, StartQa(s) PROVE QaInv'
  BY <1>7, QaUndisturbed DEF StartQa, Starts, Running, shelf
<1>8. CASE Validate
  <2>1. qa'.validation = QaFile(tool.package.sound)
    BY <1>8 DEF Validate, LibraryTypeOK
  <2>2. tool' = [kind |-> tool'.kind, package |-> tool.package, ok |-> tool.package.sound]
    BY <1>8 DEF Validate
  <2>3. tool'.kind \in {"render", "summarize"} /\ tool.package \in Packages
    BY <1>8, ToolOfKind DEF Validate, Reporting
  <2>4. Readable(qa'.validation)
    BY <2>1, <2>3, PackagesAssumption, TypesAssumption DEF QaFile, QaReport, Readable
  <2>5. tool' # Idle
    <3>1. tool' \in Reporting
      BY <2>2, <2>3, PackagesAssumption DEF Reporting
    <3>2. QED
      BY <3>1, TypesAssumption DEF Tool
  <2>6. QED
    BY <2>1, <2>2, <2>3, <2>4, <2>5 DEF QaInv, QaFile, Running
<1>9. CASE Render
  <2>1. /\ tool' \in Reporting
        /\ tool'.kind = "summarize" /\ tool'.package = tool.package /\ tool'.ok = tool.ok
    BY <1>9, ToolOfKind DEF Render, Running, Reporting
  <2>2. tool' # Idle
    BY <2>1, TypesAssumption DEF Tool
  <2>3. QED
    BY <1>9, <2>1, <2>2 DEF Render, QaInv, Running, shelf
<1>10. CASE RenderFails
  <2>1. tool \in Reporting /\ tool.kind = "render" /\ Running("render")
    BY <1>10, ToolOfKind DEF RenderFails, Running
  <2>2. tool' \in Reporting /\ tool'.kind = "summarize" /\ tool'.package = tool.package /\ ~tool'.ok
    BY <1>10, <2>1 DEF RenderFails, Reporting
  <2>3. tool' # Idle
    BY <2>2, TypesAssumption DEF Tool
  <2>4. QaFile(FALSE) \in QaReport /\ QaFile(FALSE).of = tool.package
    BY <2>1 DEF QaFile, QaReport, Reporting
  <2>5. qa'.validation \in {qa.validation, QaFile(FALSE)}
    BY <1>10 DEF RenderFails, LibraryTypeOK
  <2>6. Readable(qa.validation) /\ qa.validation.of = tool.package
    BY <2>1 DEF QaInv
  <2>7. Readable(qa'.validation) /\ qa'.validation.of = tool.package
    BY <2>4, <2>5, <2>6, TypesAssumption DEF Readable
  <2>8. QED
    BY <2>2, <2>3, <2>7 DEF QaInv, Running
<1>11. CASE Summarize
  <2>1. /\ qa'.summary = QaFile(tool.ok) /\ qa'.validation = qa.validation
        /\ tool' = Idle
    BY <1>11 DEF Summarize, LibraryTypeOK
  <2>2. QED
    BY <1>11, <2>1 DEF Summarize, QaInv, QaAgrees, QaFile, Running
<1>12. CASE BreakOff
  <2>1. ~Running("render")' /\ ~Running("summarize")'
    BY <1>12 DEF BreakOff, Running
  <2>2. CASE tool.kind \in {"validate", "render", "summarize"}
    BY <1>12, <2>1, <2>2 DEF BreakOff, QaInv
  <2>3. CASE tool.kind \notin {"validate", "render", "summarize"}
    <3>1. UNCHANGED qa /\ ("qa" \in hurt => "qa" \in hurt')
      BY <1>12, <2>3 DEF BreakOff, Hit
    <3>2. QED
      BY <2>1, <2>3, <3>1, QaUndisturbed DEF Running
  <2>4. QED
    BY <2>2, <2>3
<1>13. CASE UNCHANGED libraryVars
  BY <1>13 DEF libraryVars, shelf, QaInv, QaAgrees, Running
<1>14. ASSUME NEW theme \in Pets \cup {Builtin},
              StartSelect(theme) \/ \E imported \in BOOLEAN : StartSelectPath(theme, imported)
       PROVE  QaInv'
  BY <1>5, <1>14, SelectionsAre
<1>15. QED
  BY <1>1, <1>2, <1>3, <1>4, <1>6, <1>7, <1>8, <1>9, <1>10, <1>11, <1>12, <1>13, <1>14
     DEF LibraryNext, StartBatch, StartImport

-----------------------------------------------------------------------------
LibraryInv ==
    /\ LibraryTypeOK /\ VouchInv /\ Importing /\ Selecting /\ SelectionHolds
    /\ ReportInv /\ QaInv

LEMMA LibraryStep == LibraryInv /\ [LibraryNext]_libraryVars => LibraryInv'
BY TypeStep, VouchStep, ImportingStep, SelectionStep, ReportStep, QaStep DEF LibraryInv

LEMMA LibraryInvariant == Spec => []LibraryInv
<1>1. Init => LibraryInv
  <2> SUFFICES ASSUME LibraryInit PROVE LibraryInv
    BY DEF Init
  <2> USE DEF LibraryInit, Blank
  <2>1. LibraryTypeOK
    <3>1. staged \in [Slugs -> Staged] /\ library \in [Pets -> File(Packages)]
      BY DEF Staged, File
    <3>2. settings \in Settings
      BY DEF Settings
    <3>3. qa \in [validation : File(QaReport), summary : File(QaReport)]
      BY DEF File
    <3>4. QED
      BY <3>1, <3>2, <3>3, LibraryAssumption DEF LibraryTypeOK
  <2>2. VouchInv /\ Importing /\ Selecting
    BY DEF VouchInv, Importing, Selecting, Running, Readable
  <2>3. SelectionHolds
    BY LibraryAssumption, FilesAssumption DEF SelectionHolds
  <2>4. ReportInv /\ QaInv
    BY DEF ReportInv, ReportShape, SourcesApart, SaidSoFar, Finished, Coming, Imports, Running, QaInv,
           Readable
  <2>5. QED
    BY <2>1, <2>2, <2>3, <2>4 DEF LibraryInv
<1>2. [Next]_vars => [LibraryNext]_libraryVars
  BY DEF Next, vars
<1>3. QED
  BY <1>1, <1>2, LibraryStep, PTL DEF Spec, vars

\* The files of the pet commands hold what they should, and no command is at a
\* step it has not got, whatever fails or is interrupted.
THEOREM LibraryTypeCorrect == Spec => []LibraryTypeOK
<1>1. LibraryInv => LibraryTypeOK
  BY DEF LibraryInv
<1>2. QED
  BY <1>1, LibraryInvariant, PTL

\* A batch accepts an archive beside a sidecar only if a download-petdex fetched
\* that archive for that slug and said so.
THEOREM SidecarsAreWitnesses == Spec => []SidecarsVouch
<1>1. LibraryInv => SidecarsVouch
  BY DEF LibraryInv, VouchInv, SidecarsVouch, EntryOk, Readable
<1>2. QED
  BY <1>1, LibraryInvariant, PTL

\* What set-pet selected by name stays installed, with its root, but for an
\* import that is replacing it or had a mishap; however it was selected, the
\* other settings are kept, and no pet is there in part without a mishap.
THEOREM SelectionIsKept == Spec => []SelectionHolds
<1>1. LibraryInv => SelectionHolds
  BY DEF LibraryInv
<1>2. QED
  BY <1>1, LibraryInvariant, PTL

\* What an import says it did is so, what it says failed is the only thing that
\* may be damaged, nothing is replaced without --replace, and a QA bundle that
\* did not break off is of one package and no better than its validation.
THEOREM ImportsReportTruly == Spec => []ReportsAreTrue
<1>1. ASSUME LibraryInv PROVE ReportsAreTrue
  <2>1. ASSUME tool = Idle, NEW p \in Pets
        PROVE  LET by == {s \in report.done : report.of[s].pet = p}
                   failing == {s \in report.failed : report.of[s].pet = p}
               IN  /\ \A s \in by : library[p] = report.of[s]
                   /\ by = {} /\ failing = {} => library[p] = report.was[p]
                   /\ ~report.replace /\ report.was[p] # Absent => library[p] = report.was[p]
    BY <1>1, <2>1 DEF LibraryInv, ReportInv, SaidSoFar, Finished, PetOf, Running
  <2>2. (tool = Idle /\ "qa" \notin hurt /\ Readable(qa.summary)) => QaAgrees
    BY <1>1 DEF LibraryInv, QaInv, Running
  <2>3. QED
    BY <2>1, <2>2 DEF ReportsAreTrue, QaAgrees
<1>2. QED
  BY <1>1, LibraryInvariant, PTL

-----------------------------------------------------------------------------
(* The transcript *)

\* The row that the poll captured and has yet to store.
Arriving ==
    IF writer["monitor"] \in Polling /\ writer["monitor"].phase = "store"
    THEN {writer["monitor"].row} ELSE {}

\* The times of the rows that a task has yet to store.
Holds(w, t) ==
    \/ writer[w] \in Looking /\ writer[w].ts = t
    \/ writer[w] \in Polling \cup Sending /\ writer[w].phase = "store" /\ writer[w].row.ts = t

\* No two rows, stored or to come, are of one time, and output is stored in the
\* order of its polls.
Timed ==
    /\ IsFiniteSet(rows)
    /\ \A r \in rows : r.ts <= clock
    /\ \A r, q \in rows : r.ts = q.ts => r = q
    /\ \A w \in Writer : \A t \in 1 .. MaxClock :
          Holds(w, t) => t <= clock /\ \A r \in rows : r.ts # t
    /\ \A t \in 1 .. MaxClock : ~(Holds("monitor", t) /\ Holds("input", t))
    /\ \A t \in 1 .. MaxClock : Holds("monitor", t) => \A r \in Out : r.ts < t
    /\ \A w \in Writer : Phased(w, "tell") => writer[w].row \in rows

Increasing(lines) == \A i, j \in DOMAIN lines : i < j => lines[i] < lines[j]

\* The pane ends with the line printed last.  So does the snapshot before,
\* unless it is empty: nothing was captured since.
Ordered ==
    /\ Increasing(pane) /\ (\A i \in DOMAIN pane : pane[i] <= printed)
    /\ pane # <<>> => pane[Len(pane)] = printed
    /\ previous # Absent =>
          /\ Increasing(previous) /\ (\A i \in DOMAIN previous : previous[i] <= printed)
          /\ previous # <<>> => \A r \in Out \cup Arriving : \A x \in LinesOf(r.lines) :
                                   x <= previous[Len(previous)]
    /\ \A r \in Out \cup Arriving :
          /\ \A x \in LinesOf(r.lines) : x <= printed
          /\ Increasing(r.lines)
          /\ ~r.joins => Len(r.lines) <= FirstLines
    /\ \A r, q \in Out \cup Arriving : r.ts < q.ts /\ q.joins =>
          \A x \in LinesOf(r.lines), y \in LinesOf(q.lines) : x < y

\* The lines that were stored or are known to be missed; and those with the
\* lines of the row that is about to be stored.
Known == missed \cup UNION {LinesOf(r.lines) : r \in Out}
KnownSoon == missed \cup UNION {LinesOf(r.lines) : r \in Out \cup Arriving}

Kept(snapshot)     == snapshot # Absent => LinesOf(snapshot) \subseteq Known
KeptSoon(snapshot) == snapshot # Absent => LinesOf(snapshot) \subseteq KnownSoon

\* Every snapshot that can be recorded, now or later, is accounted for.
Accounted ==
    /\ Kept(recorded) /\ KeptSoon(previous)
    /\ writer["monitor"] \in Looking => Kept(writer["monitor"].known)
    /\ writer["monitor"] \in Polling => KeptSoon(writer["monitor"].screen)
    /\ writer["input"] \in Sending => Kept(writer["input"].copy)

\* A listing has the newest of the rows that were there, even when others came
\* or were pruned since.
Listed ==
    request # Idle /\ request.phase = "listed" =>
        /\ request.then \subseteq rows /\ request.listed \subseteq request.then
        /\ request.then \cap NewestRows(Limit, Stored) \subseteq request.listed

\* What the client shows of a row, of which it may have been told or not.
Shows(r) ==
    IF r \in overtaken THEN 0
    ELSE (IF r \in repeated THEN 1 ELSE 0) + (IF r \in Untold THEN 0 ELSE 1)

\* The client shows the newest rows as it was told of them, and no others twice.
Followed ==
    view # Absent =>
        /\ overtaken \cap Untold = {} /\ overtaken \cap repeated = {}
        /\ \A r \in NewestRows(Limit, Stored) : view[r.ts] = Shows(r)
        /\ \A r \in rows : view[r.ts] <= IF r \in Untold THEN 1 ELSE 2
        /\ \A t \in 1 .. MaxClock : view[t] > 0 => \E r \in rows : r.ts = t

TranscriptInv ==
    TranscriptTypeOK /\ Timed /\ Ordered /\ Accounted /\ Listed /\ Followed

\* The lines from place m up to e.
LEMMA SomeLines ==
    ASSUME NEW seq \in Lines, NEW e \in Nat, e <= Len(seq), NEW m \in Nat, m >= 1, m <= e + 1
    PROVE  /\ SubSeq(seq, m, e) \in Lines /\ Len(SubSeq(seq, m, e)) = e + 1 - m
           /\ \A i \in 1 .. e + 1 - m : SubSeq(seq, m, e)[i] = seq[m - 1 + i]
<1> DEFINE S == 1 .. MaxLines
<1>0. seq \in Seq(S) /\ Lines = Seq(S)
  BY DEF Lines
<1> HIDE DEF S
<1>1. Len(seq) \in Nat /\ \A i \in 1 .. Len(seq) : seq[i] \in S
  BY <1>0, LenProperties, ElementOfSeq
<1>2. m \in Int /\ e \in Int
  OBVIOUS
<1>3. \A i \in m .. e : seq[i] \in S
  BY <1>1, <1>2
<1>4. /\ SubSeq(seq, m, e) \in Seq(S)
      /\ Len(SubSeq(seq, m, e)) = IF m <= e THEN e - m + 1 ELSE 0
      /\ \A i \in 1 .. e - m + 1 : SubSeq(seq, m, e)[i] = seq[m + i - 1]
  BY ONLY <1>2, <1>3, SubSeqProperties
<1>5. (IF m <= e THEN e - m + 1 ELSE 0) = e + 1 - m
  BY <1>2
<1>6. \A i \in 1 .. e + 1 - m : i \in 1 .. e - m + 1 /\ m + i - 1 = m - 1 + i
  BY <1>2
<1>7. \A i \in 1 .. e + 1 - m : SubSeq(seq, m, e)[i] = seq[m - 1 + i]
  BY <1>4, <1>6, Zenon
<1>8. QED
  BY <1>0, <1>4, <1>5, <1>7

\* How many the newest n are.
HowMany(n, seq) == IF Len(seq) > n THEN n ELSE Len(seq)

LEMMA NewestIsTail ==
    ASSUME NEW seq \in Lines, NEW n \in Nat
    PROVE  /\ HowMany(n, seq) \in Nat /\ HowMany(n, seq) <= Len(seq) /\ HowMany(n, seq) <= n
           /\ HowMany(n, seq) = n \/ HowMany(n, seq) = Len(seq)
           /\ Len(seq) - HowMany(n, seq) \in Nat
           /\ Newest(n, seq) \in Lines /\ Len(Newest(n, seq)) = HowMany(n, seq)
           /\ \A i \in 1 .. HowMany(n, seq) :
                 Newest(n, seq)[i] = seq[(Len(seq) - HowMany(n, seq)) + i]
<1> DEFINE k == HowMany(n, seq)
           m == IF Len(seq) > n THEN Len(seq) - n + 1 ELSE 1
           e == Len(seq)
<1>1. Len(seq) \in Nat
  BY LenProperties DEF Lines
<1>2. /\ k \in Nat /\ k <= e /\ k <= n /\ (k = n \/ k = e) /\ e - k \in Nat
      /\ m \in Nat /\ m >= 1 /\ m <= e + 1 /\ e + 1 - m = k /\ m - 1 = e - k
  BY <1>1 DEF HowMany
<1>3. Newest(n, seq) = SubSeq(seq, m, e)
  BY DEF Newest
<1> HIDE DEF k, m
<1>4. /\ SubSeq(seq, m, e) \in Lines /\ Len(SubSeq(seq, m, e)) = e + 1 - m
      /\ \A i \in 1 .. e + 1 - m : SubSeq(seq, m, e)[i] = seq[m - 1 + i]
  BY <1>1, <1>2, SomeLines
<1>5. /\ Newest(n, seq) \in Lines /\ Len(Newest(n, seq)) = k
      /\ \A i \in 1 .. k : Newest(n, seq)[i] = seq[(e - k) + i]
  BY <1>2, <1>3, <1>4, Zenon
<1>6. QED
  BY <1>2, <1>5 DEF k

\* Lines that are a part of others, from place d on, are among them and as
\* ordered as they are.
LEMMA PartOfLines ==
    ASSUME NEW seq \in Lines, NEW part2 \in Lines, NEW d \in Nat,
           Len(part2) + d <= Len(seq),
           \A i \in 1 .. Len(part2) : part2[i] = seq[d + i]
    PROVE  /\ LinesOf(part2) \subseteq LinesOf(seq)
           /\ Increasing(seq) => Increasing(part2)
<1>1. /\ DOMAIN seq = 1 .. Len(seq) /\ DOMAIN part2 = 1 .. Len(part2)
      /\ Len(seq) \in Nat /\ Len(part2) \in Nat
  BY LenProperties DEF Lines
<1>2. \A i \in DOMAIN part2 : d + i \in DOMAIN seq /\ part2[i] = seq[d + i]
  BY <1>1
<1>3. LinesOf(part2) \subseteq LinesOf(seq)
  BY <1>2 DEF LinesOf
<1>4. ASSUME Increasing(seq), NEW i \in DOMAIN part2, NEW j \in DOMAIN part2, i < j
      PROVE  part2[i] < part2[j]
  <2>1. d + i < d + j
    BY <1>1, <1>4
  <2>2. seq[d + i] < seq[d + j]
    BY <1>2, <1>4, <2>1 DEF Increasing
  <2>3. QED
    BY <1>2, <2>2
<1>5. QED
  BY <1>3, <1>4 DEF Increasing

\* Of finitely many numbers one is the largest.
LEMMA LargestExists ==
    ASSUME NEW N \in Nat, NEW T \in SUBSET (1 .. N), T # {}
    PROVE  \E n \in T : \A m \in T : m <= n
<1> DEFINE Above == {n .. N : n \in T}
<1>1. IsFiniteSet(1 .. N)
  BY FS_Interval
<1>2. FiniteSubsetsOf(1 .. N) = SUBSET (1 .. N)
  BY <1>1, FS_FiniteSubsetsOfFinite
<1>3. IsWellFoundedOn(StrictSubsetOrdering(1 .. N), SUBSET (1 .. N))
  BY <1>2, FS_StrictSubsetOrderingWellFounded
<1>4. Above \subseteq SUBSET (1 .. N) /\ Above # {}
  <2>1. \A n \in T : n .. N \subseteq 1 .. N
    OBVIOUS
  <2>2. QED
    BY <2>1, Zenon
<1> HIDE DEF Above
<1>5. PICK least \in Above : \A U \in Above : ~(<<U, least>> \in StrictSubsetOrdering(1 .. N))
  BY <1>3, <1>4, WFMin
<1>6. PICK n \in T : least = n .. N
  BY <1>5 DEF Above
<1>7. ASSUME NEW m \in T, ~(m <= n) PROVE FALSE
  <2>1. m .. N \in Above /\ m .. N \subseteq n .. N /\ m .. N # n .. N
    BY <1>7, <1>6 DEF Above
  <2>2. <<m .. N, n .. N>> \in StrictSubsetOrdering(1 .. N)
    BY <2>1, <1>4 DEF StrictSubsetOrdering, Above
  <2>3. QED
    BY <1>5, <1>6, <2>1, <2>2
<1>8. QED
  BY <1>7

LEMMA Sizes == {Window, FirstLines, Keep, Limit} \subseteq Nat \ {0} /\ MaxLines \in Nat /\ MaxClock \in Nat
BY TranscriptAssumption

\* An overlap is a number of lines, and where there is one, one is the longest.
LEMMA LongestOverlap ==
    ASSUME NEW before \in Lines, NEW now \in Lines, Overlaps(before, now) # {}
    PROVE  (CHOOSE n \in Overlaps(before, now) : \A m \in Overlaps(before, now) : m <= n)
              \in Overlaps(before, now)
<1>1. Len(now) \in Nat /\ Overlaps(before, now) \in SUBSET (1 .. Len(now))
  BY LenProperties DEF Lines, Overlaps
<1>2. \E n \in Overlaps(before, now) : \A m \in Overlaps(before, now) : m <= n
  BY <1>1, LargestExists
<1>3. QED
  BY <1>2

\* What a screen adds to the one before: after an overlap what follows it, and
\* without one its newest lines.
LEMMA NewOutputTells ==
    ASSUME NEW before \in Lines \cup {Absent}, NEW now \in Lines,
           NEW output, output = NewOutput(before, now)
    PROVE  \/ before = now /\ output = <<>>
           \/ /\ before # now /\ (before = Absent \/ Overlaps(before, now) = {})
              /\ output = Newest(FirstLines, now)
           \/ /\ before \in Lines
              /\ \E n \in Overlaps(before, now) : output = SubSeq(now, 1 + n, Len(now))
<1>1. CASE before = now
  BY <1>1 DEF NewOutput
<1>2. CASE before # now /\ (before = Absent \/ Overlaps(before, now) = {})
  BY <1>2 DEF NewOutput
<1>3. CASE before # now /\ before # Absent /\ Overlaps(before, now) # {}
  BY <1>3, LongestOverlap DEF NewOutput
<1>4. QED
  BY <1>1, <1>2, <1>3

\* The lines after an overlap: they and the screen before make up the new one,
\* and each follows the last line before.
LEMMA AfterOverlap ==
    ASSUME NEW before \in Lines, NEW now \in Lines, NEW n \in Overlaps(before, now),
           NEW output, output = SubSeq(now, 1 + n, Len(now))
    PROVE  /\ output \in Lines /\ n \in Nat /\ Len(output) + n = Len(now)
           /\ \A i \in 1 .. Len(output) : output[i] = now[n + i]
           /\ before # <<>> /\ n \in DOMAIN now /\ now[n] = before[Len(before)]
           /\ LinesOf(now) \subseteq LinesOf(before) \cup LinesOf(output)
<1>0. DOMAIN now = 1 .. Len(now) /\ DOMAIN before = 1 .. Len(before)
  BY LenProperties DEF Lines
<1>1. Len(now) \in Nat /\ Len(before) \in Nat
  BY LenProperties DEF Lines
<1>2. n \in 1 .. Len(now) /\ n <= Len(before) /\ Newest(n, before) = SubSeq(now, 1, n)
  BY DEF Overlaps
<1>3. n \in Nat /\ n >= 1 /\ n <= Len(now) /\ n <= Len(before)
  BY <1>1, <1>2
<1>5. /\ output \in Lines /\ Len(output) + n = Len(now) /\ Len(output) \in Nat
      /\ \A i \in 1 .. Len(output) : output[i] = now[n + i]
  <2> DEFINE m == 1 + n
             e == Len(now)
  <2>1. m \in Nat /\ m >= 1 /\ m <= e + 1 /\ e \in Nat /\ e <= Len(now)
    BY <1>1, <1>3
  <2>2. e + 1 - m = e - n /\ m - 1 = n
    BY <1>1, <1>3
  <2>3. output = SubSeq(now, m, e)
    OBVIOUS
  <2> HIDE DEF m
  <2>4. /\ output \in Lines /\ Len(output) = e - n
        /\ \A i \in 1 .. e - n : output[i] = now[n + i]
    BY <2>1, <2>2, <2>3, SomeLines
  <2>5. e - n \in Nat /\ (e - n) + n = Len(now)
    BY <1>1, <1>3
  <2>6. QED
    BY <2>4, <2>5
<1>6. \A i \in 1 .. n : now[i] = before[(Len(before) - n) + i]
  <2>1. HowMany(n, before) = n
    BY <1>1, <1>3 DEF HowMany
  <2>6. \A i \in 1 .. HowMany(n, before) :
           Newest(n, before)[i] = before[(Len(before) - HowMany(n, before)) + i]
    BY <1>3, NewestIsTail
  <2>2. \A i \in 1 .. n : Newest(n, before)[i] = before[(Len(before) - n) + i]
    BY <2>1, <2>6
  <2>3. \A i \in 1 .. n + 1 - 1 : SubSeq(now, 1, n)[i] = now[1 - 1 + i]
    BY <1>1, <1>3, SomeLines
  <2>4. \A i \in 1 .. n : SubSeq(now, 1, n)[i] = now[i]
    BY <1>3, <2>3
  <2>5. QED
    BY <1>2, <2>2, <2>4, Zenon
<1>7. before # <<>> /\ n \in DOMAIN now /\ now[n] = before[Len(before)]
  <2>1. Len(before) # 0 /\ n \in 1 .. n /\ n \in 1 .. Len(now) /\ (Len(before) - n) + n = Len(before)
    BY <1>1, <1>3
  <2>2. n \in DOMAIN now /\ now[n] = before[Len(before)]
    BY <1>0, <1>6, <2>1
  <2>3. QED
    BY <2>1, <2>2, EmptySeq
<1>8. ASSUME NEW x \in LinesOf(now) PROVE x \in LinesOf(before) \cup LinesOf(output)
  <2>1. PICK i \in 1 .. Len(now) : x = now[i]
    BY <1>0 DEF LinesOf
  <2>2. CASE i <= n
    <3>1. i \in 1 .. n /\ (Len(before) - n) + i \in 1 .. Len(before)
      BY <1>1, <1>3, <2>1, <2>2
    <3>3. (Len(before) - n) + i \in DOMAIN before /\ x = before[(Len(before) - n) + i]
      BY <1>0, <1>6, <2>1, <3>1
    <3>4. QED
      BY <3>3 DEF LinesOf
  <2>3. CASE ~(i <= n)
    <3>1. DOMAIN output = 1 .. Len(output)
      BY <1>5, LenProperties DEF Lines
    <3>2. i - n \in 1 .. Len(output) /\ n + (i - n) = i
      <4>1. i \in Nat /\ i <= Len(now)
        BY <1>1, <2>1
      <4>2. Len(output) \in Nat /\ Len(output) + n = Len(now)
        BY <1>5
      <4>3. QED
        BY <1>1, <1>3, <2>3, <4>1, <4>2
    <3>3. output[i - n] = now[i]
      BY <1>5, <3>2
    <3>4. QED
      BY <2>1, <3>1, <3>2, <3>3 DEF LinesOf
  <2>4. QED
    BY <2>2, <2>3
<1>9. QED
  BY <1>3, <1>5, <1>7, <1>8

\* What a capture of a screen makes of it: the lines to store, of which none is
\* lost where the screen joins the one before, and then they follow it.
LEMMA CaptureTells ==
    ASSUME NEW before \in Lines \cup {Absent}, NEW now \in Lines, Increasing(now),
           before # Absent => Increasing(before),
           NEW output, output = NewOutput(before, now)
    PROVE  LET joins == before # Absent /\ Overlaps(before, now) # {} IN
           /\ output \in Lines /\ Increasing(output) /\ LinesOf(output) \subseteq LinesOf(now)
           /\ output # <<>> /\ joins =>
                 before # <<>> /\ \A x \in LinesOf(output) : before[Len(before)] < x
           /\ output # <<>> /\ ~joins => Len(output) <= FirstLines
           /\ output = <<>> \/ joins =>
                 LinesOf(now) \subseteq LinesOf(output) \cup (IF before = Absent THEN {} ELSE LinesOf(before))
<1> DEFINE joins == before # Absent /\ Overlaps(before, now) # {}
<1>0. DOMAIN now = 1 .. Len(now) /\ Len(now) \in Nat /\ <<>> \in Lines
  BY LenProperties, EmptySeq DEF Lines
<1>1. CASE before = now /\ output = <<>>
  <2>1. before # Absent
    BY <1>0, <1>1, WaitingAssumption
  <2>2. LinesOf(<<>>) = {} /\ Increasing(<<>>)
    BY DEF LinesOf, Increasing
  <2>3. QED
    BY <1>0, <1>1, <2>1, <2>2
<1>2. CASE /\ before # now /\ (before = Absent \/ Overlaps(before, now) = {})
           /\ output = Newest(FirstLines, now)
  <2> DEFINE k == HowMany(FirstLines, now)
  <2>1. /\ k \in Nat /\ k <= Len(now) /\ k <= FirstLines /\ (k = FirstLines \/ k = Len(now))
        /\ Len(now) - k \in Nat
        /\ output \in Lines /\ Len(output) = k
        /\ \A i \in 1 .. k : output[i] = now[(Len(now) - k) + i]
    BY <1>2, Sizes, NewestIsTail
  <2> HIDE DEF k
  <2>2. Len(now) - k \in Nat /\ Len(output) + (Len(now) - k) <= Len(now)
    <3>1. Len(now) \in Nat
      BY <1>0
    <3>2. QED
      BY <2>1, <3>1
  <2>3. LinesOf(output) \subseteq LinesOf(now) /\ Increasing(output)
    BY <2>1, <2>2, PartOfLines
  <2>4. ~joins
    BY <1>2
  <2>5. output = <<>> => LinesOf(now) = {}
    <3>1. SUFFICES ASSUME output = <<>> PROVE LinesOf(now) = {}
      OBVIOUS
    <3>2. k = 0
      BY <2>1, <3>1, EmptySeq
    <3>3. Len(now) = 0
      BY <2>1, <3>2, Sizes
    <3>4. QED
      BY <1>0, <3>3 DEF LinesOf
  <2>6. QED
    BY <2>1, <2>3, <2>4, <2>5
<1>3. ASSUME before \in Lines, NEW n \in Overlaps(before, now), output = SubSeq(now, 1 + n, Len(now))
      PROVE  /\ output \in Lines /\ Increasing(output) /\ LinesOf(output) \subseteq LinesOf(now)
             /\ before # <<>> /\ joins /\ \A x \in LinesOf(output) : before[Len(before)] < x
             /\ LinesOf(now) \subseteq LinesOf(output) \cup LinesOf(before)
             /\ before # Absent
  <2>1. /\ output \in Lines /\ n \in Nat /\ Len(output) + n = Len(now)
        /\ \A i \in 1 .. Len(output) : output[i] = now[n + i]
        /\ before # <<>> /\ n \in DOMAIN now /\ now[n] = before[Len(before)]
        /\ LinesOf(now) \subseteq LinesOf(before) \cup LinesOf(output)
    BY <1>3, AfterOverlap
  <2>2. LinesOf(output) \subseteq LinesOf(now) /\ Increasing(output)
    BY <1>0, <2>1, PartOfLines
  <2>3. DOMAIN output = 1 .. Len(output) /\ Len(output) \in Nat
    BY <2>1, LenProperties DEF Lines
  <2>4. ASSUME NEW x \in LinesOf(output) PROVE before[Len(before)] < x
    <3>1. PICK i \in DOMAIN output : x = output[i]
      BY DEF LinesOf
    <3>2. n < n + i /\ n + i \in DOMAIN now /\ x = now[n + i]
      BY <1>0, <2>1, <2>3, <3>1
    <3>3. QED
      BY <2>1, <3>2 DEF Increasing
  <2>5. before # Absent
    BY <1>3, WaitingAssumption
  <2>6. QED
    BY <1>3, <2>1, <2>2, <2>4, <2>5
<1>4. \/ before = now /\ output = <<>>
      \/ /\ before # now /\ (before = Absent \/ Overlaps(before, now) = {})
         /\ output = Newest(FirstLines, now)
      \/ /\ before \in Lines
         /\ \E n \in Overlaps(before, now) : output = SubSeq(now, 1 + n, Len(now))
  BY NewOutputTells
<1>5. QED
  BY <1>1, <1>2, <1>3, <1>4

\* What the monitor captures of a pane.
LEMMA ScreenOfPane ==
    ASSUME NEW seq \in Lines
    PROVE  LET screen == Newest(Window, seq)
           IN  /\ screen \in Lines /\ LinesOf(screen) \subseteq LinesOf(seq)
               /\ Increasing(seq) => Increasing(screen)
               /\ screen # <<>> => seq # <<>> /\ screen[Len(screen)] = seq[Len(seq)]
<1> DEFINE screen == Newest(Window, seq)
<1>0. Len(seq) \in Nat /\ Window \in Nat
  BY LenProperties, Sizes DEF Lines
<1> DEFINE k == HowMany(Window, seq)
<1>1. /\ k \in Nat /\ k <= Len(seq) /\ Len(seq) - k \in Nat
      /\ screen \in Lines /\ Len(screen) = k
      /\ \A i \in 1 .. k : screen[i] = seq[(Len(seq) - k) + i]
  BY <1>0, NewestIsTail
<1> HIDE DEF k
<1> HIDE DEF screen
<1>2. Len(seq) - k \in Nat /\ Len(screen) + (Len(seq) - k) <= Len(seq)
  BY <1>0, <1>1
<1>3. LinesOf(screen) \subseteq LinesOf(seq) /\ (Increasing(seq) => Increasing(screen))
  BY <1>1, <1>2, PartOfLines
<1>4. ASSUME screen # <<>> PROVE seq # <<>> /\ screen[Len(screen)] = seq[Len(seq)]
  <2>1. k \in Nat \ {0}
    BY <1>1, <1>4, EmptySeq DEF Lines
  <2>2. k \in 1 .. k /\ screen[k] = seq[(Len(seq) - k) + k] /\ (Len(seq) - k) + k = Len(seq)
    BY <1>0, <1>1, <2>1
  <2>3. Len(seq) # 0
    BY <1>0, <1>1, <2>1
  <2>4. QED
    BY <1>0, <1>1, <2>2, <2>3, EmptySeq
<1>5. QED
  BY <1>1, <1>3, <1>4 DEF screen

\* What the pane shows after a line was printed.
LEMMA PrintedPane ==
    ASSUME NEW seq \in Lines, NEW x \in 1 .. MaxLines,
           Increasing(seq), \A i \in DOMAIN seq : seq[i] < x,
           NEW new \in {Append(seq, x), <<x>>}
                       \cup {Append(SubSeq(seq, 1, Len(seq) - 1), x) : i \in DOMAIN seq}
    PROVE  /\ new \in Lines /\ Increasing(new)
           /\ \A i \in DOMAIN new : new[i] <= x
           /\ new # <<>> => new[Len(new)] = x
<1>0. DOMAIN seq = 1 .. Len(seq) /\ Len(seq) \in Nat /\ \A i \in 1 .. Len(seq) : seq[i] \in 1 .. MaxLines
  BY LenProperties, ElementOfSeq DEF Lines
<1>1. ASSUME NEW head \in Lines, Increasing(head), \A i \in DOMAIN head : head[i] < x
      PROVE  LET s == Append(head, x)
             IN  /\ s \in Lines /\ Increasing(s) /\ \A i \in DOMAIN s : s[i] <= x
                 /\ s[Len(s)] = x
  <2> DEFINE s == Append(head, x)
  <2>1. /\ s \in Lines /\ Len(s) = Len(head) + 1 /\ s[Len(head) + 1] = x
        /\ \A i \in 1 .. Len(head) : s[i] = head[i]
    BY AppendProperties DEF Lines
  <2>2. /\ DOMAIN s = 1 .. Len(s) /\ DOMAIN head = 1 .. Len(head) /\ Len(head) \in Nat
        /\ \A i \in 1 .. Len(head) : head[i] \in 1 .. MaxLines
    BY <2>1, LenProperties, ElementOfSeq DEF Lines
  <2> HIDE DEF s
  <2>3. \A i \in DOMAIN s : s[i] <= x
    <3>1. ASSUME NEW i \in DOMAIN s PROVE s[i] <= x
      <4>1. CASE i \in 1 .. Len(head)
        BY <1>1, <2>1, <2>2, <4>1
      <4>2. CASE i = Len(head) + 1
        BY <2>1, <4>2
      <4>3. QED
        BY <2>1, <2>2, <4>1, <4>2
    <3>2. QED
      BY <3>1
  <2>4. Increasing(s)
    <3>1. ASSUME NEW i \in DOMAIN s, NEW j \in DOMAIN s, i < j PROVE s[i] < s[j]
      <4>1. i \in 1 .. Len(head) /\ (j \in 1 .. Len(head) \/ j = Len(head) + 1)
        BY <2>1, <2>2, <3>1
      <4>2. s[i] = head[i] /\ head[i] < x
        BY <1>1, <2>1, <2>2, <4>1
      <4>3. CASE j \in 1 .. Len(head)
        BY <1>1, <2>1, <2>2, <3>1, <4>1, <4>2, <4>3 DEF Increasing
      <4>4. CASE j = Len(head) + 1
        BY <2>1, <4>2, <4>4
      <4>5. QED
        BY <4>1, <4>3, <4>4
    <3>2. QED
      BY <3>1 DEF Increasing
  <2>5. QED
    BY <2>1, <2>3, <2>4 DEF s
<1>2. CASE new = Append(seq, x)
  BY <1>1, <1>2
<1>3. CASE new = <<x>>
  <2>1. <<>> \in Lines /\ Increasing(<<>>) /\ DOMAIN <<>> = {}
    BY EmptySeq DEF Lines, Increasing
  <2>2. Append(<<>>, x) = <<x>>
    OBVIOUS
  <2>3. QED
    BY <1>1, <1>3, <2>1, <2>2
<1>4. CASE \E i \in DOMAIN seq : new = Append(SubSeq(seq, 1, Len(seq) - 1), x)
  <2> DEFINE head == SubSeq(seq, 1, Len(seq) - 1)
  <2>1. Len(seq) - 1 \in Nat /\ \A i \in 1 .. Len(seq) - 1 : seq[i] \in 1 .. MaxLines
    BY <1>0, <1>4
  <2>2. /\ head \in Lines /\ Len(head) = Len(seq) - 1
        /\ \A i \in 1 .. Len(seq) - 1 : head[i] = seq[i]
    <3> DEFINE e == Len(seq) - 1
    <3>1. e \in Nat /\ e <= Len(seq) /\ 1 <= e + 1 /\ e + 1 - 1 = Len(seq) - 1 /\ head = SubSeq(seq, 1, e)
      BY <1>0, <2>1
    <3> HIDE DEF e, head
    <3>2. /\ head \in Lines /\ Len(head) = e + 1 - 1
          /\ \A i \in 1 .. e + 1 - 1 : head[i] = seq[1 - 1 + i]
      BY <3>1, SomeLines
    <3>3. \A i \in 1 .. Len(seq) - 1 : 1 - 1 + i = i
      BY <2>1
    <3>4. QED
      BY <3>1, <3>2, <3>3
  <2> HIDE DEF head
  <2>3. DOMAIN head = 1 .. Len(head)
    BY <2>2, LenProperties DEF Lines
  <2>4. Increasing(head) /\ \A i \in DOMAIN head : head[i] < x
    <3>1. \A i \in DOMAIN head : i \in DOMAIN seq /\ head[i] = seq[i]
      BY <1>0, <2>1, <2>2, <2>3
    <3>2. QED
      BY <3>1 DEF Increasing
  <2>5. new = Append(head, x)
    BY <1>4 DEF head
  <2>6. QED
    BY <1>1, <2>2, <2>4, <2>5
<1>5. QED
  BY <1>2, <1>3, <1>4

\* A task at a step holds what that step needs.
LEMMA TaskOfPhase ==
    ASSUME TranscriptTypeOK
    PROVE  /\ Phased("monitor", "capture") <=> writer["monitor"] \in Looking
           /\ (\E p \in {"store", "tell", "prune", "upsert"} : Phased("monitor", p))
                 <=> writer["monitor"] \in Polling
           /\ (\E p \in {"store", "tell", "paste"} : Phased("input", p)) <=> writer["input"] \in Sending
           /\ ~Phased("input", "capture") /\ ~Phased("input", "prune") /\ ~Phased("input", "upsert")
           /\ ~Phased("monitor", "paste")
<1>1. /\ writer["monitor"] \in {Idle} \cup Looking \cup Polling
      /\ writer["input"] \in {Idle} \cup Sending
      /\ Idle \notin Looking /\ Idle \notin Polling /\ Idle \notin Sending
  BY WaitingAssumption DEF TranscriptTypeOK, Writer
<1>2. /\ \A task \in Looking : task.phase = "capture"
      /\ \A task \in Polling : task.phase \in {"store", "tell", "prune", "upsert"}
      /\ \A task \in Sending : task.phase \in {"store", "tell", "paste"}
  BY DEF Looking, Polling, Sending
<1>3. QED
  BY <1>1, <1>2 DEF Phased

\* No task is another.
LEMMA TasksDiffer ==
    /\ Idle \notin Looking /\ Idle \notin Polling /\ Idle \notin Sending /\ Idle \notin Request
    /\ Looking \cap Polling = {} /\ Polling \cap Sending = {} /\ Looking \cap Sending = {}
<1>1. /\ \A x \in Polling : x.row.direction = "out" /\ x.phase # "capture"
      /\ \A x \in Sending : x.row.direction # "out" /\ x.phase # "capture"
      /\ \A x \in Looking : x.phase = "capture"
  BY DEF Looking, Polling, Sending
<1>2. QED
  BY <1>1, WaitingAssumption

\* The row that a task stores and tells of.
LEMMA RowOfTask ==
    ASSUME TranscriptTypeOK
    PROVE  /\ writer["monitor"] \in Polling => writer["monitor"].row \in Row
                 /\ writer["monitor"].row.direction = "out" /\ writer["monitor"].row.lines \in Lines
           /\ writer["input"] \in Sending => writer["input"].row \in Row
                 /\ writer["input"].row.direction \in {"in", "system"}
<1>1. \A task \in Polling : task.row \in Row /\ task.row.direction = "out" /\ task.row.lines \in Lines
  BY DEF Polling, Row
<1>2. <<>> \in Lines
  BY EmptySeq DEF Lines
<1>3. \A task \in Sending : task.row \in Row /\ task.row.direction \in {"in", "system"}
  BY <1>2 DEF Sending, Row
<1>4. QED
  BY <1>1, <1>3

\* A step of one task that goes on keeps what it holds, and the other's.
LEMMA PollGoesOn ==
    ASSUME TranscriptTypeOK, writer["monitor"] \in Polling,
           NEW p \in {"store", "tell", "prune", "upsert"}, Enter("monitor", p)
    PROVE  /\ writer'["monitor"] \in Polling /\ writer'["monitor"].phase = p
           /\ writer'["monitor"].screen = writer["monitor"].screen
           /\ writer'["monitor"].row = writer["monitor"].row
           /\ writer'["input"] = writer["input"]
           /\ writer' \in [Writer -> {Idle} \cup Looking \cup Polling \cup Sending]
<1> DEFINE task == [writer["monitor"] EXCEPT !.phase = p]
<1>1. /\ task \in Polling /\ task.phase = p /\ task.screen = writer["monitor"].screen
      /\ task.row = writer["monitor"].row
  BY DEF Polling
<1>2. writer' = [writer EXCEPT !["monitor"] = task]
  BY DEF Enter
<1> HIDE DEF task
<1>3. QED
  BY <1>1, <1>2 DEF TranscriptTypeOK, Writer

LEMMA InputGoesOn ==
    ASSUME TranscriptTypeOK, writer["input"] \in Sending,
           NEW p \in {"store", "tell", "paste"}, Enter("input", p)
    PROVE  /\ writer'["input"] \in Sending /\ writer'["input"].phase = p
           /\ writer'["input"].copy = writer["input"].copy
           /\ writer'["input"].row = writer["input"].row
           /\ writer'["monitor"] = writer["monitor"]
           /\ writer' \in [Writer -> {Idle} \cup Looking \cup Polling \cup Sending]
<1> DEFINE task == [writer["input"] EXCEPT !.phase = p]
<1>1. /\ task \in Sending /\ task.phase = p /\ task.copy = writer["input"].copy
      /\ task.row = writer["input"].row
  BY DEF Sending
<1>2. writer' = [writer EXCEPT !["input"] = task]
  BY DEF Enter
<1> HIDE DEF task
<1>3. QED
  BY <1>1, <1>2 DEF TranscriptTypeOK, Writer

LEMMA TaskEnds ==
    ASSUME TranscriptTypeOK, NEW w \in Writer, Leave(w)
    PROVE  /\ writer'[w] = Idle /\ \A v \in Writer \ {w} : writer'[v] = writer[v]
           /\ writer' \in [Writer -> {Idle} \cup Looking \cup Polling \cup Sending]
BY DEF TranscriptTypeOK, Leave, Writer

\* The row that a look at the pane will be stored with has a time of its own.
LEMMA LookHolds ==
    ASSUME TranscriptTypeOK, Look
    PROVE  /\ writer'["monitor"] \in Looking /\ writer'["monitor"].known = recorded
           /\ writer'["monitor"].phase = "capture" /\ writer'["monitor"].ts = clock + 1
           /\ writer'["input"] = writer["input"]
           /\ clock' = clock + 1 /\ clock + 1 \in 1 .. MaxClock
           /\ writer' \in [Writer -> {Idle} \cup Looking \cup Polling \cup Sending]
<1> DEFINE task == [phase |-> "capture", known |-> recorded, ts |-> clock']
<1>1. clock' = clock + 1 /\ clock + 1 \in 1 .. MaxClock
  BY Sizes DEF TranscriptTypeOK, Look
<1>2. task \in Looking /\ task.known = recorded /\ task.phase = "capture" /\ task.ts = clock + 1
  BY <1>1 DEF Looking, TranscriptTypeOK
<1>3. writer' = [writer EXCEPT !["monitor"] = task]
  BY DEF Look
<1> HIDE DEF task
<1>4. QED
  BY <1>1, <1>2, <1>3 DEF TranscriptTypeOK, Writer

\* An input is stored with a time and a copy of its own.
LEMMA TakeHolds ==
    ASSUME TranscriptTypeOK, TakeInput
    PROVE  /\ writer'["input"] \in Sending /\ writer'["input"].copy = recorded
           /\ writer'["input"].phase = "store" /\ writer'["input"].row.ts = clock + 1
           /\ writer'["monitor"] = writer["monitor"]
           /\ clock' = clock + 1 /\ clock + 1 \in 1 .. MaxClock
           /\ writer' \in [Writer -> {Idle} \cup Looking \cup Polling \cup Sending]
<1> DEFINE task == [phase |-> "store", copy |-> recorded, row |-> Bare("in", clock')]
<1>1. clock' = clock + 1 /\ clock + 1 \in 1 .. MaxClock
  BY Sizes DEF TranscriptTypeOK, TakeInput
<1>2. recorded \in Lines
  BY DEF TranscriptTypeOK, TakeInput
<1>3. task \in Sending /\ task.copy = recorded /\ task.phase = "store" /\ task.row.ts = clock + 1
  BY <1>1, <1>2 DEF Sending, Bare
<1>4. writer' = [writer EXCEPT !["input"] = task]
  BY DEF TakeInput
<1> HIDE DEF task
<1>5. QED
  BY <1>1, <1>3, <1>4 DEF TranscriptTypeOK, Writer

\* An input that was not pasted complains with a time of its own.
LEMMA ComplaintHolds ==
    ASSUME TranscriptTypeOK, Pasted
    PROVE  /\ writer["input"] \in Sending /\ writer'["monitor"] = writer["monitor"]
           /\ writer' \in [Writer -> {Idle} \cup Looking \cup Polling \cup Sending]
           /\ \/ writer'["input"] = Idle /\ recorded' = writer["input"].copy /\ clock' = clock
              \/ /\ writer'["input"] \in Sending /\ writer'["input"].copy = writer["input"].copy
                 /\ writer'["input"].phase = "store" /\ writer'["input"].row.ts = clock + 1
                 /\ clock' = clock + 1 /\ clock + 1 \in 1 .. MaxClock /\ recorded' = recorded
<1>1. writer["input"] \in Sending
  BY TaskOfPhase DEF Pasted
<1>2. CASE Leave("input") /\ recorded' = writer["input"].copy /\ UNCHANGED clock
  BY <1>1, <1>2, TaskEnds DEF Writer
<1>3. CASE /\ clock < MaxClock /\ clock' = clock + 1
           /\ writer' = [writer EXCEPT !["input"].phase = "store",
                                       !["input"].row = Bare("system", clock')]
           /\ UNCHANGED recorded
  <2> DEFINE task == [writer["input"] EXCEPT !.phase = "store", !.row = Bare("system", clock')]
  <2>1. clock' = clock + 1 /\ clock + 1 \in 1 .. MaxClock
    BY <1>3, Sizes DEF TranscriptTypeOK
  <2>2. Bare("system", clock') \in
           [ts : 1 .. MaxClock, direction : {"in", "system"}, lines : {<<>>}, joins : {FALSE}]
        /\ Bare("system", clock').ts = clock + 1
    BY <2>1 DEF Bare
  <2>3. /\ task \in Sending /\ task.phase = "store" /\ task.copy = writer["input"].copy
        /\ task.row.ts = clock + 1
    BY <1>1, <2>2 DEF Sending
  <2>4. writer' = [writer EXCEPT !["input"] = task]
    BY <1>3 DEF TranscriptTypeOK, Writer
  <2> HIDE DEF task
  <2>5. QED
    BY <1>1, <1>3, <2>1, <2>3, <2>4 DEF TranscriptTypeOK, Writer
<1>4. QED
  BY <1>2, <1>3 DEF Pasted

\* A capture of the pane: the poll holds what it captured, and the row of what
\* is new on it if there is any.
LEMMA CaptureHolds ==
    ASSUME TranscriptTypeOK, Ordered, CaptureOutput
    PROVE  \E screen \in Lines, output \in Lines, joins \in BOOLEAN :
              /\ writer["monitor"] \in Looking
              /\ previous' = screen /\ writer'["monitor"] \in Polling
              /\ writer'["monitor"].screen = screen
              /\ writer'["monitor"].row.ts = writer["monitor"].ts
              /\ writer'["monitor"].row.lines = output /\ writer'["monitor"].row.joins = joins
              /\ writer'["monitor"].phase = IF output = <<>> THEN "upsert" ELSE "store"
              /\ writer'["input"] = writer["input"]
              /\ writer' \in [Writer -> {Idle} \cup Looking \cup Polling \cup Sending]
              /\ LinesOf(screen) \subseteq LinesOf(pane) /\ Increasing(screen)
              /\ screen # <<>> => screen[Len(screen)] = printed
              /\ LinesOf(output) \subseteq LinesOf(screen) /\ Increasing(output)
              /\ output # <<>> /\ joins =>
                    /\ previous # Absent /\ previous # <<>>
                    /\ \A x \in LinesOf(output) : previous[Len(previous)] < x
              /\ output # <<>> /\ ~joins => Len(output) <= FirstLines
              /\ missed' = missed \/ missed' = missed \cup (LinesOf(screen) \ LinesOf(output))
              /\ \/ writer["monitor"].known = screen
                 \/ LinesOf(screen) \subseteq
                       missed' \cup LinesOf(output)
                               \cup (IF previous = Absent THEN {} ELSE LinesOf(previous))
<1> DEFINE screen == Newest(Window, pane)
           known  == previous = Absent /\ writer["monitor"].known = screen
           output == IF known THEN <<>> ELSE NewOutput(previous, screen)
           joins  == previous # Absent /\ Overlaps(previous, screen) # {}
           row    == [ts |-> writer["monitor"].ts, direction |-> "out", lines |-> output, joins |-> joins]
           task   == [phase |-> IF output = <<>> THEN "upsert" ELSE "store", screen |-> screen, row |-> row]
<1>1. /\ previous' = screen
      /\ writer' = [writer EXCEPT !["monitor"] = task]
      /\ missed' = IF output = <<>> \/ joins THEN missed ELSE missed \cup (LinesOf(screen) \ LinesOf(output))
  BY DEF CaptureOutput
<1>2. writer["monitor"] \in Looking /\ writer["monitor"].ts \in 1 .. MaxClock
  BY TaskOfPhase DEF CaptureOutput, Looking
<1>3. pane \in Lines /\ previous \in Lines \cup {Absent} /\ Increasing(pane)
      /\ (previous # Absent => Increasing(previous)) /\ (pane # <<>> => pane[Len(pane)] = printed)
  BY DEF TranscriptTypeOK, Ordered
<1>4. /\ screen \in Lines /\ LinesOf(screen) \subseteq LinesOf(pane) /\ Increasing(screen)
      /\ screen # <<>> => screen[Len(screen)] = printed
  BY <1>3, ScreenOfPane
<1>5. /\ output \in Lines /\ LinesOf(output) \subseteq LinesOf(screen) /\ Increasing(output)
      /\ output # <<>> /\ joins =>
             /\ previous # Absent /\ previous # <<>>
             /\ \A x \in LinesOf(output) : previous[Len(previous)] < x
      /\ output # <<>> /\ ~joins => Len(output) <= FirstLines
      /\ \/ writer["monitor"].known = screen
         \/ output = <<>> \/ joins => LinesOf(screen) \subseteq LinesOf(output)
                       \cup (IF previous = Absent THEN {} ELSE LinesOf(previous))
  <2> HIDE DEF screen
  <2>1. CASE known
    <3>1. <<>> \in Lines /\ LinesOf(<<>>) = {} /\ Increasing(<<>>)
      BY EmptySeq DEF Lines, LinesOf, Increasing
    <3>2. QED
      BY <2>1, <3>1
  <2>2. CASE ~known
    <3>1. output = NewOutput(previous, screen)
      BY <2>2
    <3> HIDE DEF output, known
    <3>2. joins => previous # Absent
      OBVIOUS
    <3> HIDE DEF joins
    <3>3. /\ output \in Lines /\ Increasing(output) /\ LinesOf(output) \subseteq LinesOf(screen)
          /\ output # <<>> /\ joins =>
                 previous # <<>> /\ \A x \in LinesOf(output) : previous[Len(previous)] < x
          /\ output # <<>> /\ ~joins => Len(output) <= FirstLines
          /\ output = <<>> \/ joins =>
                LinesOf(screen) \subseteq
                   LinesOf(output) \cup (IF previous = Absent THEN {} ELSE LinesOf(previous))
      <4>1. /\ previous \in Lines \cup {Absent} /\ screen \in Lines /\ Increasing(screen)
            /\ previous # Absent => Increasing(previous)
        BY <1>3, <1>4
      <4>2. QED
        BY <3>1, <4>1, CaptureTells DEF joins
    <3>4. QED
      BY <3>2, <3>3
  <2>3. QED
    BY <2>1, <2>2
<1>6. joins \in BOOLEAN
  OBVIOUS
<1> HIDE DEF screen, output, joins
<1>7. /\ task \in Polling /\ task.screen = screen /\ task.row.ts = writer["monitor"].ts
      /\ task.row.lines = output /\ task.row.joins = joins
      /\ task.phase = IF output = <<>> THEN "upsert" ELSE "store"
  BY <1>2, <1>4, <1>5, <1>6 DEF Polling
<1> HIDE DEF task
<1>8. /\ writer'["monitor"] = task /\ writer'["input"] = writer["input"]
      /\ writer' \in [Writer -> {Idle} \cup Looking \cup Polling \cup Sending]
  BY <1>1, <1>7 DEF TranscriptTypeOK, Writer
<1>9. /\ missed' = missed \/ missed' = missed \cup (LinesOf(screen) \ LinesOf(output))
      /\ \/ writer["monitor"].known = screen
         \/ LinesOf(screen) \subseteq missed' \cup LinesOf(output)
                       \cup (IF previous = Absent THEN {} ELSE LinesOf(previous))
  BY <1>1, <1>5
<1>10. QED
  <2> USE <1>4, <1>5, <1>6
  <2> WITNESS screen \in Lines, output \in Lines, joins \in BOOLEAN
  <2> QED
    BY <1>1, <1>2, <1>4, <1>5, <1>7, <1>8, <1>9

LEMMA LinesAreNumbers == \A seq \in Lines : LinesOf(seq) \subseteq 1 .. MaxLines
<1>1. ASSUME NEW seq \in Seq(1 .. MaxLines), NEW i \in DOMAIN seq PROVE seq[i] \in 1 .. MaxLines
  BY LenProperties, ElementOfSeq
<1>2. QED
  BY <1>1 DEF Lines, LinesOf

\* How often a message adds the row of a time to what is shown.
LEMMA TimesShown == \A t, times : Cardinality({t} \cap times) = IF t \in times THEN 1 ELSE 0
<1>1. ASSUME NEW t, NEW times, t \in times PROVE Cardinality({t} \cap times) = 1
  <2>1. {t} \cap times = {t}
    BY <1>1
  <2>2. QED
    BY <2>1, FS_Singleton
<1>2. ASSUME NEW t, NEW times, t \notin times PROVE Cardinality({t} \cap times) = 0
  <2>1. {t} \cap times = {}
    BY <1>2
  <2>2. QED
    BY <2>1, FS_EmptySet
<1>3. QED
  BY <1>1, <1>2

\* Every step keeps the types.
LEMMA TranscriptTypeStep ==
    ASSUME TranscriptTypeOK, Timed, Ordered, Listed, Followed, [TranscriptNext]_transcriptVars
    PROVE  TranscriptTypeOK'
<1> USE DEF TranscriptTypeOK
<1>0. /\ writer["monitor"] \in {Idle} \cup Looking \cup Polling
      /\ Idle \notin Looking /\ Idle \notin Polling /\ Idle \notin Sending /\ Idle \notin Request
      /\ Polling \cap Sending = {} /\ Looking \cap Sending = {}
  BY TasksDiffer DEF Writer
<1>1. CASE PrintLine
  <2>1. printed' \in 1 .. MaxLines /\ printed' = printed + 1
    BY <1>1, Sizes DEF PrintLine
  <2>2. \A i \in DOMAIN pane : pane[i] < printed'
    <3>1. \A i \in DOMAIN pane : pane[i] <= printed /\ pane[i] \in 1 .. MaxLines
      BY LenProperties, ElementOfSeq DEF Ordered, Lines
    <3>2. QED
      BY <2>1, <3>1
  <2>3. pane' \in Lines
    <3>1. pane \in Lines /\ Increasing(pane)
      BY DEF Ordered
    <3>2. QED
      BY <1>1, <2>1, <2>2, <3>1, PrintedPane DEF PrintLine
  <2>4. QED
    BY <1>1, <2>1, <2>3 DEF PrintLine, tellings, limits
<1>2. CASE Look
  BY <1>0, <1>2, LookHolds DEF Look, tellings
<1>3. CASE CaptureOutput
  <2>1. PICK screen \in Lines, output \in Lines :
          /\ previous' = screen /\ writer'["monitor"] \in Polling
          /\ writer'["input"] = writer["input"]
          /\ writer' \in [Writer -> {Idle} \cup Looking \cup Polling \cup Sending]
          /\ missed' = missed \/ missed' = missed \cup (LinesOf(screen) \ LinesOf(output))
    BY <1>3, CaptureHolds
  <2>2. missed' \subseteq 1 .. MaxLines
    BY <2>1, LinesAreNumbers
  <2>3. QED
    BY <1>0, <1>3, <2>1, <2>2 DEF CaptureOutput, tellings, limits
<1>4. CASE Prune
  <2>1. /\ writer'["monitor"] \in Polling /\ writer'["input"] = writer["input"]
        /\ writer' \in [Writer -> {Idle} \cup Looking \cup Polling \cup Sending]
    BY <1>4, TaskOfPhase, PollGoesOn DEF Prune
  <2>2. pruned' \subseteq {r.ts : r \in rows'}
    BY <1>4 DEF Prune, Stored
  <2>3. QED
    BY <1>0, <1>4, <2>1, <2>2 DEF Prune, tellings, limits
<1>5. CASE RecordSnapshot
  <2>1. writer["monitor"] \in Polling /\ writer["monitor"].screen \in Lines
    BY <1>5, TaskOfPhase DEF RecordSnapshot, Polling
  <2>2. /\ writer'["monitor"] = Idle /\ writer'["input"] = writer["input"]
        /\ writer' \in [Writer -> {Idle} \cup Looking \cup Polling \cup Sending]
    BY <1>5, TaskEnds DEF RecordSnapshot, Writer
  <2>3. QED
    BY <1>0, <1>5, <2>1, <2>2 DEF RecordSnapshot, tellings, limits
<1>6. CASE TakeInput
  BY <1>0, <1>6, TakeHolds DEF TakeInput, tellings
<1>7. CASE Pasted
  <2>1. writer["input"].copy \in Lines
    BY <1>7, ComplaintHolds DEF Sending
  <2>2. QED
    BY <1>0, <1>7, <2>1, ComplaintHolds DEF Pasted, tellings
<1>8. ASSUME NEW w \in Writer, StoreRow(w) PROVE TranscriptTypeOK'
  <2>1. writer[w].row \in Row
    BY <1>8, TaskOfPhase, RowOfTask DEF StoreRow, Writer
  <2>2. /\ writer'["monitor"] \notin Sending /\ writer'["input"] \in {Idle} \cup Sending
        /\ writer' \in [Writer -> {Idle} \cup Looking \cup Polling \cup Sending]
    <3>1. CASE w = "monitor"
      BY <1>0, <1>8, <3>1, TaskOfPhase, PollGoesOn DEF StoreRow
    <3>2. CASE w = "input"
      BY <1>0, <1>8, <3>2, TaskOfPhase, InputGoesOn DEF StoreRow
    <3>3. QED
      BY <3>1, <3>2 DEF Writer
  <2>3. rows' \subseteq Row /\ rows \subseteq rows'
    BY <1>8, <2>1 DEF StoreRow
  <2>4. QED
    BY <1>8, <2>2, <2>3 DEF StoreRow, tellings, limits
<1>9. ASSUME NEW w \in Writer, TellRow(w) PROVE TranscriptTypeOK'
  <2>1. /\ writer'["monitor"] \notin Sending /\ writer'["input"] \in {Idle} \cup Sending
        /\ writer' \in [Writer -> {Idle} \cup Looking \cup Polling \cup Sending]
    <3>1. CASE w = "monitor"
      <4>1. writer["monitor"] \in Polling /\ writer["monitor"].row.direction = "out"
        BY <1>9, <3>1, TaskOfPhase, RowOfTask DEF TellRow
      <4>2. Enter("monitor", "prune")
        BY <1>9, <3>1, <4>1 DEF TellRow
      <4>3. QED
        BY <1>0, <4>1, <4>2, PollGoesOn
    <3>2. CASE w = "input" /\ Enter(w, "paste")
      BY <1>0, <1>9, <3>2, TaskOfPhase, InputGoesOn DEF TellRow
    <3>3. CASE w = "input" /\ Leave(w)
      BY <1>0, <3>3, TaskEnds DEF Writer
    <3>4. w = "input" => writer[w].row.direction \in {"in", "system"}
      BY <1>9, TaskOfPhase, RowOfTask DEF TellRow
    <3>5. QED
      BY <1>9, <3>1, <3>2, <3>3, <3>4 DEF TellRow, Writer
  <2>2. view' \in {Absent} \cup [1 .. MaxClock -> 0 .. 2]
    <3>1. writer[w].row \in rows /\ writer[w].row.ts \in 1 .. MaxClock
      BY <1>9 DEF TellRow, Timed, Row
    <3>2. CASE view = Absent
      BY <1>9, <3>2 DEF TellRow, Told
    <3>3. CASE view # Absent
      <4> DEFINE r == writer[w].row
      <4>1. view' = [t \in 1 .. MaxClock |-> view[t] + Cardinality({t} \cap {r.ts})]
        BY <1>9, <3>3 DEF TellRow, Told, Shown
      <4>2. \A t \in 1 .. MaxClock :
               Cardinality({t} \cap {r.ts}) = IF t = r.ts THEN 1 ELSE 0
        BY TimesShown
      <4>3. r \in Untold
        BY <1>9 DEF TellRow, Untold
      <4>4. view \in [1 .. MaxClock -> 0 .. 2] /\ view[r.ts] <= 1
        BY <3>1, <3>3, <4>3 DEF Followed
      <4> HIDE DEF r
      <4>5. \A t \in 1 .. MaxClock : view[t] + Cardinality({t} \cap {r.ts}) \in 0 .. 2
        BY <4>2, <4>4
      <4>6. QED
        BY <4>1, <4>5
    <3>4. QED
      BY <3>2, <3>3
  <2>3. QED
    BY <1>9, <2>1, <2>2 DEF TellRow, limits
<1>10. ASSUME NEW w \in Writer, TaskFails(w) PROVE TranscriptTypeOK'
  <2>1. /\ writer'["monitor"] \notin Sending /\ writer'["input"] \in {Idle} \cup Sending
        /\ writer' \in [Writer -> {Idle} \cup Looking \cup Polling \cup Sending]
    BY <1>0, <1>10, TaskEnds DEF TaskFails, Writer
  <2>2. missed' \subseteq 1 .. MaxLines
    BY <1>10, TaskOfPhase, RowOfTask, LinesAreNumbers DEF TaskFails
  <2>3. QED
    BY <1>10, <2>1, <2>2 DEF TaskFails, tellings
<1>11. CASE OpenTranscript
  BY <1>11 DEF OpenTranscript, Request
<1>12. CASE ListRows
  <2>1. request' \in Request
    BY <1>12 DEF ListRows, Request, NewestRows, Stored
  <2>2. QED
    BY <1>12, <2>1 DEF ListRows, limits
<1>13. CASE SendRows
  <2>1. overtaken' \subseteq rows /\ repeated' \subseteq rows
    BY <1>13 DEF SendRows, Listed
  <2>2. view' \in [1 .. MaxClock -> 0 .. 2]
    <3> DEFINE times == {r.ts : r \in request.listed}
    <3>1. view' = [t \in 1 .. MaxClock |-> 0 + Cardinality({t} \cap times)]
      BY <1>13 DEF SendRows, Told, Shown
    <3>2. \A t \in 1 .. MaxClock : Cardinality({t} \cap times) \in 0 .. 1
      BY TimesShown
    <3> HIDE DEF times
    <3>3. \A t \in 1 .. MaxClock : 0 + Cardinality({t} \cap times) \in 0 .. 2
      BY <3>2
    <3>4. QED
      BY <3>1, <3>3
  <2>3. QED
    BY <1>13, <2>1, <2>2 DEF SendRows, limits
<1>14. CASE RestartDaemon
  <2>1. missed' \subseteq 1 .. MaxLines
    BY <1>14, TaskOfPhase, RowOfTask, LinesAreNumbers DEF RestartDaemon
  <2>2. QED
    BY <1>0, <1>14, <2>1 DEF RestartDaemon, Writer
<1>15. CASE UNCHANGED transcriptVars
  BY <1>15 DEF transcriptVars, tellings, limits
<1>16. QED
  BY <1>1, <1>2, <1>3, <1>4, <1>5, <1>6, <1>7, <1>8, <1>9, <1>10, <1>11, <1>12, <1>13, <1>14, <1>15
     DEF TranscriptNext

\* Where no row is stored and no time taken, times stay apart.
LEMMA TimedUndisturbed ==
    ASSUME Timed, rows' = rows, clock' = clock,
           \A w \in Writer : \A t \in 1 .. MaxClock : Holds(w, t)' => Holds(w, t),
           \A w \in Writer : Phased(w, "tell")' => writer'[w].row \in rows
    PROVE  Timed'
<1>1. Out' = Out
  BY DEF Out
<1>2. \A w \in Writer : \A t \in 1 .. MaxClock :
         Holds(w, t)' => t <= clock' /\ \A r \in rows' : r.ts # t
  BY DEF Timed
<1>3. \A t \in 1 .. MaxClock : ~(Holds("monitor", t)' /\ Holds("input", t)')
  BY DEF Timed, Writer
<1>4. \A t \in 1 .. MaxClock : Holds("monitor", t)' => \A r \in Out' : r.ts < t
  BY <1>1 DEF Timed, Writer
<1>5. QED
  BY <1>2, <1>3, <1>4 DEF Timed

\* A task takes the next time.
LEMMA TimedTaken ==
    ASSUME TranscriptTypeOK, Timed, rows' = rows, clock' = clock + 1, NEW w \in Writer,
           \A t \in 1 .. MaxClock : Holds(w, t)' => t = clock + 1,
           \A v \in Writer \ {w} : \A t \in 1 .. MaxClock : Holds(v, t)' => Holds(v, t),
           \A v \in Writer : Phased(v, "tell")' => writer'[v].row \in rows
    PROVE  Timed'
<1>0. clock \in Nat /\ \A r \in rows : r.ts \in 1 .. MaxClock
  BY Sizes DEF TranscriptTypeOK, Row
<1>1. Out' = Out /\ Out \subseteq rows
  BY DEF Out
<1>2. \A v \in Writer : \A t \in 1 .. MaxClock : Holds(v, t)' => (v = w /\ t = clock + 1) \/ Holds(v, t)
  OBVIOUS
<1>3. ASSUME NEW v \in Writer, NEW t \in 1 .. MaxClock, Holds(v, t)'
      PROVE  t <= clock + 1 /\ \A r \in rows : r.ts # t
  BY <1>0, <1>2, <1>3 DEF Timed
<1>4. \A t \in 1 .. MaxClock : ~(Holds("monitor", t)' /\ Holds("input", t)')
  BY <1>0, <1>2 DEF Timed, Writer
<1>5. ASSUME NEW t \in 1 .. MaxClock, Holds("monitor", t)', NEW r \in Out PROVE r.ts < t
  <2>1. CASE t = clock + 1
    BY <1>0, <1>1, <2>1 DEF Timed
  <2>2. CASE Holds("monitor", t)
    BY <1>5, <2>2 DEF Timed
  <2>3. QED
    BY <1>2, <1>5, <2>1, <2>2 DEF Writer
<1>6. \A r \in rows : r.ts <= clock + 1
  BY <1>0 DEF Timed
<1>7. QED
  BY <1>1, <1>3, <1>4, <1>5, <1>6 DEF Timed

LEMMA TimedStep ==
    ASSUME TranscriptTypeOK, TranscriptTypeOK', Timed, Ordered, [TranscriptNext]_transcriptVars
    PROVE  Timed'
<1> USE DEF Holds, Writer
<1>0. /\ writer["monitor"] \in {Idle} \cup Looking \cup Polling
      /\ writer'["monitor"] \in {Idle} \cup Looking \cup Polling
      /\ writer["input"] \in {Idle} \cup Sending /\ writer'["input"] \in {Idle} \cup Sending
      /\ Idle \notin Looking /\ Idle \notin Polling /\ Idle \notin Sending
      /\ Looking \cap Polling = {} /\ Polling \cap Sending = {} /\ Looking \cap Sending = {}
  BY TasksDiffer DEF TranscriptTypeOK
<1>1. \A w \in Writer : Phased(w, "tell") => writer[w].row \in rows
  BY DEF Timed
<1>2. CASE UNCHANGED <<writer, rows, clock>>
  BY <1>1, <1>2, TimedUndisturbed DEF Phased
<1>3. CASE Look
  BY <1>0, <1>1, <1>3, LookHolds, TimedTaken DEF Look, Phased
<1>4. CASE CaptureOutput
  <2>1. /\ writer["monitor"] \in Looking /\ writer'["monitor"] \in Polling
        /\ writer'["monitor"].row.ts = writer["monitor"].ts
        /\ writer'["monitor"].phase \in {"upsert", "store"}
        /\ writer'["input"] = writer["input"]
    BY <1>4, CaptureHolds
  <2>2. rows' = rows /\ clock' = clock
    BY <1>4 DEF CaptureOutput, limits
  <2>3. QED
    BY <1>0, <1>1, <2>1, <2>2, TimedUndisturbed DEF Phased
<1>5. ASSUME NEW p \in {"prune", "upsert"}, writer["monitor"] \in Polling, Enter("monitor", p),
             rows' = rows, clock' = clock
      PROVE  Timed'
  <2>1. /\ writer'["monitor"] \in Polling /\ writer'["monitor"].phase = p
        /\ writer'["input"] = writer["input"]
    BY <1>5, PollGoesOn
  <2>2. QED
    BY <1>0, <1>1, <1>5, <2>1, TimedUndisturbed DEF Phased
<1>6. ASSUME NEW w \in Writer, Leave(w), rows' = rows, clock' = clock PROVE Timed'
  <2>1. writer'[w] = Idle /\ \A v \in Writer \ {w} : writer'[v] = writer[v]
    BY <1>6, TaskEnds
  <2>2. QED
    BY <1>0, <1>1, <1>6, <2>1, TimedUndisturbed DEF Phased
<1>7. CASE Prune
  BY <1>5, <1>7, TaskOfPhase DEF Prune, limits
<1>8. CASE RecordSnapshot
  BY <1>6, <1>8 DEF RecordSnapshot, limits
<1>9. CASE TakeInput
  BY <1>0, <1>1, <1>9, TakeHolds, TimedTaken DEF TakeInput, Phased
<1>10. CASE Pasted
  <2>1. rows' = rows
    BY <1>10 DEF Pasted
  <2>2. CASE writer'["input"] = Idle /\ clock' = clock /\ writer'["monitor"] = writer["monitor"]
    BY <1>0, <1>1, <2>1, <2>2, TimedUndisturbed DEF Phased
  <2>3. CASE /\ writer'["input"] \in Sending /\ writer'["input"].phase = "store"
             /\ writer'["input"].row.ts = clock + 1 /\ clock' = clock + 1
             /\ writer'["monitor"] = writer["monitor"]
    BY <1>0, <1>1, <2>1, <2>3, TimedTaken DEF Phased
  <2>4. QED
    BY <1>10, <2>2, <2>3, ComplaintHolds
<1>11. ASSUME NEW w \in Writer, StoreRow(w) PROVE Timed'
  <2> DEFINE r == writer[w].row
  <2>1. /\ writer[w] \in Polling \cup Sending /\ writer[w].phase = "store"
        /\ writer'[w] \in Polling \cup Sending /\ writer'[w].phase = "tell" /\ writer'[w].row = r
        /\ \A v \in Writer \ {w} : writer'[v] = writer[v]
        /\ w = "input" => r.direction # "out"
    <3>1. CASE w = "monitor"
      BY <1>11, <3>1, TaskOfPhase, PollGoesOn DEF StoreRow, Phased
    <3>2. CASE w = "input"
      BY <1>11, <3>2, TaskOfPhase, InputGoesOn, RowOfTask DEF StoreRow, Phased
    <3>3. QED
      BY <3>1, <3>2
  <2>2. r.ts \in 1 .. MaxClock
    BY <2>1 DEF Polling, Sending
  <2>3. /\ rows' = rows \cup {r} /\ clock' = clock
        /\ Holds(w, r.ts) /\ clock \in Nat
    BY <1>11, <2>1, Sizes DEF StoreRow, limits, TranscriptTypeOK
  <2> HIDE DEF r
  <2>4. r.ts <= clock /\ \A q \in rows : q.ts # r.ts
    BY <2>2, <2>3 DEF Timed
  <2>5. \A t \in 1 .. MaxClock : ~Holds(w, t)' /\ \A v \in Writer \ {w} : Holds(v, t)' <=> Holds(v, t)
    BY <1>0, <2>1
  <2>6. IsFiniteSet(rows') /\ (\A q \in rows' : q.ts <= clock')
           /\ \A q, s \in rows' : q.ts = s.ts => q = s
    <3>1. IsFiniteSet(rows')
      BY <2>3, FS_AddElement DEF Timed
    <3>2. QED
      BY <2>3, <2>4, <3>1 DEF Timed
  <2>7. ASSUME NEW v \in Writer, NEW t \in 1 .. MaxClock, Holds(v, t)'
        PROVE  t <= clock' /\ \A q \in rows' : q.ts # t
    <3>1. v # w /\ Holds(v, t)
      BY <2>5, <2>7
    <3>2. t # r.ts
      BY <2>2, <2>3, <3>1 DEF Timed
    <3>3. t <= clock /\ \A q \in rows : q.ts # t
      BY <3>1 DEF Timed
    <3>4. QED
      BY <2>3, <3>2, <3>3
  <2>8. \A t \in 1 .. MaxClock : ~(Holds("monitor", t)' /\ Holds("input", t)')
    BY <2>5
  <2>9. ASSUME NEW t \in 1 .. MaxClock, Holds("monitor", t)' PROVE \A q \in Out' : q.ts < t
    <3>1. w = "input" /\ Holds("monitor", t)
      BY <2>5, <2>9
    <3>2. Out' = Out
      BY <2>1, <2>3, <3>1 DEF Out
    <3>3. QED
      BY <3>1, <3>2 DEF Timed
  <2>10. \A v \in Writer : Phased(v, "tell")' => writer'[v].row \in rows'
    BY <1>1, <2>1, <2>3 DEF Phased
  <2>11. QED
    BY <2>6, <2>7, <2>8, <2>9, <2>10 DEF Timed
<1>12. ASSUME NEW w \in Writer, TellRow(w) PROVE Timed'
  <2>1. rows' = rows /\ clock' = clock
    BY <1>12 DEF TellRow, limits
  <2>2. CASE w = "monitor"
    <3>1. writer["monitor"] \in Polling /\ writer["monitor"].row.direction = "out"
      BY <1>12, <2>2, TaskOfPhase, RowOfTask DEF TellRow
    <3>2. Enter("monitor", "prune")
      BY <1>12, <2>2, <3>1 DEF TellRow
    <3>3. QED
      BY <1>5, <2>1, <3>1, <3>2
  <2>3. CASE w = "input" /\ Leave(w)
    BY <1>6, <2>1, <2>3
  <2>4. CASE w = "input" /\ Enter(w, "paste")
    <3>1. /\ writer'["input"] \in Sending /\ writer'["input"].phase = "paste"
          /\ writer'["monitor"] = writer["monitor"]
      BY <1>12, <2>4, TaskOfPhase, InputGoesOn DEF TellRow
    <3>2. QED
      BY <1>0, <1>1, <2>1, <3>1, TimedUndisturbed DEF Phased
  <2>5. w = "input" => writer[w].row.direction \in {"in", "system"}
    BY <1>12, TaskOfPhase, RowOfTask DEF TellRow
  <2>6. QED
    BY <1>12, <2>2, <2>3, <2>4, <2>5 DEF TellRow
<1>13. ASSUME NEW w \in Writer, TaskFails(w) PROVE Timed'
  BY <1>6, <1>13 DEF TaskFails
<1>14. CASE RestartDaemon
  BY <1>0, <1>1, <1>14, TimedUndisturbed DEF RestartDaemon, Phased
<1>15. CASE PrintLine \/ OpenTranscript \/ ListRows \/ SendRows \/ UNCHANGED transcriptVars
  BY <1>2, <1>15 DEF PrintLine, OpenTranscript, ListRows, SendRows, transcriptVars, limits
<1>16. QED
  BY <1>3, <1>4, <1>7, <1>8, <1>9, <1>10, <1>11, <1>12, <1>13, <1>14, <1>15 DEF TranscriptNext

\* Only a capture makes a row.  Then it is stored, or what it has is missed.
LEMMA RowsTravel ==
    ASSUME TranscriptTypeOK, TranscriptTypeOK', [TranscriptNext]_transcriptVars, ~CaptureOutput
    PROVE  /\ Out \subseteq Out' /\ missed \subseteq missed'
           /\ Out' \cup Arriving' \subseteq Out \cup Arriving
           /\ \A r \in Arriving : r \in Out' \cup Arriving' \/ LinesOf(r.lines) \subseteq missed'
<1> USE DEF Writer
<1>0. /\ writer["monitor"] \in {Idle} \cup Looking \cup Polling
      /\ writer'["monitor"] \in {Idle} \cup Looking \cup Polling
      /\ Idle \notin Looking /\ Idle \notin Polling /\ Idle \notin Sending
      /\ Looking \cap Polling = {} /\ Polling \cap Sending = {} /\ Looking \cap Sending = {}
  BY TasksDiffer DEF TranscriptTypeOK
<1>1. ASSUME writer'["monitor"] = writer["monitor"], rows' = rows, missed' = missed
      PROVE  /\ Out' = Out /\ Arriving' = Arriving /\ missed' = missed
  BY <1>1 DEF Out, Arriving
<1>2. ASSUME Phased("monitor", "tell") \/ Phased("monitor", "prune") \/ Phased("monitor", "upsert")
                \/ writer["monitor"] = Idle,
             writer'["monitor"] \in {Idle} \cup Looking
                \/ (writer'["monitor"] \in Polling /\ writer'["monitor"].phase # "store"),
             rows' = rows, missed' = missed
      PROVE  Out' = Out /\ Arriving' = Arriving /\ Arriving = {}
  BY <1>0, <1>2 DEF Out, Arriving, Phased
<1>3. CASE PrintLine
  BY <1>1, <1>3 DEF PrintLine
<1>4. CASE Look
  BY <1>2, <1>4, LookHolds DEF Look
<1>5. CASE Prune
  <2>1. writer'["monitor"] \in Polling /\ writer'["monitor"].phase = "upsert"
    BY <1>5, TaskOfPhase, PollGoesOn DEF Prune
  <2>2. QED
    BY <1>2, <1>5, <2>1 DEF Prune
<1>6. CASE RecordSnapshot
  <2>1. writer'["monitor"] = Idle
    BY <1>6, TaskEnds DEF RecordSnapshot
  <2>2. QED
    BY <1>2, <1>6, <2>1 DEF RecordSnapshot
<1>7. CASE TakeInput
  BY <1>1, <1>7, TakeHolds DEF TakeInput
<1>8. CASE Pasted
  BY <1>1, <1>8, ComplaintHolds DEF Pasted
<1>9. CASE StoreRow("monitor")
  <2>1. /\ writer["monitor"] \in Polling /\ writer["monitor"].phase = "store"
        /\ writer["monitor"].row.direction = "out"
    BY <1>9, TaskOfPhase, RowOfTask DEF StoreRow, Phased
  <2>2. writer'["monitor"] \in Polling /\ writer'["monitor"].phase = "tell"
    BY <1>9, <2>1, PollGoesOn DEF StoreRow
  <2>3. rows' = rows \cup {writer["monitor"].row} /\ missed' = missed
    BY <1>9 DEF StoreRow
  <2>4. Arriving = {writer["monitor"].row} /\ Arriving' = {}
    BY <2>1, <2>2 DEF Arriving
  <2>5. Out' = Out \cup {writer["monitor"].row}
    BY <2>1, <2>3 DEF Out
  <2>6. QED
    BY <2>3, <2>4, <2>5
<1>10. CASE StoreRow("input")
  <2>1. /\ writer["input"].row.direction # "out" /\ writer'["monitor"] = writer["monitor"]
    BY <1>10, TaskOfPhase, RowOfTask, InputGoesOn DEF StoreRow
  <2>2. rows' = rows \cup {writer["input"].row} /\ missed' = missed
    BY <1>10 DEF StoreRow
  <2>3. Out' = Out /\ Arriving' = Arriving
    BY <2>1, <2>2 DEF Out, Arriving
  <2>4. QED
    BY <2>2, <2>3
<1>11. CASE TellRow("monitor")
  <2>1. writer'["monitor"] \in Polling /\ writer'["monitor"].phase = "prune"
    <3>1. writer["monitor"] \in Polling /\ writer["monitor"].row.direction = "out"
      BY <1>11, TaskOfPhase, RowOfTask DEF TellRow
    <3>2. Enter("monitor", "prune")
      BY <1>11, <3>1 DEF TellRow
    <3>3. QED
      BY <3>1, <3>2, PollGoesOn
  <2>2. QED
    BY <1>2, <1>11, <2>1 DEF TellRow
<1>12. CASE TellRow("input")
  <2>1. writer'["monitor"] = writer["monitor"]
    <3>1. writer["input"].row.direction \in {"in", "system"}
      BY <1>12, TaskOfPhase, RowOfTask DEF TellRow
    <3>2. Enter("input", "paste") \/ Leave("input")
      BY <1>12, <3>1 DEF TellRow
    <3>3. QED
      BY <1>12, <3>2, TaskOfPhase, InputGoesOn, TaskEnds DEF TellRow
  <2>2. QED
    BY <1>1, <1>12, <2>1 DEF TellRow
<1>13. CASE TaskFails("monitor")
  <2>1. writer'["monitor"] = Idle /\ rows' = rows
    BY <1>13, TaskEnds DEF TaskFails
  <2>2. Out' = Out /\ Arriving' = {}
    BY <1>0, <2>1 DEF Out, Arriving
  <2>3. \A r \in Arriving : LinesOf(r.lines) \subseteq missed'
    BY <1>0, <1>13 DEF TaskFails, Arriving, Phased
  <2>4. missed \subseteq missed'
    BY <1>13 DEF TaskFails
  <2>5. QED
    BY <2>2, <2>3, <2>4
<1>14. CASE TaskFails("input")
  BY <1>1, <1>14, TaskEnds DEF TaskFails
<1>15. CASE RestartDaemon
  <2>1. writer'["monitor"] = Idle /\ rows' = rows
    BY <1>15 DEF RestartDaemon
  <2>2. Out' = Out /\ Arriving' = {}
    BY <1>0, <2>1 DEF Out, Arriving
  <2>3. \A r \in Arriving : LinesOf(r.lines) \subseteq missed'
    BY <1>0, <1>15 DEF RestartDaemon, Arriving, Phased
  <2>4. missed \subseteq missed'
    BY <1>15 DEF RestartDaemon
  <2>5. QED
    BY <2>2, <2>3, <2>4
<1>16. CASE OpenTranscript \/ ListRows \/ SendRows \/ UNCHANGED transcriptVars
  BY <1>1, <1>16 DEF OpenTranscript, ListRows, SendRows, transcriptVars
<1>17. QED
  BY <1>3, <1>4, <1>5, <1>6, <1>7, <1>8, <1>9, <1>10, <1>11, <1>12, <1>13, <1>14, <1>15, <1>16
     DEF TranscriptNext

\* Where no row comes and no line is printed, lines stay in order.
LEMMA OrderedUndisturbed ==
    ASSUME Ordered, pane' = pane, printed' = printed, previous' \in {previous, Absent},
           Out' \cup Arriving' \subseteq Out \cup Arriving
    PROVE  Ordered'
<1>1. previous' # Absent => previous # Absent /\ previous' = previous
  OBVIOUS
<1>2. QED
  BY <1>1 DEF Ordered

LEMMA OrderedStep ==
    ASSUME TranscriptTypeOK, TranscriptTypeOK', Timed, Ordered, [TranscriptNext]_transcriptVars
    PROVE  Ordered'
<1>1. CASE PrintLine
  <2>0. /\ pane \in Lines /\ printed \in 0 .. MaxLines /\ previous \in Lines \cup {Absent}
        /\ \A r \in Out \cup Arriving : \A x \in LinesOf(r.lines) : x \in 1 .. MaxLines
    <3>1. Out \subseteq Row /\ Arriving \subseteq Row
      BY RowOfTask DEF TranscriptTypeOK, Out, Arriving
    <3>2. \A r \in Row : LinesOf(r.lines) \subseteq 1 .. MaxLines
      BY LinesAreNumbers DEF Row
    <3>3. QED
      BY <3>1, <3>2 DEF TranscriptTypeOK
  <2>1. printed' \in 1 .. MaxLines /\ printed' = printed + 1
    BY <1>1, <2>0, Sizes DEF PrintLine
  <2>2. \A i \in DOMAIN pane : pane[i] < printed'
    <3>1. \A i \in DOMAIN pane : pane[i] <= printed /\ pane[i] \in 1 .. MaxLines
      BY <2>0, LenProperties, ElementOfSeq DEF Ordered, Lines
    <3>2. QED
      BY <2>0, <2>1, <3>1
  <2>3. /\ Increasing(pane') /\ (\A i \in DOMAIN pane' : pane'[i] <= printed')
        /\ pane' # <<>> => pane'[Len(pane')] = printed'
    <3>1. pane \in Lines /\ Increasing(pane)
      BY <2>0 DEF Ordered
    <3>2. QED
      BY <1>1, <2>1, <2>2, <3>1, PrintedPane DEF PrintLine
  <2>4. previous # Absent => \A i \in DOMAIN previous : previous[i] <= printed'
    <3>1. previous # Absent => \A i \in DOMAIN previous : previous[i] <= printed /\ previous[i] \in 1 .. MaxLines
      BY <2>0, LenProperties, ElementOfSeq DEF Ordered, Lines
    <3>2. QED
      BY <2>0, <2>1, <3>1
  <2>5. \A r \in Out \cup Arriving : \A x \in LinesOf(r.lines) : x <= printed'
    <3>1. \A r \in Out \cup Arriving : \A x \in LinesOf(r.lines) : x <= printed
      BY DEF Ordered
    <3>2. ASSUME NEW r \in Out \cup Arriving, NEW x \in LinesOf(r.lines) PROVE x <= printed'
      <4>1. x \in 1 .. MaxLines /\ x <= printed /\ printed \in 0 .. MaxLines
        BY <2>0, <3>1
      <4>2. QED
        BY <2>1, <4>1
    <3>3. QED
      BY <3>2
  <2>6. Out' = Out /\ Arriving' = Arriving /\ previous' = previous
    BY <1>1 DEF PrintLine, Out, Arriving
  <2>7. QED
    BY <2>3, <2>4, <2>5, <2>6 DEF Ordered
<1>2. CASE CaptureOutput
  <2>1. PICK screen \in Lines, output \in Lines, joins \in BOOLEAN :
              /\ writer["monitor"] \in Looking
              /\ previous' = screen /\ writer'["monitor"] \in Polling
              /\ writer'["monitor"].row.ts = writer["monitor"].ts
              /\ writer'["monitor"].row.lines = output /\ writer'["monitor"].row.joins = joins
              /\ writer'["monitor"].phase = IF output = <<>> THEN "upsert" ELSE "store"
              /\ LinesOf(screen) \subseteq LinesOf(pane) /\ Increasing(screen)
              /\ screen # <<>> => screen[Len(screen)] = printed
              /\ LinesOf(output) \subseteq LinesOf(screen) /\ Increasing(output)
              /\ output # <<>> /\ joins =>
                    /\ previous # Absent /\ previous # <<>>
                    /\ \A x \in LinesOf(output) : previous[Len(previous)] < x
              /\ output # <<>> /\ ~joins => Len(output) <= FirstLines
    BY <1>2, CaptureHolds
  <2> DEFINE row == writer'["monitor"].row
  <2>2. /\ Arriving = {} /\ Arriving' = (IF output = <<>> THEN {} ELSE {row})
        /\ Out' = Out /\ pane' = pane /\ printed' = printed
    BY <1>2, <2>1, TasksDiffer DEF Arriving, Out, CaptureOutput
  <2>3. row.ts \in 1 .. MaxClock /\ \A r \in Out : r.ts \in 1 .. MaxClock /\ r.ts < row.ts
    <3>1. Holds("monitor", row.ts) /\ row.ts \in 1 .. MaxClock
      BY <2>1 DEF Holds, Looking
    <3>2. QED
      BY <3>1 DEF Timed, Out, TranscriptTypeOK, Row
  <2>4. row.lines = output /\ row.joins = joins
    BY <2>1
  <2> HIDE DEF row
  <2>5. \A i \in DOMAIN pane : pane[i] <= printed
    BY DEF Ordered
  <2>6. \A x \in LinesOf(screen) : x <= printed
    BY <2>1, <2>5 DEF LinesOf
  <2>7. \A r \in Out \cup {row} : \A x \in LinesOf(r.lines) : x <= printed
    BY <2>1, <2>4, <2>6 DEF Ordered
  <2>8. /\ Increasing(previous') /\ \A i \in DOMAIN previous' : previous'[i] <= printed
        /\ previous' # <<>> => \A r \in Out' \cup Arriving' : \A x \in LinesOf(r.lines) :
              x <= previous'[Len(previous')]
    BY <2>1, <2>2, <2>6, <2>7 DEF LinesOf
  <2>9. output # <<>> => \A r \in Out \cup {row} : Increasing(r.lines) /\ (~r.joins => Len(r.lines) <= FirstLines)
    BY <2>1, <2>4 DEF Ordered
  <2>10. ASSUME NEW r \in Out' \cup Arriving', NEW q \in Out' \cup Arriving', r.ts < q.ts, q.joins,
                NEW x \in LinesOf(r.lines), NEW y \in LinesOf(q.lines)
         PROVE  x < y
    <3>1. CASE r \in Out /\ q \in Out
      BY <2>10, <3>1 DEF Ordered
    <3>2. CASE r = row
      BY <2>2, <2>3, <2>10, <3>2
    <3>3. CASE r \in Out /\ q = row /\ output # <<>>
      <4>1. /\ previous # Absent /\ previous # <<>> /\ previous[Len(previous)] < y
        BY <2>1, <2>4, <2>10, <3>3
      <4>2. x <= previous[Len(previous)]
        BY <2>10, <3>3, <4>1 DEF Ordered
      <4>3. x \in 1 .. MaxLines /\ y \in 1 .. MaxLines
        <5>1. r.lines \in Lines
          BY <3>3 DEF Out, TranscriptTypeOK, Row
        <5>2. QED
          BY <2>1, <2>4, <2>10, <3>3, <5>1, LinesAreNumbers
      <4>4. previous[Len(previous)] \in 1 .. MaxLines
        <5>1. previous \in Lines /\ Len(previous) \in 1 .. Len(previous)
          BY <4>1, EmptySeq DEF TranscriptTypeOK, Lines
        <5>2. QED
          BY <5>1, ElementOfSeq DEF Lines
      <4>5. QED
        BY <4>1, <4>2, <4>3, <4>4
    <3>4. QED
      BY <2>2, <2>10, <3>1, <3>2, <3>3
  <2>11. QED
    BY <2>2, <2>7, <2>8, <2>9, <2>10 DEF Ordered
<1>3. CASE ~PrintLine /\ ~CaptureOutput
  <2>1. pane' = pane /\ printed' = printed /\ previous' \in {previous, Absent}
    BY <1>3 DEF TranscriptNext, Look, Prune, RecordSnapshot, TakeInput, Pasted, StoreRow, TellRow, TaskFails,
                OpenTranscript, ListRows, SendRows, RestartDaemon, transcriptVars
  <2>2. QED
    BY <1>3, <2>1, RowsTravel, OrderedUndisturbed
<1>4. QED
  BY <1>1, <1>2, <1>3

\* No step forgets a line.
LEMMA KnownGrows ==
    ASSUME TranscriptTypeOK, TranscriptTypeOK', [TranscriptNext]_transcriptVars, ~CaptureOutput
    PROVE  Known \subseteq Known' /\ KnownSoon \subseteq KnownSoon'
<1>1. /\ Out \subseteq Out' /\ missed \subseteq missed'
      /\ \A r \in Arriving : r \in Out' \cup Arriving' \/ LinesOf(r.lines) \subseteq missed'
  BY RowsTravel
<1>2. Known \subseteq Known'
  BY <1>1 DEF Known
<1>3. \A r \in Out \cup Arriving : r \in Out' \cup Arriving' \/ LinesOf(r.lines) \subseteq missed'
  BY <1>1
<1>4. ASSUME NEW x \in KnownSoon PROVE x \in KnownSoon'
  <2>1. CASE x \in missed
    BY <1>1, <2>1 DEF KnownSoon
  <2>2. ASSUME NEW r \in Out \cup Arriving, x \in LinesOf(r.lines) PROVE x \in KnownSoon'
    BY <1>3, <2>2 DEF KnownSoon
  <2>3. QED
    BY <1>4, <2>1, <2>2 DEF KnownSoon
<1>5. QED
  BY <1>2, <1>4

\* What is recorded, and what a task holds of the pane, comes from what was.
LEMMA SnapshotsTravel ==
    ASSUME TranscriptTypeOK, [TranscriptNext]_transcriptVars, ~CaptureOutput
    PROVE  /\ \/ recorded' = recorded
              \/ Phased("monitor", "upsert") /\ recorded' = writer["monitor"].screen
              \/ writer["input"] \in Sending /\ recorded' = writer["input"].copy
           /\ previous' \in {previous, Absent}
           /\ writer'["monitor"] \in Looking =>
                 writer'["monitor"].known = recorded \/ writer'["monitor"] = writer["monitor"]
           /\ writer'["monitor"] \in Polling =>
                 writer["monitor"] \in Polling /\ writer'["monitor"].screen = writer["monitor"].screen
           /\ writer'["input"] \in Sending =>
                 \/ writer'["input"].copy = recorded
                 \/ writer["input"] \in Sending /\ writer'["input"].copy = writer["input"].copy
<1> USE DEF Writer
<1>0. /\ Idle \notin Looking /\ Idle \notin Polling /\ Idle \notin Sending /\ Looking \cap Polling = {}
  BY TasksDiffer
<1>1. CASE Look
  BY <1>0, <1>1, LookHolds DEF Look
<1>2. CASE Prune
  BY <1>0, <1>2, TaskOfPhase, PollGoesOn DEF Prune
<1>3. CASE RecordSnapshot
  BY <1>0, <1>3, TaskEnds DEF RecordSnapshot
<1>4. CASE TakeInput
  BY <1>0, <1>4, TakeHolds DEF TakeInput
<1>5. CASE Pasted
  BY <1>0, <1>5, ComplaintHolds DEF Pasted
<1>6. CASE StoreRow("monitor")
  BY <1>0, <1>6, TaskOfPhase, PollGoesOn DEF StoreRow
<1>7. CASE StoreRow("input")
  BY <1>0, <1>7, TaskOfPhase, InputGoesOn DEF StoreRow
<1>8. CASE TellRow("monitor")
  <2>1. writer["monitor"] \in Polling /\ writer["monitor"].row.direction = "out"
    BY <1>8, TaskOfPhase, RowOfTask DEF TellRow
  <2>2. Enter("monitor", "prune") /\ recorded' = recorded /\ previous' = previous
    BY <1>8, <2>1 DEF TellRow
  <2>3. QED
    BY <1>0, <2>1, <2>2, PollGoesOn
<1>9. CASE TellRow("input")
  <2>1. writer["input"] \in Sending /\ writer["input"].row.direction \in {"in", "system"}
    BY <1>9, TaskOfPhase, RowOfTask DEF TellRow
  <2>2. (Enter("input", "paste") \/ Leave("input")) /\ recorded' = recorded /\ previous' = previous
    BY <1>9, <2>1 DEF TellRow
  <2>3. CASE Enter("input", "paste")
    BY <1>0, <2>1, <2>2, <2>3, InputGoesOn
  <2>4. CASE Leave("input")
    BY <1>0, <2>1, <2>2, <2>4, TaskEnds
  <2>5. QED
    BY <2>2, <2>3, <2>4
<1>10. ASSUME NEW w \in Writer, TaskFails(w) PROVE
           /\ recorded' = recorded /\ previous' = previous
           /\ writer'[w] = Idle /\ \A v \in Writer \ {w} : writer'[v] = writer[v]
  BY <1>10, TaskEnds DEF TaskFails
<1>11. CASE \E w \in Writer : TaskFails(w)
  BY <1>0, <1>10, <1>11
<1>12. CASE RestartDaemon
  BY <1>0, <1>12 DEF RestartDaemon
<1>13. CASE PrintLine \/ OpenTranscript \/ ListRows \/ SendRows \/ UNCHANGED transcriptVars
  BY <1>13 DEF PrintLine, OpenTranscript, ListRows, SendRows, transcriptVars
<1>14. QED
  BY <1>1, <1>2, <1>3, <1>4, <1>5, <1>6, <1>7, <1>8, <1>9, <1>11, <1>12, <1>13 DEF TranscriptNext

LEMMA AccountedStep ==
    ASSUME TranscriptTypeOK, TranscriptTypeOK', Ordered, Accounted, [TranscriptNext]_transcriptVars
    PROVE  Accounted'
<1>1. CASE CaptureOutput
  <2>1. PICK screen \in Lines, output \in Lines, joins \in BOOLEAN :
              /\ writer["monitor"] \in Looking
              /\ previous' = screen /\ writer'["monitor"] \in Polling
              /\ writer'["monitor"].screen = screen
              /\ writer'["monitor"].row.lines = output
              /\ writer'["monitor"].phase = IF output = <<>> THEN "upsert" ELSE "store"
              /\ writer'["input"] = writer["input"]
              /\ missed' = missed \/ missed' = missed \cup (LinesOf(screen) \ LinesOf(output))
              /\ \/ writer["monitor"].known = screen
                 \/ LinesOf(screen) \subseteq
                       missed' \cup LinesOf(output)
                               \cup (IF previous = Absent THEN {} ELSE LinesOf(previous))
    BY <1>1, CaptureHolds
  <2>2. Arriving = {} /\ Out' = Out /\ recorded' = recorded /\ missed \subseteq missed'
    BY <1>1, <2>1, TasksDiffer DEF Arriving, Out, CaptureOutput
  <2>3. KnownSoon = Known /\ Known \subseteq Known' /\ Known' \subseteq KnownSoon' /\ missed' \subseteq KnownSoon'
    BY <2>2 DEF Known, KnownSoon
  <2>4. LinesOf(output) \subseteq KnownSoon'
    <3>1. CASE output = <<>>
      BY <3>1 DEF LinesOf
    <3>2. CASE output # <<>>
      <4>1. Arriving' = {writer'["monitor"].row}
        BY <2>1, <3>2 DEF Arriving
      <4>2. QED
        BY <2>1, <4>1 DEF KnownSoon
    <3>3. QED
      BY <3>1, <3>2
  <2>5. LinesOf(screen) \subseteq KnownSoon'
    <3>1. CASE writer["monitor"].known = screen
      <4>1. screen # Absent /\ Kept(writer["monitor"].known)
        BY <2>1, WaitingAssumption DEF Accounted
      <4>2. QED
        BY <2>3, <3>1, <4>1 DEF Kept
    <3>2. CASE LinesOf(screen) \subseteq
                  missed' \cup LinesOf(output) \cup (IF previous = Absent THEN {} ELSE LinesOf(previous))
      <4>1. previous # Absent => LinesOf(previous) \subseteq KnownSoon'
        BY <2>3 DEF Accounted, KeptSoon
      <4>2. QED
        BY <2>3, <2>4, <3>2, <4>1
    <3>3. QED
      BY <2>1, <3>1, <3>2
  <2>6. writer'["monitor"] \notin Looking
    BY <2>1, TasksDiffer
  <2>7. Kept(recorded)' /\ KeptSoon(previous)' /\ KeptSoon(writer["monitor"].screen)'
    BY <2>1, <2>2, <2>3, <2>5 DEF Accounted, Kept, KeptSoon
  <2>8. writer'["input"] \in Sending => Kept(writer["input"].copy)'
    BY <2>1, <2>3 DEF Accounted, Kept
  <2>9. QED
    BY <2>6, <2>7, <2>8 DEF Accounted
<1>2. CASE ~CaptureOutput
  <2>1. Known \subseteq Known' /\ KnownSoon \subseteq KnownSoon'
    BY <1>2, KnownGrows
  <2>2. Phased("monitor", "upsert") => KnownSoon = Known /\ writer["monitor"] \in Polling
    <3>1. SUFFICES ASSUME Phased("monitor", "upsert") PROVE KnownSoon = Known /\ writer["monitor"] \in Polling
      OBVIOUS
    <3>2. writer["monitor"] \in Polling /\ writer["monitor"].phase = "upsert"
      BY <3>1, TaskOfPhase DEF Phased
    <3>3. Arriving = {}
      BY <3>2 DEF Arriving
    <3>4. QED
      BY <3>2, <3>3 DEF Known, KnownSoon
  <2>3. Kept(recorded)'
    BY <1>2, <2>1, <2>2, SnapshotsTravel DEF Accounted, Kept, KeptSoon
  <2>4. KeptSoon(previous)'
    BY <1>2, <2>1, SnapshotsTravel DEF Accounted, KeptSoon
  <2>5. writer'["monitor"] \in Looking => Kept(writer["monitor"].known)'
    BY <1>2, <2>1, SnapshotsTravel DEF Accounted, Kept
  <2>6. writer'["monitor"] \in Polling => KeptSoon(writer["monitor"].screen)'
    BY <1>2, <2>1, SnapshotsTravel DEF Accounted, KeptSoon
  <2>7. writer'["input"] \in Sending => Kept(writer["input"].copy)'
    BY <1>2, <2>1, SnapshotsTravel DEF Accounted, Kept
  <2>8. QED
    BY <2>3, <2>4, <2>5, <2>6, <2>7 DEF Accounted
<1>3. QED
  BY <1>1, <1>2

\* The newest of more rows, where they were there before, were the newest then.
LEMMA NewestOfMore ==
    ASSUME NEW more, IsFiniteSet(more), NEW some \in SUBSET more, NEW n \in Nat,
           NEW r \in NewestRows(n, more), r \in some
    PROVE  r \in NewestRows(n, some)
<1> DEFINE A == {q \in some : q.ts > r.ts}
           B == {q \in more : q.ts > r.ts}
<1>1. IsFiniteSet(B) /\ A \subseteq B
  BY FS_Subset
<1>2. IsFiniteSet(A) /\ Cardinality(A) <= Cardinality(B)
  BY <1>1, FS_Subset
<1>3. Cardinality(A) \in Nat /\ Cardinality(B) \in Nat
  BY <1>1, <1>2, FS_CardinalityType
<1>4. Cardinality(B) < n
  BY DEF NewestRows
<1>5. Cardinality(A) < n
  BY <1>2, <1>3, <1>4
<1>6. QED
  BY <1>5 DEF NewestRows

\* So they were when all but the newest are deleted: no row is newer than one
\* that stays and goes.
LEMMA NewestOfNewest ==
    ASSUME NEW some \in SUBSET Row, IsFiniteSet(some), NEW n \in Nat, NEW k \in Nat,
           NEW r \in NewestRows(n, NewestRows(k, some))
    PROVE  r \in NewestRows(n, some)
<1>1. r \in NewestRows(k, some) /\ NewestRows(k, some) \subseteq some
  BY DEF NewestRows
<1> DEFINE Newer(p) == {q \in some : q.ts > p.ts}
<1>2. \A p \in some : p.ts \in 1 .. MaxClock
  BY DEF Row
<1>3. Cardinality(Newer(r)) < k
  BY <1>1 DEF NewestRows
<1>4. ASSUME NEW q \in Newer(r) PROVE q \in NewestRows(k, some)
  <2>1. q \in some /\ q.ts > r.ts
    OBVIOUS
  <2>2. Newer(q) \subseteq Newer(r) /\ IsFiniteSet(Newer(r))
    BY <1>1, <1>2, <2>1, Sizes, FS_Subset
  <2> HIDE DEF Newer
  <2>3. IsFiniteSet(Newer(q)) /\ Cardinality(Newer(q)) <= Cardinality(Newer(r))
    BY <2>2, FS_Subset
  <2>4. Cardinality(Newer(q)) \in Nat /\ Cardinality(Newer(r)) \in Nat
    BY <2>2, <2>3, FS_CardinalityType
  <2>5. Cardinality(Newer(q)) < k
    BY <1>3, <2>3, <2>4
  <2>6. QED
    BY <2>1, <2>5 DEF NewestRows, Newer
<1>5. Newer(r) = {q \in NewestRows(k, some) : q.ts > r.ts}
  BY <1>1, <1>4
<1>6. Cardinality({q \in NewestRows(k, some) : q.ts > r.ts}) < n
  BY DEF NewestRows
<1>7. QED
  BY <1>1, <1>5, <1>6 DEF NewestRows

\* No step makes a row one of the newest again.
LEMMA NewestStay ==
    ASSUME TranscriptTypeOK, Timed, Timed', [TranscriptNext]_transcriptVars
    PROVE  \A r \in NewestRows(Limit, Stored)' : r \in rows => r \in NewestRows(Limit, Stored)
<1>0. /\ Limit \in Nat /\ Keep \in Nat /\ rows \subseteq Row /\ IsFiniteSet(rows) /\ IsFiniteSet(rows')
      /\ Stored \subseteq rows /\ Stored' \subseteq rows'
  BY Sizes DEF TranscriptTypeOK, Timed, Stored
<1>1. IsFiniteSet(Stored) /\ IsFiniteSet(Stored')
  BY <1>0, FS_Subset
<1>2. CASE Prune
  <2> DEFINE kept == NewestRows(Keep, Stored)
  <2>1. rows' = rows /\ pruned' = pruned \cup {r.ts : r \in Stored \ kept}
    BY <1>2 DEF Prune
  <2>2. \A r, q \in rows : r.ts = q.ts => r = q
    BY DEF Timed
  <2>3. kept \subseteq Stored
    BY DEF NewestRows
  <2>4. Stored' = kept
    BY <1>0, <2>1, <2>2, <2>3 DEF Stored
  <2> HIDE DEF kept
  <2>5. (NewestRows(Limit, Stored))' = NewestRows(Limit, kept)
    BY <2>4 DEF NewestRows
  <2>6. \A r \in NewestRows(Limit, kept) : r \in NewestRows(Limit, Stored)
    BY <1>0, <1>1, NewestOfNewest DEF kept
  <2>7. QED
    BY <2>5, <2>6
<1>3. CASE ~Prune
  <2>1. rows \subseteq rows' /\ pruned' = pruned
    BY <1>3 DEF TranscriptNext, PrintLine, Look, CaptureOutput, RecordSnapshot, TakeInput, Pasted, StoreRow,
                TellRow, TaskFails, OpenTranscript, ListRows, SendRows, RestartDaemon, transcriptVars
  <2>2. Stored \subseteq Stored' /\ \A r \in Stored' : r \in rows => r \in Stored
    BY <2>1 DEF Stored
  <2>3. (NewestRows(Limit, Stored))' = NewestRows(Limit, Stored')
    BY DEF NewestRows
  <2>4. ASSUME NEW r \in NewestRows(Limit, Stored'), r \in rows PROVE r \in NewestRows(Limit, Stored)
    <3>1. r \in Stored
      BY <2>2, <2>4 DEF NewestRows
    <3>2. QED
      BY <1>0, <1>1, <2>2, <2>4, <3>1, NewestOfMore
  <2>5. QED
    BY <2>3, <2>4
<1>4. QED
  BY <1>2, <1>3

LEMMA ListedStep ==
    ASSUME TranscriptTypeOK, Timed, Timed', Listed, [TranscriptNext]_transcriptVars
    PROVE  Listed'
<1>1. rows \subseteq rows'
  BY DEF TranscriptNext, PrintLine, Look, CaptureOutput, Prune, RecordSnapshot, TakeInput, Pasted, StoreRow,
         TellRow, TaskFails, OpenTranscript, ListRows, SendRows, RestartDaemon, transcriptVars
<1>2. CASE request' = request
  <2>1. SUFFICES ASSUME request # Idle, request.phase = "listed"
                 PROVE  /\ request.then \subseteq rows' /\ request.listed \subseteq request.then
                        /\ request.then \cap (NewestRows(Limit, Stored))' \subseteq request.listed
    BY <1>2 DEF Listed
  <2>2. /\ request.then \subseteq rows /\ request.listed \subseteq request.then
        /\ request.then \cap NewestRows(Limit, Stored) \subseteq request.listed
    BY <2>1 DEF Listed
  <2>3. \A r \in (NewestRows(Limit, Stored))' : r \in rows => r \in NewestRows(Limit, Stored)
    BY NewestStay
  <2>4. QED
    BY <1>1, <2>2, <2>3
<1>3. CASE ListRows
  <2>1. /\ request'.then = rows /\ request'.listed = NewestRows(Limit, Stored)
        /\ rows' = rows /\ (NewestRows(Limit, Stored))' = NewestRows(Limit, Stored)
    BY <1>3 DEF ListRows, NewestRows, Stored
  <2>2. NewestRows(Limit, Stored) \subseteq rows
    BY DEF NewestRows, Stored
  <2>3. QED
    BY <2>1, <2>2 DEF Listed
<1>4. CASE OpenTranscript
  BY <1>4 DEF OpenTranscript, Listed
<1>5. CASE request' = Idle
  BY <1>5 DEF Listed
<1>6. ListRows \/ OpenTranscript \/ request' = Idle \/ request' = request
  BY DEF TranscriptNext, PrintLine, Look, CaptureOutput, Prune, RecordSnapshot, TakeInput, Pasted, StoreRow,
         TellRow, TaskFails, SendRows, RestartDaemon, transcriptVars, tellings
<1>7. QED
  BY <1>2, <1>3, <1>4, <1>5, <1>6

\* The rows of which clients have not been told: those of the tasks that are
\* about to.
LEMMA UntoldOf ==
    \A r : r \in Untold <=> \/ Phased("monitor", "tell") /\ r = writer["monitor"].row
                            \/ Phased("input", "tell") /\ r = writer["input"].row
BY DEF Untold, Writer

\* Where the client is told nothing, and no task stores or tells of a row, it
\* follows as it did.
LEMMA FollowedUndisturbed ==
    ASSUME TranscriptTypeOK, Timed, Timed', Followed, [TranscriptNext]_transcriptVars,
           view' = view, overtaken' = overtaken, repeated' = repeated, rows' = rows,
           \A w \in Writer : Phased(w, "tell")' <=> Phased(w, "tell"),
           \A w \in Writer : Phased(w, "tell") => writer'[w].row = writer[w].row
    PROVE  Followed'
<1>1. Untold' = Untold
  BY DEF Untold
<1>2. \A r : Shows(r)' = Shows(r)
  BY <1>1 DEF Shows
<1>3. NewestRows(Limit, Stored)' \subseteq NewestRows(Limit, Stored)
  <2>1. NewestRows(Limit, Stored)' \subseteq rows
    BY DEF NewestRows, Stored
  <2>2. QED
    BY <2>1, NewestStay
<1>4. QED
  BY <1>1, <1>2, <1>3 DEF Followed

\* A row that is stored is not shown yet.
LEMMA FollowedStored ==
    ASSUME TranscriptTypeOK, Timed, Timed', Followed, NEW w \in Writer, StoreRow(w)
    PROVE  Followed'
<1> DEFINE row == writer[w].row
<1>1. /\ rows' = rows \cup {row} /\ view' = view /\ overtaken' = overtaken /\ repeated' = repeated
  BY DEF StoreRow, tellings
<1>2. writer[w] \in Polling \cup Sending /\ writer[w].phase = "store" /\ row \in Row
  BY TaskOfPhase, RowOfTask DEF StoreRow, Phased, Writer
<1>3. row.ts \in 1 .. MaxClock /\ \A r \in rows : r.ts # row.ts
  BY <1>2 DEF Timed, Holds, Row
<1>4. Untold' = Untold \cup {row}
  <2>1. CASE w = "monitor"
    <3>1. /\ Phased("monitor", "tell")' /\ writer'["monitor"].row = row /\ writer'["input"] = writer["input"]
          /\ ~Phased("monitor", "tell")
      BY <2>1, TaskOfPhase, PollGoesOn, TasksDiffer DEF StoreRow, Phased
    <3>2. Phased("input", "tell")' <=> Phased("input", "tell")
      BY <3>1 DEF Phased
    <3>3. QED
      BY <3>1, <3>2 DEF Untold, Writer
  <2>2. CASE w = "input"
    <3>1. /\ Phased("input", "tell")' /\ writer'["input"].row = row /\ writer'["monitor"] = writer["monitor"]
          /\ ~Phased("input", "tell")
      BY <2>2, TaskOfPhase, InputGoesOn, TasksDiffer DEF StoreRow, Phased
    <3>2. Phased("monitor", "tell")' <=> Phased("monitor", "tell")
      BY <3>1 DEF Phased
    <3>3. QED
      BY <3>1, <3>2 DEF Untold, Writer
  <2>3. QED
    BY <2>1, <2>2 DEF Writer
<1> HIDE DEF row
<1>5. SUFFICES ASSUME view # Absent PROVE Followed'
  BY <1>1 DEF Followed
<1>6. /\ overtaken \cap Untold = {} /\ overtaken \cap repeated = {}
      /\ \A r \in NewestRows(Limit, Stored) : view[r.ts] = Shows(r)
      /\ \A r \in rows : view[r.ts] <= IF r \in Untold THEN 1 ELSE 2
      /\ \A t \in 1 .. MaxClock : view[t] > 0 => \E r \in rows : r.ts = t
      /\ view \in [1 .. MaxClock -> 0 .. 2]
  BY <1>5 DEF Followed, TranscriptTypeOK
<1>7. row \notin rows /\ row \notin overtaken /\ row \notin repeated
  BY <1>3 DEF TranscriptTypeOK
<1>8. view[row.ts] = 0
  <2>1. view[row.ts] \in 0 .. 2 /\ ~(view[row.ts] > 0)
    BY <1>3, <1>6
  <2>2. QED
    BY <2>1
<1>9. ASSUME NEW r \in (NewestRows(Limit, Stored))' PROVE view[r.ts] = Shows(r)'
  <2>1. CASE r = row
    BY <1>1, <1>4, <1>7, <1>8, <2>1 DEF Shows
  <2>2. CASE r # row
    <3>1. r \in rows
      BY <1>1, <1>9, <2>2 DEF NewestRows, Stored
    <3>2. r \in NewestRows(Limit, Stored)
      BY <1>9, <3>1, NewestStay DEF TranscriptNext
    <3>3. QED
      BY <1>1, <1>4, <1>6, <2>2, <3>2 DEF Shows
  <2>3. QED
    BY <2>1, <2>2
<1>10. overtaken \cap Untold' = {}
  BY <1>4, <1>6, <1>7
<1>11. \A r \in rows' : view[r.ts] <= IF r \in Untold' THEN 1 ELSE 2
  BY <1>1, <1>4, <1>6, <1>7, <1>8
<1>12. \A t \in 1 .. MaxClock : view[t] > 0 => \E r \in rows' : r.ts = t
  BY <1>1, <1>6
<1>13. QED
  BY <1>1, <1>6, <1>9, <1>10, <1>11, <1>12 DEF Followed

\* A row that the client is told of is shown once more.
LEMMA FollowedTold ==
    ASSUME TranscriptTypeOK, Timed, Timed', Followed, NEW w \in Writer, TellRow(w)
    PROVE  Followed'
<1> DEFINE row == writer[w].row
<1>1. /\ rows' = rows /\ overtaken' = overtaken /\ repeated' = repeated
      /\ Told([snapshot |-> FALSE, times |-> {row.ts}])
  BY DEF TellRow
<1>2. row \in rows /\ rows \subseteq Row /\ row \in Untold
  BY DEF TellRow, Timed, TranscriptTypeOK, Untold
<1>3. row.ts \in 1 .. MaxClock
  BY <1>2 DEF Row
<1>4. Untold' = Untold \ {row}
  <2>0. Phased("monitor", "tell") /\ Phased("input", "tell") => writer["monitor"].row # writer["input"].row
    BY TaskOfPhase, RowOfTask
  <2>1. CASE w = "monitor"
    <3>0. writer["monitor"] \in Polling /\ writer["monitor"].row.direction = "out"
      BY <2>1, TaskOfPhase, RowOfTask DEF TellRow
    <3>1. Enter("monitor", "prune")
      BY <2>1, <3>0 DEF TellRow
    <3>2. ~Phased("monitor", "tell")' /\ writer'["input"] = writer["input"]
      BY <3>0, <3>1, PollGoesOn DEF Phased
    <3>3. Phased("input", "tell")' <=> Phased("input", "tell")
      BY <3>2 DEF Phased
    <3>4. Phased("monitor", "tell")
      BY <2>1 DEF TellRow
    <3>5. QED
      BY <2>0, <2>1, <3>2, <3>3, <3>4 DEF Untold, Writer
  <2>2. CASE w = "input"
    <3>0. writer["input"] \in Sending /\ writer["input"].row.direction \in {"in", "system"}
      BY <2>2, TaskOfPhase, RowOfTask DEF TellRow
    <3>1. Enter("input", "paste") \/ Leave("input")
      BY <2>2, <3>0 DEF TellRow
    <3>2. ~Phased("input", "tell")' /\ writer'["monitor"] = writer["monitor"]
      BY <3>0, <3>1, InputGoesOn, TaskEnds DEF Phased, Writer
    <3>3. Phased("monitor", "tell")' <=> Phased("monitor", "tell")
      BY <3>2 DEF Phased
    <3>4. Phased("input", "tell")
      BY <2>2 DEF TellRow
    <3>5. QED
      BY <2>0, <2>2, <3>2, <3>3, <3>4 DEF Untold, Writer
  <2>3. QED
    BY <2>1, <2>2 DEF Writer
<1> HIDE DEF row
<1>5. SUFFICES ASSUME view # Absent PROVE Followed'
  BY <1>1 DEF Followed, Told
<1>6. /\ overtaken \cap Untold = {} /\ overtaken \cap repeated = {}
      /\ \A r \in NewestRows(Limit, Stored) : view[r.ts] = Shows(r)
      /\ \A r \in rows : view[r.ts] <= IF r \in Untold THEN 1 ELSE 2
      /\ \A t \in 1 .. MaxClock : view[t] > 0 => \E r \in rows : r.ts = t
      /\ view \in [1 .. MaxClock -> 0 .. 2]
  BY <1>5 DEF Followed, TranscriptTypeOK
<1>7. \A t \in 1 .. MaxClock : view'[t] = view[t] + (IF t = row.ts THEN 1 ELSE 0)
  <2>1. view' = [t \in 1 .. MaxClock |-> view[t] + Cardinality({t} \cap {row.ts})]
    BY <1>1, <1>5 DEF Told, Shown
  <2>2. \A t \in 1 .. MaxClock : Cardinality({t} \cap {row.ts}) = IF t = row.ts THEN 1 ELSE 0
    BY TimesShown
  <2>3. QED
    BY <2>1, <2>2
<1>8. \A r \in rows : r.ts \in 1 .. MaxClock /\ (r.ts = row.ts <=> r = row) /\ view[r.ts] \in 0 .. 2
  BY <1>2, <1>6 DEF Timed, Row
<1>9. ASSUME NEW r \in (NewestRows(Limit, Stored))' PROVE view'[r.ts] = Shows(r)'
  <2>1. r \in rows
    BY <1>1 DEF NewestRows, Stored
  <2>2. r \in NewestRows(Limit, Stored)
    BY <1>9, <2>1, NewestStay DEF TranscriptNext
  <2>3. view[r.ts] = Shows(r)
    BY <1>6, <2>2
  <2>4. CASE r = row
    <3>1. r \notin overtaken /\ r \in Untold /\ r \notin Untold'
      BY <1>2, <1>4, <1>6, <2>4
    <3>2. Shows(r) = (IF r \in repeated THEN 1 ELSE 0) + 0 /\ Shows(r)' = (IF r \in repeated THEN 1 ELSE 0) + 1
      BY <1>1, <3>1 DEF Shows
    <3>3. view'[r.ts] = view[r.ts] + 1
      BY <1>7, <1>8, <2>1, <2>4
    <3>4. QED
      BY <2>3, <3>2, <3>3
  <2>5. CASE r # row
    <3>1. Shows(r)' = Shows(r)
      BY <1>1, <1>4, <2>5 DEF Shows
    <3>2. view'[r.ts] = view[r.ts]
      BY <1>7, <1>8, <2>1, <2>5
    <3>3. QED
      BY <2>3, <3>1, <3>2
  <2>6. QED
    BY <2>4, <2>5
<1>10. \A r \in rows : view'[r.ts] <= IF r \in Untold' THEN 1 ELSE 2
  BY <1>2, <1>4, <1>6, <1>7, <1>8
<1>11. ASSUME NEW t \in 1 .. MaxClock, view'[t] > 0 PROVE \E r \in rows : r.ts = t
  BY <1>2, <1>6, <1>7, <1>11
<1>12. overtaken \cap Untold' = {}
  BY <1>4, <1>6
<1>13. QED
  BY <1>1, <1>6, <1>9, <1>10, <1>11, <1>12 DEF Followed

\* The answer shows what was listed, and only that.
LEMMA FollowedAnswered ==
    ASSUME TranscriptTypeOK, Timed, Timed', Listed, SendRows
    PROVE  Followed'
<1> DEFINE listed == request.listed
           times  == {r.ts : r \in listed}
<1>1. /\ rows' = rows /\ Untold' = Untold /\ (NewestRows(Limit, Stored))' = NewestRows(Limit, Stored)
      /\ overtaken' = rows \ (request.then \cup Untold) /\ repeated' = listed \cap Untold
      /\ view' = [t \in 1 .. MaxClock |-> 0 + Cardinality({t} \cap times)]
  BY DEF SendRows, Untold, Phased, NewestRows, Stored, Told, Shown
<1>2. /\ request.then \subseteq rows /\ listed \subseteq request.then
      /\ request.then \cap NewestRows(Limit, Stored) \subseteq listed
  BY DEF Listed, SendRows
<1> HIDE DEF listed
<1>3. \A t \in 1 .. MaxClock : view'[t] = IF t \in times THEN 1 ELSE 0
  <2>1. \A t \in 1 .. MaxClock : Cardinality({t} \cap times) = IF t \in times THEN 1 ELSE 0
    BY TimesShown
  <2>2. QED
    BY <1>1, <2>1
<1>4. \A r \in rows : r.ts \in 1 .. MaxClock /\ (r.ts \in times <=> r \in listed)
  BY <1>2 DEF Timed, TranscriptTypeOK, Row
<1> HIDE DEF times
<1>5. \A r \in rows : view'[r.ts] = IF r \in listed THEN 1 ELSE 0
  BY <1>3, <1>4
<1>6. ASSUME NEW r \in NewestRows(Limit, Stored) PROVE view'[r.ts] = Shows(r)'
  <2>1. r \in rows
    BY DEF NewestRows, Stored
  <2>2. /\ r \in overtaken' <=> r \notin request.then /\ r \notin Untold
        /\ r \in repeated' <=> r \in listed /\ r \in Untold
        /\ r \in Untold' <=> r \in Untold
        /\ r \in listed => r \in request.then
        /\ r \in request.then => r \in listed
    BY <1>1, <1>2, <2>1
  <2>3. QED
    BY <1>5, <2>1, <2>2 DEF Shows
<1>7. ASSUME NEW t \in 1 .. MaxClock, view'[t] > 0 PROVE \E r \in rows : r.ts = t
  <2>1. t \in times
    BY <1>3, <1>7
  <2>2. QED
    BY <1>2, <2>1 DEF times
<1>8. \A r \in rows : view'[r.ts] <= IF r \in Untold' THEN 1 ELSE 2
  BY <1>5
<1>9. overtaken' \cap Untold' = {} /\ overtaken' \cap repeated' = {}
  BY <1>1
<1>10. QED
  BY <1>1, <1>6, <1>7, <1>8, <1>9 DEF Followed

LEMMA FollowedStep ==
    ASSUME TranscriptTypeOK, Timed, Timed', Listed, Followed, [TranscriptNext]_transcriptVars
    PROVE  Followed'
<1> USE DEF Writer
<1>0. /\ Idle \notin Looking /\ Idle \notin Polling /\ Idle \notin Sending
      /\ Looking \cap Polling = {} /\ Polling \cap Sending = {} /\ Looking \cap Sending = {}
      /\ \A task \in Looking : task.phase # "tell"
  BY TasksDiffer DEF Looking
\* What is left to show of a step that disturbs neither the rows nor the client.
<1>1. ASSUME view' = view, overtaken' = overtaken, repeated' = repeated, rows' = rows,
             NEW w \in Writer, \A v \in Writer \ {w} : writer'[v] = writer[v],
             ~Phased(w, "tell"), ~Phased(w, "tell")'
      PROVE  Followed'
  <2>1. \A v \in Writer : Phased(v, "tell")' <=> Phased(v, "tell")
    BY <1>1 DEF Phased
  <2>2. \A v \in Writer : Phased(v, "tell") => writer'[v].row = writer[v].row
    BY <1>1
  <2>3. QED
    BY <1>1, <2>1, <2>2, FollowedUndisturbed
<1>2. ASSUME writer' = writer, view' = view, overtaken' = overtaken, repeated' = repeated, rows' = rows
      PROVE  Followed'
  BY <1>2, FollowedUndisturbed DEF Phased
<1>3. CASE Look
  <2>1. writer'["monitor"].phase = "capture" /\ writer'["input"] = writer["input"] /\ writer["monitor"] = Idle
    BY <1>3, LookHolds DEF Look
  <2>2. ~Phased("monitor", "tell") /\ ~Phased("monitor", "tell")'
    BY <2>1 DEF Phased
  <2>3. QED
    BY <1>1, <1>3, <2>1, <2>2 DEF Look, tellings
<1>4. CASE CaptureOutput
  <2> DEFINE screen == Newest(Window, pane)
             known  == previous = Absent /\ writer["monitor"].known = screen
             output == IF known THEN <<>> ELSE NewOutput(previous, screen)
             joins  == previous # Absent /\ Overlaps(previous, screen) # {}
             row    == [ts |-> writer["monitor"].ts, direction |-> "out", lines |-> output, joins |-> joins]
             task   == [phase |-> IF output = <<>> THEN "upsert" ELSE "store", screen |-> screen, row |-> row]
  <2>1. writer' = [writer EXCEPT !["monitor"] = task] /\ Phased("monitor", "capture")
    BY <1>4 DEF CaptureOutput
  <2>2. task.phase # "tell"
    OBVIOUS
  <2> HIDE DEF task
  <2>3. writer'["monitor"] = task /\ writer'["input"] = writer["input"]
    BY <2>1 DEF TranscriptTypeOK
  <2>4. ~Phased("monitor", "tell") /\ ~Phased("monitor", "tell")'
    BY <2>1, <2>2, <2>3 DEF Phased
  <2>5. QED
    BY <1>1, <1>4, <2>3, <2>4 DEF CaptureOutput, tellings
<1>5. CASE Prune
  <2>1. writer'["monitor"].phase = "upsert" /\ writer'["input"] = writer["input"] /\ Phased("monitor", "prune")
    BY <1>5, TaskOfPhase, PollGoesOn DEF Prune
  <2>2. ~Phased("monitor", "tell") /\ ~Phased("monitor", "tell")'
    BY <2>1 DEF Phased
  <2>3. QED
    BY <1>1, <1>5, <2>1, <2>2 DEF Prune, tellings
<1>6. CASE RecordSnapshot
  <2>1. writer'["monitor"] = Idle /\ writer'["input"] = writer["input"] /\ Phased("monitor", "upsert")
    BY <1>6, TaskEnds DEF RecordSnapshot
  <2>2. ~Phased("monitor", "tell") /\ ~Phased("monitor", "tell")'
    BY <2>1 DEF Phased
  <2>3. QED
    BY <1>1, <1>6, <2>1, <2>2 DEF RecordSnapshot, tellings
<1>7. CASE TakeInput
  <2>1. writer'["input"].phase = "store" /\ writer'["monitor"] = writer["monitor"] /\ writer["input"] = Idle
    BY <1>7, TakeHolds DEF TakeInput
  <2>2. ~Phased("input", "tell") /\ ~Phased("input", "tell")'
    BY <2>1 DEF Phased
  <2>3. QED
    BY <1>1, <1>7, <2>1, <2>2 DEF TakeInput, tellings
<1>8. CASE Pasted
  <2>1. /\ writer'["input"] = Idle \/ writer'["input"].phase = "store"
        /\ writer'["monitor"] = writer["monitor"] /\ Phased("input", "paste")
    BY <1>8, ComplaintHolds DEF Pasted
  <2>2. ~Phased("input", "tell") /\ ~Phased("input", "tell")'
    BY <2>1 DEF Phased
  <2>3. QED
    BY <1>1, <1>8, <2>1, <2>2 DEF Pasted, tellings
<1>9. ASSUME NEW w \in Writer, TaskFails(w) PROVE Followed'
  <2>1. writer'[w] = Idle /\ \A v \in Writer \ {w} : writer'[v] = writer[v]
    BY <1>9, TaskEnds DEF TaskFails
  <2>2. ~Phased(w, "tell") /\ ~Phased(w, "tell")'
    BY <1>9, <2>1 DEF Phased, TaskFails
  <2>3. QED
    BY <1>1, <1>9, <2>1, <2>2 DEF TaskFails, tellings
<1>10. CASE PrintLine \/ OpenTranscript \/ ListRows \/ UNCHANGED transcriptVars
  BY <1>2, <1>10 DEF PrintLine, OpenTranscript, ListRows, transcriptVars, tellings
<1>11. CASE RestartDaemon
  BY <1>11 DEF RestartDaemon, Followed
<1>12. QED
  BY <1>3, <1>4, <1>5, <1>6, <1>7, <1>8, <1>9, <1>10, <1>11, FollowedStored, FollowedTold, FollowedAnswered
     DEF TranscriptNext

LEMMA TranscriptStep ==
    ASSUME TranscriptInv, [TranscriptNext]_transcriptVars PROVE TranscriptInv'
<1>1. TranscriptTypeOK /\ Timed /\ Ordered /\ Accounted /\ Listed /\ Followed
  BY DEF TranscriptInv
<1>2. TranscriptTypeOK'
  BY <1>1, TranscriptTypeStep
<1>3. Timed'
  BY <1>1, <1>2, TimedStep
<1>4. Ordered' /\ Accounted'
  BY <1>1, <1>2, OrderedStep, AccountedStep
<1>5. Listed' /\ Followed'
  BY <1>1, <1>3, ListedStep, FollowedStep
<1>6. QED
  BY <1>2, <1>3, <1>4, <1>5 DEF TranscriptInv

LEMMA TranscriptInvariant == Spec => []TranscriptInv
<1>1. Init => TranscriptInv
  <2> SUFFICES ASSUME TranscriptInit PROVE TranscriptInv
    BY DEF Init
  <2> USE DEF TranscriptInit
  <2>0. /\ <<>> \in Lines /\ LinesOf(<<>>) = {} /\ Increasing(<<>>) /\ IsFiniteSet({})
        /\ Idle \notin Looking /\ Idle \notin Polling /\ Idle \notin Sending /\ Idle \notin Request
    BY EmptySeq, FS_EmptySet, WaitingAssumption DEF Lines, LinesOf, Increasing
  <2>1. \A w \in Writer : writer[w] = Idle
    OBVIOUS
  <2>2. TranscriptTypeOK
    BY <2>0, <2>1, Sizes DEF TranscriptTypeOK, Writer
  <2>3. Out = {} /\ Arriving = {} /\ Untold = {} /\ \A w \in Writer : \A t : ~Holds(w, t)
    BY <2>0, <2>1 DEF Out, Arriving, Untold, Phased, Holds, Writer
  <2>4. Timed
    BY <2>0, <2>1, <2>3 DEF Timed, Phased, Writer
  <2>5. Ordered
    BY <2>0, <2>3 DEF Ordered
  <2>6. Accounted
    BY <2>0, <2>1 DEF Accounted, Kept, KeptSoon, Writer
  <2>7. Listed /\ Followed
    BY DEF Listed, Followed
  <2>8. QED
    BY <2>2, <2>4, <2>5, <2>6, <2>7 DEF TranscriptInv
<1>2. [Next]_vars => [TranscriptNext]_transcriptVars
  BY DEF Next, vars
<1>3. QED
  BY <1>1, <1>2, TranscriptStep, PTL DEF Spec, vars

\* The transcript, and what the tasks and the client hold of it, is what it
\* should be: a task is at a step it has, with all that the step needs, and no
\* row is shown more than twice.
THEOREM TranscriptTypeCorrect == Spec => []TranscriptTypeOK
<1>1. TranscriptInv => TranscriptTypeOK
  BY DEF TranscriptInv
<1>2. QED
  BY <1>1, TranscriptInvariant, PTL

\* Two rows of which the later joins nothing share no more lines than it has.
LEMMA SharedLines ==
    ASSUME NEW seq \in Lines, NEW set
    PROVE  Cardinality(set \cap LinesOf(seq)) <= Len(seq)
<1>1. Len(seq) \in Nat /\ DOMAIN seq = 1 .. Len(seq)
  BY LenProperties DEF Lines
<1>2. IsFiniteSet(DOMAIN seq) /\ Cardinality(DOMAIN seq) = Len(seq)
  <2>1. IsFiniteSet(1 .. Len(seq)) /\ Cardinality(1 .. Len(seq)) = Len(seq)
    <3>1. /\ IsFiniteSet(1 .. Len(seq))
          /\ Cardinality(1 .. Len(seq)) = IF 1 > Len(seq) THEN 0 ELSE Len(seq) - 1 + 1
      BY <1>1, FS_Interval
    <3>2. QED
      BY <1>1, <3>1
  <2>2. QED
    BY <1>1, <2>1
<1>3. seq \in Surjection(DOMAIN seq, LinesOf(seq))
  <2>1. seq = [i \in DOMAIN seq |-> seq[i]]
    BY DEF Lines
  <2>2. QED
    BY <2>1 DEF Surjection, LinesOf
<1>4. IsFiniteSet(LinesOf(seq)) /\ Cardinality(LinesOf(seq)) <= Len(seq)
  BY <1>2, <1>3, FS_Surjection
<1>5. /\ IsFiniteSet(set \cap LinesOf(seq))
      /\ Cardinality(set \cap LinesOf(seq)) <= Cardinality(LinesOf(seq))
  BY <1>4, FS_Subset
<1>6. Cardinality(set \cap LinesOf(seq)) \in Nat /\ Cardinality(LinesOf(seq)) \in Nat
  BY <1>4, <1>5, FS_CardinalityType
<1>7. QED
  BY <1>1, <1>4, <1>5, <1>6

\* Whatever the window, however many polls, inputs, failures and restarts: rows
\* hold lines in the order of printing, a row that continues the one before
\* repeats none, and any other repeats at most the first lines.
THEOREM OutputStoredOnce == Spec => []OutputOnce
<1>1. ASSUME TranscriptInv PROVE OutputOnce
  <2>1. \A r \in Out : Increasing(r.lines)
    BY <1>1 DEF TranscriptInv, Ordered
  <2>2. ASSUME NEW r \in Out, NEW q \in Out, r.ts < q.ts, q.joins,
               NEW x \in LinesOf(r.lines), NEW y \in LinesOf(q.lines)
        PROVE  x < y
    BY <1>1, <2>2 DEF TranscriptInv, Ordered
  <2>3. ASSUME NEW r \in Out, NEW q \in Out, r.ts < q.ts
        PROVE  Cardinality(LinesOf(r.lines) \cap LinesOf(q.lines)) <= FirstLines
    <3>1. r.lines \in Lines /\ q.lines \in Lines /\ FirstLines \in Nat
      BY <1>1, Sizes DEF TranscriptInv, TranscriptTypeOK, Out, Row
    <3>2. CASE q.joins
      <4>1. ASSUME NEW x \in LinesOf(r.lines), x \in LinesOf(q.lines) PROVE FALSE
        <5>1. x < x
          BY <2>2, <2>3, <3>2, <4>1
        <5>2. x \in 1 .. MaxLines
          BY <3>1, LinesAreNumbers
        <5>3. QED
          BY <5>1, <5>2
      <4>2. LinesOf(r.lines) \cap LinesOf(q.lines) = {}
        BY <4>1
      <4>3. Cardinality(LinesOf(r.lines) \cap LinesOf(q.lines)) = 0
        BY <4>2, FS_EmptySet
      <4>4. QED
        BY <3>1, <4>3
    <3>3. CASE ~q.joins
      <4>1. Len(q.lines) <= FirstLines /\ Len(q.lines) \in Nat
        BY <1>1, <3>1, <3>3, LenProperties DEF TranscriptInv, Ordered, Lines
      <4>2. IsFiniteSet(LinesOf(q.lines))
        <5>1. IsFiniteSet(1 .. MaxLines)
          BY Sizes, FS_Interval
        <5>2. QED
          BY <3>1, <5>1, LinesAreNumbers, FS_Subset
      <4>3. Cardinality(LinesOf(r.lines) \cap LinesOf(q.lines)) \in Nat
        BY <4>2, FS_Subset, FS_CardinalityType
      <4>4. Cardinality(LinesOf(r.lines) \cap LinesOf(q.lines)) <= Len(q.lines)
        BY <3>1, SharedLines
      <4>5. QED
        BY <3>1, <4>1, <4>3, <4>4
    <3>4. QED
      BY <3>2, <3>3
  <2>4. QED
    BY <2>1, <2>2, <2>3 DEF OutputOnce, Increasing
<1>2. QED
  BY <1>1, TranscriptInvariant, PTL

\* Every line of a recorded snapshot was stored at some time, unless a failure
\* or the tail is known to have kept it from the store.
THEOREM NothingElseIsMissed == Spec => []NothingElseMissed
<1>1. TranscriptInv => NothingElseMissed
  BY DEF TranscriptInv, Accounted, Kept, Known, NothingElseMissed
<1>2. QED
  BY <1>1, TranscriptInvariant, PTL

\* A client that waits for nothing shows the newest rows as often as it was told
\* of them, whatever was stored, pruned and sent in between.
THEOREM ClientsFollow == Spec => []ViewFollows
<1>1. ASSUME TranscriptInv PROVE ViewFollows
  <2>1. SUFFICES ASSUME view # Absent, Untold = {}
                 PROVE  /\ \A r \in NewestRows(Limit, Stored) :
                              view[r.ts] = IF r \in overtaken THEN 0 ELSE IF r \in repeated THEN 2 ELSE 1
                        /\ \A t \in 1 .. MaxClock : view[t] > 0 => \E r \in rows : r.ts = t
    BY DEF ViewFollows
  <2>2. /\ \A r \in NewestRows(Limit, Stored) : view[r.ts] = Shows(r)
        /\ \A t \in 1 .. MaxClock : view[t] > 0 => \E r \in rows : r.ts = t
    BY <1>1, <2>1 DEF TranscriptInv, Followed
  <2>3. \A r : Shows(r) = IF r \in overtaken THEN 0 ELSE IF r \in repeated THEN 2 ELSE 1
    BY <2>1 DEF Shows
  <2>4. QED
    BY <2>2, <2>3
<1>2. QED
  BY <1>1, TranscriptInvariant, PTL

-----------------------------------------------------------------------------
(* The whole *)

\* No file of a host ever holds what another should, and no command or task is
\* at a step it has not got, for any agents, pets, packages and bounds.
THEOREM TypeCorrect == Spec => []TypeOK
BY EvidenceTypeCorrect, LibraryTypeCorrect, TranscriptTypeCorrect, PTL DEF TypeOK

===============================================================================
