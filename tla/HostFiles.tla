------------------------------ MODULE HostFiles ------------------------------
(***************************************************************************)
(* What the program leaves on a host: the evidence of the admin commands,  *)
(* the library of pets with the services' settings, and the transcripts of *)
(* the daemon.  No action of one touches the files of another, so a        *)
(* behaviour here is one of a single part, with the others at rest.        *)
(***************************************************************************)
EXTENDS Evidence, PetLibrary, Transcripts

VARIABLE part \* the part whose behaviour this is

Init ==
    /\ EvidenceInit /\ LibraryInit /\ TranscriptInit
    /\ part \in {"evidence", "library", "transcripts"}
    /\ part # "evidence" => host = {}

Next ==
    \/ part = "evidence" /\ EvidenceNext /\ UNCHANGED <<part, libraryVars, transcriptVars>>
    \/ part = "library" /\ LibraryNext /\ UNCHANGED <<part, evidenceVars, transcriptVars>>
    \/ part = "transcripts" /\ TranscriptNext /\ UNCHANGED <<part, evidenceVars, libraryVars>>

Spec == Init /\ [][Next]_<<part, evidenceVars, libraryVars, transcriptVars>>

\* The types of all variables: no file ever holds what another should, and no
\* command is at a step it has not got.
TypeOK == EvidenceTypeOK /\ LibraryTypeOK /\ TranscriptTypeOK

=============================================================================
