-------------------------------- MODULE Files --------------------------------
(***************************************************************************)
(* Files that commands write: path.write_text empties the file it opens    *)
(* and writes it on closing, so a command that is interrupted may leave it *)
(* torn.                                                                   *)
(***************************************************************************)

CONSTANTS
    Absent, \* no file
    Torn,   \* a file whose writing broke off
    Idle    \* no command is running

ASSUME FilesAssumption == Absent # Torn

File(what) == what \cup {Absent, Torn}

Readable(file) == file \notin {Absent, Torn}

=============================================================================
