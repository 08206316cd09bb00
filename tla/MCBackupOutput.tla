--------------------------- MODULE MCBackupOutput ---------------------------
(* Small instances of BackupOutput for TLC. *)
EXTENDS BackupOutput

CONSTANTS p1, a

OneProc == {p1}
OnePart == {a}

=============================================================================
