----------------------------- MODULE MCHdBackup -----------------------------
(* hd-backup on a small instance: see the .cfg files for the constants.     *)
EXTENDS HdBackup

CONSTANTS f1, b1, p1

\* The second state of a path is a symlink, the others are files.
MCKindOf == [v \in 1 .. MaxVersion |-> IF v = 2 THEN "symlink" ELSE "file"]
\* Every state of a path is a file.
MCFiles == [v \in 1 .. MaxVersion |-> "file"]
MCFilesetPaths == [f \in Filesets |-> Paths]
MCBackupFileset == [b \in Backups |-> f1]
MCCarrierBackup == [c \in Carriers |-> b1]
=============================================================================
