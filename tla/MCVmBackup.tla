----------------------------- MODULE MCVmBackup -----------------------------
(* hd-backup-vm with two disks, see the .cfg files for the constants.  Each *)
(* disk is in a pool of its own, which goes by its name.                    *)
EXTENDS VmBackup, TLC

CONSTANTS d1, d2

MCPoolOf == [d \in Disks |-> d]
Alike == Permutations(Disks)
=============================================================================
