----------------------------- MODULE BackupPoint -----------------------------
(***************************************************************************)
(* What the folder of backups of a virtual machine promises: it has one    *)
(* backup, of all of its disks at the same moment, which is only ever      *)
(* replaced as a whole, and by a later one, or moved away.  A run that is  *)
(* cut off may spoil the restore of some disks, until a later run is done  *)
(* with them: it then fails or gives a later moment, never an earlier one. *)
(***************************************************************************)
EXTENDS Integers

CONSTANTS Disks, Points   \* the disks there may be, and the moments in their order

VARIABLES
  disks, point,   \* the backup: its disks, all of them at one moment
  cut,            \* the disks for which a run left a part of its work
  restored        \* for each disk, what a restore may give

vars == <<disks, point, cut, restored>>

Promise ==
  /\ DOMAIN restored = disks
  /\ cut \subseteq disks
  /\ \A d \in disks \ cut : restored[d] = {point}
  /\ \A d \in cut : \A p \in restored[d] : p > point

Init == disks \subseteq Disks /\ (disks # {} => point \in Points) /\ cut = {} /\ Promise

\* A later backup, of any disks; a restore of it is as good as new.
Replace ==
  /\ disks' \subseteq Disks /\ point' \in Points
  /\ disks # {} => point' > point
  /\ cut' = {} /\ Promise'

\* A run leaves a part of its work behind, or a later one is done with some of that.
Spoil == cut \subseteq cut' /\ UNCHANGED <<disks, point>> /\ Promise'
Mend == cut' \subseteq cut /\ UNCHANGED <<disks, point>> /\ Promise'

MoveAway == disks' = {} /\ Promise'

Next == Replace \/ Spoil \/ Mend \/ MoveAway
Spec == Init /\ [][Next]_vars
=============================================================================
