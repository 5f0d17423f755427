------------------------------ MODULE BootMenu ------------------------------
(***************************************************************************)
(* What the boot menu of HyprDebian promises the one who sits before it:   *)
(* it offers boot entries, one of them highlighted; the highlight moves by *)
(* one row at a time; and what starts is the entry that is highlighted, or *)
(* nothing, and then no menu is offered any more.                          *)
(***************************************************************************)
EXTENDS Integers, Sequences

CONSTANT Entries          \* what can be booted: a UKI in a profile

VARIABLES
  offered,       \* the entries on the screen, top to bottom
  highlighted,   \* the row that is highlighted, 0 if there is no menu
  running,       \* the entry that was started, <<>> if there is none
  over           \* the boot loader gave up
vars == <<offered, highlighted, running, over>>

Init == offered = <<>> /\ highlighted = 0 /\ running = <<>> /\ over = FALSE

Offer ==
  /\ offered = <<>> /\ ~over
  /\ offered' \in Seq(Entries) /\ offered' # <<>>
  /\ highlighted' = 1
  /\ UNCHANGED <<running, over>>

Move ==
  /\ offered # <<>> /\ running = <<>>
  /\ highlighted' \in {highlighted - 1, highlighted + 1} \cap (1 .. Len(offered))
  /\ UNCHANGED <<offered, running, over>>

Start ==
  /\ offered # <<>> /\ running = <<>>
  /\ running' = <<offered[highlighted]>>
  /\ UNCHANGED <<offered, highlighted, over>>

GiveUp ==
  /\ ~over
  /\ over' = TRUE /\ offered' = <<>> /\ highlighted' = 0 /\ running' = <<>>

Next == Offer \/ Move \/ Start \/ GiveUp
Spec == Init /\ [][Next]_vars
=============================================================================
