----------------------------- MODULE LatestFrame -----------------------------
(***************************************************************************)
(* What a window promises the one who looks at it: what it shows is what   *)
(* was to be seen when it was drawn, never something older than what it    *)
(* showed before, and however fast it changes, the last change comes to    *)
(* the screen, unless the window goes.                                     *)
(***************************************************************************)
CONSTANT Views

VARIABLES
  wanted,     \* what is to be seen now
  shown,      \* what is on the screen
  over        \* the window is gone
vars == <<wanted, shown, over>>

Init == wanted \in Views /\ shown = wanted /\ over = FALSE

\* A change is drawn at once, or later.
Change ==
  /\ ~over
  /\ wanted' \in Views
  /\ shown' \in {shown, wanted'}
  /\ UNCHANGED over

Show ==
  /\ ~over /\ shown # wanted
  /\ shown' = wanted
  /\ UNCHANGED <<wanted, over>>

End == ~over /\ over' = TRUE /\ UNCHANGED <<wanted, shown>>

Next == Change \/ Show \/ End
CatchesUp == shown # wanted ~> (shown = wanted \/ over)

Spec == Init /\ [][Next]_vars /\ CatchesUp
=============================================================================
