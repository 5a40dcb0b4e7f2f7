----------------------------- MODULE WindowMarch -----------------------------
(***************************************************************************)
(* What a stabilized sensitivity march promises its caller: it knows the    *)
(* sensitivity of one time level, every solve either moves that level       *)
(* forward by a window of one or more time steps or ends the march, and an  *)
(* ended march keeps the last sensitivity it accepted.                      *)
(***************************************************************************)
EXTENDS Integers

CONSTANT LastLevel    \* no window reaches beyond this time level

VARIABLES
  level,   \* the time level of the accepted sensitivity
  phase    \* "marching" or "ended"

mvars == <<level, phase>>

Init == level = 0 /\ phase = "marching"

\* Accept the sensitivity at the end of a window.
Advance ==
  /\ phase = "marching"
  /\ level' \in level + 1 .. LastLevel
  /\ UNCHANGED phase

\* Give up on the window: no sensitivity after level is trusted.
End ==
  /\ phase = "marching"
  /\ phase' = "ended"
  /\ UNCHANGED level

Next == Advance \/ End

Spec == Init /\ [][Next]_mvars
=============================================================================
