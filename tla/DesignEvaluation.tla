--------------------------- MODULE DesignEvaluation ---------------------------
(***************************************************************************)
(* What FunctionEvaluation::evaluate promises an optimizer: one evaluation  *)
(* at a time, the functions of the design that was asked for, gradients     *)
(* only when they are asked for. A design whose analysis diverges has large *)
(* values in place of its functions, and the gradients keep what they held, *)
(* since the optimizer owns them.                                          *)
(***************************************************************************)
CONSTANTS
  Designs,   \* vectors of design variables
  Big,       \* the values reported for a design whose analysis diverged
  NoDesign   \* the content of a gradient nobody has computed

VARIABLES
  busy,      \* an evaluation is in progress
  asked,     \* the design of the last request
  wanted,    \* the evaluation in progress was asked for gradients
  diverges,  \* the designs whose analysis diverges
  values,    \* the design whose functions were returned last, or Big
  gradient   \* the design whose gradients the optimizer's arrays hold

vars == <<busy, asked, wanted, diverges, values, gradient>>

Init ==
  /\ ~busy
  /\ asked \in Designs
  /\ ~wanted
  /\ diverges \in SUBSET Designs
  /\ values = NoDesign
  /\ gradient = NoDesign

Request ==
  /\ ~busy
  /\ busy'
  /\ asked' \in Designs
  /\ wanted' \in BOOLEAN
  /\ UNCHANGED <<diverges, values, gradient>>

Respond ==
  /\ busy
  /\ ~busy'
  /\ values' = IF asked \in diverges THEN Big ELSE asked
  /\ gradient' = IF wanted /\ asked \notin diverges THEN asked ELSE gradient
  /\ ~wanted'
  /\ UNCHANGED <<asked, diverges>>

\* output evaluates a design for its files; nothing of it reaches the optimizer.
Write ==
  /\ ~busy
  /\ asked' \in Designs
  /\ UNCHANGED <<busy, wanted, diverges, values, gradient>>

Next == Request \/ Respond \/ Write

Spec == Init /\ [][Next]_vars
=============================================================================
