-------------------------------- MODULE GCMMA --------------------------------
(***************************************************************************)
(* GCMMAOptimizationInterface::optimize: outer iterations that evaluate the *)
(* design and its gradients and build asymptotes, inner iterations that     *)
(* solve a subproblem, evaluate its solution, backtrack while that is poor  *)
(* and test whether the approximations were conservative, and the two       *)
(* criteria that end the search.                                           *)
(*                                                                          *)
(* A design is an element of Designs, and functions and gradients are named *)
(* by the design they were computed at. The Fortran routines mmasug and     *)
(* conser are free choices; evaluate answers as DesignEvaluation promises,  *)
(* which SimpOptimization and LevelSetOptimization are checked against.     *)
(***************************************************************************)
EXTENDS Integers, Sequences

CONSTANTS
  Designs, Big, NoDesign,
  Zero,         \* what XOLD1 holds before two outer iterations were made
  Start,        \* the design of init_dvar
  InBounds,     \* the designs between XMIN and XMAX
  Objectives,   \* values of the objective; those within tolerance are equal
  MaxIters,     \* _feval->max_iters()
  InnMax,       \* _max_inner_iters
  RelIters,     \* n_rel_change_iters
  Underflow     \* backtracks until XOLD1 + frac (XMMA - XOLD1) is XOLD1

ASSUME DesignAssumption ==
  /\ {Zero, Start} \subseteq Designs
  /\ InBounds \subseteq Designs /\ Start \in InBounds
  /\ Big \notin Designs /\ NoDesign \notin Designs /\ Big # NoDesign
ASSUME LimitAssumption ==
  /\ MaxIters \in Nat \ {0} /\ InnMax \in Nat \ {0}
  /\ RelIters \in Nat \ {0} /\ Underflow \in Nat
ASSUME ObjectiveAssumption == Objectives \subseteq Nat

VARIABLES
  pc,        \* outer, values, subproblem, trial, judge, done
  diverges,  \* designs whose analysis diverges
  poor,      \* designs with a first constraint above 1e2
  objective, \* the objective of a design
  iter,      \* ITER and ITE
  inner,     \* INNER
  back,      \* backtracks of this subproblem solution
  xval, xold1, xmma,
  trial,     \* XMMA_new
  asked,     \* the design of the last evaluation
  returned,  \* what that evaluation returned
  fval,      \* F0VAL, FVAL
  fnew,      \* F0NEW, FNEW
  fapp,      \* F0APP, FAPP
  dfdx,      \* DF0DX, DFDX
  ring,      \* f0_iters
  trail      \* observer: the objective after each outer iteration

oracle  == <<diverges, poor, objective>>
history == <<ring, trail>>
vars == <<pc, diverges, poor, objective, iter, inner, back, xval, xold1, xmma,
          trial, asked, returned, fval, fnew, fapp, dfdx, ring, trail>>

Slots == 0 .. RelIters - 1

-----------------------------------------------------------------------------
(* Operators of the loop. A definition commented as a slip is a wrong form of *)
(* the one after it.                                                          *)

\* What evaluate returns: the functions at x, or values that are all large.
Functions(x) == IF x \in diverges THEN Big ELSE x

\* Gradients are written where they were asked for and the analysis converged.
Gradients(x) == IF x \in diverges THEN dfdx ELSE x

\* FNEW[0] > 1e2. Diverged designs report 1e10 for every function.
IsPoor(x) == x \in poor

\* Slip: towards the solution of the subproblem instead of the old design.
TowardsSubproblem == IF back < Underflow THEN Designs ELSE {xmma}

\* XOLD1 + frac (XMMA - XOLD1): between the two, and XOLD1 itself once frac has
\* been squared often enough. The box of the bounds is convex.
Backtracked ==
  IF back >= Underflow THEN {xold1}
  ELSE IF {xold1, xmma} \subseteq InBounds THEN InBounds
  ELSE Designs

\* Slip: the copy of XMMA_new to XMMA left out.
SubproblemSolution == xmma

\* XMMA[i] = XMMA_new[i]
AcceptedTrial == trial

\* f0_iters[(ITE-1) % n_rel_change_iters]
SlotOf == (iter - 1) % RelIters

\* Slip: a loop that ends before the slot next to the last one.
SettledButOne(r) == \A i \in 0 .. RelIters - 3 : r[i] = r[RelIters - 1]

\* Every slot is within tolerance of the last one.
Settled(r) == \A i \in Slots : r[i] = r[RelIters - 1]

\* INNER >= INNMAX
InnerLimit == inner >= InnMax

-----------------------------------------------------------------------------
\* _init_dvar_wrapper fills XVAL; every other array is zero.
Init ==
  /\ pc = "outer"
  /\ poor \in SUBSET Designs
  /\ diverges \in SUBSET poor
  /\ objective \in [Designs -> Objectives]
  /\ iter = 0 /\ inner = 0 /\ back = 0
  /\ xval = Start /\ xold1 = Zero /\ xmma = Zero /\ trial = Zero
  /\ asked = Start
  /\ returned = NoDesign
  /\ fval = NoDesign /\ fnew = NoDesign /\ fapp = NoDesign /\ dfdx = NoDesign
  /\ ring = [i \in Slots |-> 0]
  /\ trail = <<>>

\* The top of the outer loop, which evaluates XVAL with gradients.
BeginOuter ==
  /\ pc = "outer"
  /\ iter' = iter + 1
  /\ asked' = xval
  /\ pc' = "values"
  /\ UNCHANGED <<oracle, inner, back, xval, xold1, xmma, trial, returned,
                 fval, fnew, fapp, dfdx, history>>

\* Functions and gradients at XVAL; the first iterate is written, and raasta and
\* asympg set the asymptotes.
OuterEvaluated ==
  /\ pc = "values"
  /\ fval' = Functions(asked)
  /\ dfdx' = Gradients(asked)
  /\ returned' = Functions(asked)
  /\ inner' = 0
  /\ pc' = "subproblem"
  /\ UNCHANGED <<oracle, iter, back, xval, xold1, xmma, trial, asked, fnew,
                 fapp, history>>

\* mmasug: XMMA within the bounds, approximations at XMMA; then it is evaluated.
Subproblem ==
  /\ pc = "subproblem"
  /\ xmma' \in InBounds
  /\ fapp' = xmma'
  /\ trial' = xmma'
  /\ asked' = xmma'
  /\ back' = 0
  /\ pc' = "trial"
  /\ UNCHANGED <<oracle, iter, inner, xval, xold1, returned, fval, fnew,
                 dfdx, history>>

\* The evaluation of a solution that is poor: backtrack and evaluate again.
Backtrack ==
  /\ pc = "trial"
  /\ IsPoor(asked)
  /\ fnew' = Functions(asked)
  /\ returned' = fnew'
  /\ trial' \in Backtracked
  /\ back' = IF back < Underflow THEN back + 1 ELSE back
  /\ pc' = "again"
  /\ UNCHANGED <<oracle, iter, inner, xval, xold1, xmma, asked, fval, fapp,
                 dfdx, history>>

\* The call of the evaluation in the backtracking loop.
EvaluateAgain ==
  /\ pc = "again"
  /\ asked' = trial
  /\ pc' = "trial"
  /\ UNCHANGED <<oracle, iter, inner, back, xval, xold1, xmma, trial, returned,
                 fval, fnew, fapp, dfdx, history>>

\* The solution is not poor: XMMA is what was evaluated last.
TrialEvaluated ==
  /\ pc = "trial"
  /\ ~IsPoor(asked)
  /\ fnew' = Functions(asked)
  /\ returned' = fnew'
  /\ xmma' = AcceptedTrial
  /\ pc' = "judge"
  /\ UNCHANGED <<oracle, iter, inner, back, xval, xold1, trial, asked, fval,
                 fapp, dfdx, history>>

\* conser finds the approximations not conservative; raaupd and another pass.
NotConservative ==
  /\ pc = "judge"
  /\ ~InnerLimit
  /\ inner' = inner + 1
  /\ pc' = "subproblem"
  /\ UNCHANGED <<oracle, iter, back, xval, xold1, xmma, trial, asked, returned,
                 fval, fnew, fapp, dfdx, history>>

\* The inner loop ends: xupdat, fupdat, the ring and both criteria.
EndOuter ==
  /\ pc = "judge"
  /\ xold1' = xval
  /\ xval' = xmma
  /\ fval' = fnew
  /\ ring' = [ring EXCEPT ![SlotOf] = objective[fnew]]
  /\ trail' = Append(trail, objective[fnew])
  /\ pc' = IF iter = MaxIters \/ Settled(ring') THEN "done" ELSE "outer"
  /\ UNCHANGED <<oracle, iter, inner, back, xmma, trial, asked, returned, fnew,
                 fapp, dfdx>>

InnerStep == Subproblem \/ Backtrack \/ EvaluateAgain \/ TrialEvaluated
             \/ NotConservative
Optimize == BeginOuter \/ OuterEvaluated \/ InnerStep \/ EndOuter

Done == pc = "done" /\ UNCHANGED vars

Next == Optimize \/ Done

Spec == Init /\ [][Next]_vars

\* optimize runs on the caller's thread and waits for nobody.
FairSpec == Spec /\ WF_vars(Optimize)

-----------------------------------------------------------------------------
\* Types of all variables.
TypeOK ==
  /\ pc \in {"outer", "values", "subproblem", "trial", "again", "judge", "done"}
  /\ poor \subseteq Designs /\ diverges \subseteq poor
  /\ objective \in [Designs -> Objectives]
  /\ iter \in 0 .. MaxIters /\ inner \in 0 .. InnMax /\ back \in 0 .. Underflow
  /\ {xval, xold1, xmma, trial, asked} \subseteq Designs
  /\ {returned, fval, fnew, fapp, dfdx} \subseteq Designs \cup {Big, NoDesign}
  /\ ring \in [Slots -> Objectives \cup {0}]
  /\ trail \in Seq(Objectives)

\* Every subproblem is built from the functions and the gradients of the design
\* the outer iteration is at. An evaluation that diverges leaves the gradients
\* of an earlier design in the arrays; what keeps them out of a subproblem is
\* that backtracking lets no such design become XVAL. Only the design the
\* search starts from was not chosen that way.
SubproblemAboutX ==
  /\ pc \in {"subproblem", "trial", "again", "judge"}
  /\ iter > 1 \/ Start \notin diverges
  => fval = xval /\ dfdx = xval

\* No design with a poor first constraint is accepted: after the first outer
\* iteration neither XVAL nor its functions are those of a poor design.
AcceptedNotPoor ==
  iter > 0 /\ pc \in {"outer", "done"} => xval \notin poor /\ fval = xval

\* A search ended by the relative change of the objective has seen RelIters
\* objectives within tolerance of each other, the zeros of the unused slots
\* among them. The order of the slots does not matter, although the slot
\* compared with is rarely the latest.
EarlyStopSettled ==
  pc = "done" /\ iter < MaxIters
    => \A i \in Slots :
         (IF i < Len(trail) THEN trail[Len(trail) - i] ELSE 0)
           = trail[Len(trail)]

\* The design written to the optimization output after an outer iteration is
\* the one evaluated last, so the state of the analysis is that of XVAL.
OutputOfLastEvaluated ==
  [][pc = "judge" /\ pc' \in {"outer", "done"} => xval' = asked /\ returned = xval']_vars

\* When neither the design the search starts from nor the zero vector is poor,
\* the search ends: backtracking then always reaches a design that is not poor.
OptimizeReturns == {Zero, Start} \cap poor = {} => <>(pc = "done")
=============================================================================
