-------------------------- MODULE ContinuationSolver --------------------------
(***************************************************************************)
(* ContinuationSolverBase::solve with the pseudo-arclength solver: one load *)
(* step is a Newton loop that is restarted with half the arc length when it *)
(* does not converge in max_it iterations, followed by the adaptation of    *)
(* the arc length for the next load step.                                   *)
(*                                                                          *)
(* Arc lengths are whole multiples of a unit. X, the load parameter and the *)
(* search direction are the number of updates they have had since the load  *)
(* step began; whether an iterate has converged is a free choice.           *)
(***************************************************************************)
EXTENDS Integers

CONSTANTS
  MaxIt,         \* max_it
  MinStep,       \* min_step
  MaxStep,       \* max_step
  DesiredIters,  \* step_desired_iters
  InitialArcs,   \* arc lengths after initialize and the driver's scaling
  Parameters,    \* load parameters: temperature, pressure
  MaxSolves,     \* bound: load steps a driver takes
  RestartBound   \* bound: restarts of a load step that are counted

ASSUME ItersAssumption ==
  /\ MaxIt \in Nat \ {0} /\ DesiredIters \in Nat \ {0} /\ MaxSolves \in Nat
  /\ RestartBound \in Nat
ASSUME StepAssumption ==
  MinStep \in Nat \ {0} /\ MaxStep \in Nat /\ MinStep <= MaxStep
\* initialize asserts arc_length > 0
ASSUME ArcAssumption == InitialArcs \subseteq Nat \ {0}

NoParameter == "none"

ASSUME ParameterAssumption == NoParameter \notin Parameters

VARIABLES
  pc,           \* ready, iterate, check
  attached,     \* the parameter _p points to, or NoParameter
  initialized,  \* _initialized
  solves,       \* load steps begun
  iter,         \* iter
  arc,          \* arc_length
  x, p, dir,    \* updates of X, *_p and _t0 since the load step began
  dir0,         \* _t0_orig
  conv,         \* norm < abs_tol or norm/norm0 < rel_tol
  outcome,      \* of the last load step: none, converged, unconverged
  lastIter,     \* iter of the last load step when it returned
  lastArc,      \* arc_length when it returned, before adaptation
  restarts,     \* restarts of the load step
  firstArc      \* arc_length when the load step began

object  == <<attached, initialized>>
iterate == <<x, p, dir>>
last    == <<outcome, lastIter, lastArc>>
ContinuationVars ==
  <<pc, attached, initialized, solves, iter, arc, x, p, dir, dir0,
    conv, outcome, lastIter, lastArc, restarts, firstArc>>

-----------------------------------------------------------------------------
(* Operators the handlers share. A definition commented as a slip is a wrong   *)
(* form of the one after it, kept to see which property would notice it.      *)

Larger(a, b)  == IF a >= b THEN a ELSE b

\* factor*arc_length for a factor above one, capped by max_step.
Increased(a) == IF a < MaxStep THEN a + 1 .. MaxStep ELSE {MaxStep}

\* factor*arc_length for a factor below one, but at least min_step.
Reduced(a) == IF a > MinStep THEN MinStep .. a - 1 ELSE {MinStep}

\* Part of the slip below: no bound by min_step.
ReducedFreely(a) == IF a > 1 THEN 1 .. a - 1 ELSE {1}

\* Slip: the reduced arc length is not bounded by min_step.
AdaptedFreely(a, n) ==
  CASE DesiredIters > n + 1 -> Increased(a)
    [] DesiredIters = n + 1 -> {a}
    [] DesiredIters < n + 1 -> ReducedFreely(a)

\* The change of the arc length after a load step of n iterations: the factor
\* is (step_desired_iters/(n + 1)) to a positive exponent.
Adapted(a, n) ==
  CASE DesiredIters > n + 1 -> Increased(a)
    [] DesiredIters = n + 1 -> {a}
    [] DesiredIters < n + 1 -> Reduced(a)

\* Slip: the next attempt keeps the arc length.
KeptArc(a) == a

\* The arc length of the next attempt.
Halved(a) == Larger(MinStep, a \div 2)

\* Slip: the direction is saved before norm0 is computed.
SavedBefore == 0

\* The direction kept for restarts: _res_norm has updated it once before
\* _save_iteration_data copies it.
SavedDirection == 1

\* Slip: a restart only when two halvings are left.
CanRetryTwice == arc > 2 * MinStep
\* Slip: >= for >.
CanRetryAtMinStep == arc >= MinStep

\* A load step is restarted while its arc length is above min_step.
CanRetry == arc > MinStep

\* iter >= max_it ends an attempt.
IterationsLeft == iter < MaxIt

\* _update_search_direction: the direction of this iterate is computed from the
\* last one, which it replaces.
Redirected(d) == d + 1

\* _res_norm: evaluating the arc length constraint updates the direction too.
NormDirection(d) == Redirected(d)

\* One linear solve with the system enlarged by the constraint, monolithic or
\* by Schur factorization, gives dX and dp.
Incremented(n) == n + 1

-----------------------------------------------------------------------------
ContinuationInit ==
  /\ pc = "ready"
  /\ attached = NoParameter
  /\ initialized = FALSE
  /\ solves = 0
  /\ iter = 0
  /\ arc \in InitialArcs
  /\ x = 0 /\ p = 0 /\ dir = 0 /\ dir0 = 0
  /\ conv = FALSE
  /\ outcome = "none" /\ lastIter = 0 /\ lastArc = arc
  /\ restarts = 0 /\ firstArc = arc

SetAssemblyAndLoadParameter(q) ==
  /\ pc = "ready"
  /\ attached = NoParameter
  /\ attached' = q
  /\ UNCHANGED <<pc, initialized, solves, iter, arc, iterate, dir0, conv,
                 last, restarts, firstArc>>

\* clear_assembly_and_load_parameters; _initialized stays.
ClearAssemblyAndLoadParameters ==
  /\ pc = "ready"
  /\ attached # NoParameter
  /\ attached' = NoParameter
  /\ UNCHANGED <<pc, initialized, solves, iter, arc, iterate, dir0, conv,
                 last, restarts, firstArc>>

\* initialize: asserts that it runs once per object; the direction of the
\* parameter's first increment. The driver then scales arc_length, which
\* ContinuationInit has chosen.
Initialize ==
  /\ pc = "ready"
  /\ attached # NoParameter
  /\ ~initialized
  /\ initialized' = TRUE
  /\ UNCHANGED <<pc, attached, solves, iter, arc, iterate, dir0, conv, last,
                 restarts, firstArc>>

\* solve up to its loop: X0 and p0 are kept, norm0 is computed, and with it
\* the search direction is updated once before it is saved.
BeginSolve ==
  /\ pc = "ready"
  /\ attached # NoParameter
  /\ initialized
  /\ solves < MaxSolves
  /\ pc' = "iterate"
  /\ solves' = solves + 1
  /\ iter' = 0
  /\ x' = 0 /\ p' = 0
  /\ dir' = NormDirection(0)
  /\ dir0' = SavedDirection
  /\ conv' = FALSE
  /\ restarts' = 0
  /\ firstArc' = arc
  /\ UNCHANGED <<object, arc, last>>

\* _solve_NR_iterate and _res_norm: each updates the search direction.
Iterate ==
  /\ pc = "iterate"
  /\ pc' = "check"
  /\ x' = Incremented(x) /\ p' = Incremented(p)
  /\ dir' = NormDirection(Redirected(dir))
  /\ iter' = iter + 1
  /\ conv' \in BOOLEAN
  /\ UNCHANGED <<object, solves, arc, dir0, last, restarts, firstArc>>

\* Another Newton iteration of the same attempt.
Continue ==
  /\ pc = "check"
  /\ ~conv
  /\ IterationsLeft
  /\ pc' = "iterate"
  /\ UNCHANGED <<object, solves, iter, arc, iterate, dir0, conv, last,
                 restarts, firstArc>>

\* iter >= max_it and arc_length > min_step: X, the parameter and the direction
\* are reset; cont = true overrides the convergence tests before it.
Restart ==
  /\ pc = "check"
  /\ ~IterationsLeft
  /\ CanRetry
  /\ pc' = "iterate"
  /\ iter' = 0
  /\ arc' = Halved(arc)
  /\ x' = 0 /\ p' = 0
  /\ dir' = dir0
  /\ restarts' = IF restarts < RestartBound THEN restarts + 1 ELSE restarts
  /\ UNCHANGED <<object, solves, dir0, conv, last, firstArc>>

\* The loop ends; the arc length is adapted to the iterations it took.
Return ==
  /\ pc = "check"
  /\ \/ conv /\ IterationsLeft
     \/ ~IterationsLeft /\ ~CanRetry
  /\ pc' = "ready"
  /\ outcome' = IF conv THEN "converged" ELSE "unconverged"
  /\ lastIter' = iter
  /\ lastArc' = arc
  /\ arc' \in Adapted(arc, iter)
  /\ UNCHANGED <<object, solves, iter, iterate, dir0, conv, restarts, firstArc>>

Newton == Iterate \/ Continue \/ Restart \/ Return

ContinuationNext ==
  \/ \E q \in Parameters : SetAssemblyAndLoadParameter(q)
  \/ ClearAssemblyAndLoadParameters
  \/ Initialize
  \/ BeginSolve
  \/ Newton

ContinuationSpec == ContinuationInit /\ [][ContinuationNext]_ContinuationVars

\* The Newton loop runs on the caller's thread without waiting for anything.
FairSpec == ContinuationSpec /\ WF_ContinuationVars(Newton)

-----------------------------------------------------------------------------
(* Properties. *)

\* Flags, counters and arc lengths have their types, and no attempt makes more
\* than max_it iterations.
ContinuationTypeOK ==
  /\ pc \in {"ready", "iterate", "check"}
  /\ attached \in Parameters \cup {NoParameter}
  /\ initialized \in BOOLEAN
  /\ solves \in 0 .. MaxSolves
  /\ iter \in 0 .. MaxIt
  /\ arc \in Nat \ {0}
  /\ x \in Nat /\ p \in Nat /\ dir \in Nat /\ dir0 \in Nat
  /\ conv \in BOOLEAN
  /\ outcome \in {"none", "converged", "unconverged"}
  /\ lastIter \in 0 .. MaxIt
  /\ lastArc \in Nat
  /\ restarts \in Nat
  /\ firstArc \in Nat

\* Every attempt at a load step, the first and each restart, begins at the same
\* solution, load and search direction.
AttemptsStartAlike ==
  (pc = "iterate" /\ iter = 0) => x = 0 /\ p = 0 /\ dir = 1

\* An arc length the driver chose between min_step and max_step stays there
\* over every restart and adaptation.
ArcLengthInRange == arc \in MinStep .. MaxStep

\* A load step is given up only after max_it iterations at an arc length that
\* cannot be reduced any more.
GaveUpOnlyAtMinStep ==
  outcome = "unconverged" => lastIter = MaxIt /\ lastArc <= MinStep

\* A load step is restarted at most once per halving of the arc length it
\* began with, so its iterations are bounded by the step sizes.
RestartsBounded ==
  (pc # "ready" /\ restarts > 0) => 2 ^ (restarts - 1) * MinStep < firstArc

\* Every load step returns, however its iterations converge.
SolveReturns == (pc = "iterate") ~> (pc = "ready")
=============================================================================
