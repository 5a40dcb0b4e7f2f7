-------------------------- MODULE SimpOptimization --------------------------
(***************************************************************************)
(* The function evaluation of examples/structural/example_6 (topology       *)
(* optimization with a penalized density) over AnalysisSystem: evaluate,    *)
(* the sensitivities of its stress constraint, and output.                  *)
(*                                                                          *)
(* The modulus of elasticity has one penalty while equations are solved and *)
(* another while stresses are evaluated; both share one object, so every    *)
(* assembly sees the penalty that was set last. The density function the    *)
(* modulus reads must be cleared before it is initialized again.            *)
(***************************************************************************)
EXTENDS AnalysisSystem

CONSTANTS
  NVars,     \* _n_vars
  Big,       \* the values returned when the analysis diverges
  NoDesign   \* the content of arrays nobody has written

ASSUME DriverAssumption ==
  /\ NVars \in Nat \ {0}
  /\ Modes = {"solve", "stress"}
  /\ Big \notin Designs /\ NoDesign \notin Designs /\ Big # NoDesign

VARIABLES
  pc,        \* idle, static, newton, outputs, adjoint, residual, partial,
             \* finish, aborted
  diverges,  \* the designs whose static solve diverges
  asked,     \* the design of the evaluation
  wanted,    \* its gradients were asked for
  writing,   \* the evaluation is the one of output
  i,         \* the design variable of the sensitivity loop
  density,   \* the design _density_function is initialized with, or NoDesign
  perturbed, \* the variable _density_sens_function is initialized with, or 0
  stress,    \* what the stress output holds
  residual,  \* the sensitivity of the residual of this pass
  grads,     \* the gradient of the constraint by variable
  returned,  \* the design whose functions were returned, or Big
  gradient   \* observer: the design the returned gradients belong to

driver == <<pc, asked, wanted, writing>>
fields == <<density, perturbed>>
results == <<stress, residual, grads>>
answers == <<returned, gradient>>
vars == <<analysisVars, pc, diverges, asked, wanted, writing, i, density,
          perturbed, stress, residual, grads, returned, gradient>>

Variables == 1 .. NVars

Solve(x)  == <<x, "solve">>
Stress(x) == <<x, "stress">>

-----------------------------------------------------------------------------
(* A definition commented as a slip is a wrong form of the one after it.     *)

\* adjoint_solve(..., false): the Jacobian of the static solve is used.
AssembleJacobian == FALSE

\* Slip: the penalty of the stresses for all of the loop.
PenaltyKept == elem[2]

\* set_penalty_val(penalty) before the residual's sensitivity.
ResidualPenalty == "solve"

\* Slip: the last line of evaluate is missing.
DensityKept == density

\* _density_function->clear() at the end of evaluate.
DensityAfter == NoDesign

\* for (i=0; i<_n_vars; i++), counted from 1.
MoreVariables == i < NVars

\* obj and fvals are set to large values when the solve diverged.
ValuesOnDivergence == Big

\* The stress of design x: its elements and its solution.
StressRight(x) == stress = Jacobian(Stress(x), Converged(Solve(x)))

\* The derivative of the stress of design x by variable k: the adjoint belongs to
\* the equations of x and to its stress, the residual is differentiated with the
\* penalty of the solve, the partial derivative with that of the stress.
GradientRight(x, k, part) ==
  /\ adjoint.lhs.elem = Solve(x)
  /\ adjoint.rhs = Jacobian(Stress(x), Converged(Solve(x)))
  /\ residual = [at |-> Jacobian(Solve(x), Converged(Solve(x))), by |-> k]
  /\ part = [at |-> Jacobian(Stress(x), Converged(Solve(x))), by |-> k]

-----------------------------------------------------------------------------
Init ==
  /\ AnalysisInit
  /\ pc = "idle"
  /\ diverges \in SUBSET Designs
  /\ asked = elem[1]
  /\ wanted = FALSE /\ writing = FALSE
  /\ i = 1
  /\ density = NoDesign /\ perturbed = 0
  /\ stress = None /\ residual = None
  /\ grads = [k \in Variables |-> NoDesign]
  /\ returned = NoDesign /\ gradient = NoDesign

\* The top of evaluate: design to density, density function, zero solution.
Enter(x) ==
  /\ NewAssembly
  /\ SetElem(<<x, elem[2]>>)
  /\ ZeroSolution
  /\ asked' = x
  /\ pc' = "static"
  /\ UNCHANGED <<op, newton, matrix, eigenData, adjoint, diverges, i,
                 perturbed, results, answers>>

Evaluate(x, g) ==
  /\ pc = "idle"
  /\ density' = x
  /\ wanted' = g /\ writing' = FALSE
  /\ Enter(x)

\* output initializes the density function without clearing it, which asserts
\* that it is clear, and then evaluates the design.
Output(x) ==
  /\ pc = "idle"
  /\ density = NoDesign
  /\ density' = x
  /\ wanted' = FALSE /\ writing' = TRUE
  /\ Enter(x)

OutputFails ==
  /\ pc = "idle"
  /\ density # NoDesign
  /\ pc' = "aborted"
  /\ UNCHANGED <<analysisVars, diverges, asked, wanted, writing, i, fields,
                 results, answers>>

\* set_penalty_val(penalty), then solve.
StaticSolve ==
  /\ pc = "static"
  /\ SetElem(Solve(elem[1]))
  /\ SolveBegin
  /\ pc' = "newton"
  /\ UNCHANGED <<diverges, asked, wanted, writing, i, fields, results, answers>>

\* The iterations of a design that does not diverge reach the solution.
Newton ==
  /\ pc = "newton"
  /\ sol # Converged(elem)
  /\ NewtonIteration
  /\ IF asked \in diverges THEN sol' # Converged(elem)
     ELSE newton' = MaxNewton => sol' = Converged(elem)
  /\ UNCHANGED <<diverges, driver, i, fields, results, answers>>

\* The solve converged: a residual below 0.1 counts as convergence.
Solved ==
  /\ pc = "newton"
  /\ sol = Converged(elem)
  /\ SolveEnd
  /\ pc' = "outputs"
  /\ UNCHANGED <<diverges, asked, wanted, writing, i, fields, results, answers>>

\* The early return: large values, gradients untouched. evaluate leaves the
\* density function initialized; output clears it after evaluate returned.
Diverged ==
  /\ pc = "newton"
  /\ asked \in diverges
  /\ SolveEnd
  /\ returned' = IF writing THEN returned ELSE ValuesOnDivergence
  /\ density' = IF writing THEN NoDesign ELSE density
  /\ wanted' = FALSE /\ writing' = FALSE
  /\ pc' = "idle"
  /\ UNCHANGED <<diverges, asked, i, perturbed, results, gradient>>

\* set_penalty_val(stress_penalty), the stress output, the volume and, when it is
\* asked for, the gradient of the volume.
Outputs ==
  /\ pc = "outputs"
  /\ Idle
  /\ SetElem(Stress(elem[1]))
  /\ stress' = Jacobian(elem', sol)
  /\ pc' = IF wanted THEN "adjoint" ELSE "finish"
  /\ UNCHANGED <<protocol, newton, sol, matrix, eigenData, adjoint, diverges,
                 asked, wanted, writing, i, fields, residual, grads, answers>>

\* _evaluate_stress_sensitivity: the adjoint solution of the stress.
Adjoint ==
  /\ pc = "adjoint"
  /\ AdjointSolve(AssembleJacobian)
  /\ i' = 1
  /\ pc' = "residual"
  /\ UNCHANGED <<diverges, asked, wanted, writing, fields, results, answers>>

\* One pass, first half: the density's perturbation, the penalty of the solve,
\* and the adjoint times the residual's sensitivity.
ResidualSensitivity ==
  /\ pc = "residual"
  /\ perturbed = 0 /\ Idle
  /\ IF i = 1 THEN AttachDependence ELSE UNCHANGED dependence
  /\ perturbed' = i
  /\ SetElem(<<elem[1], ResidualPenalty>>)
  /\ residual' = [at |-> Jacobian(elem', sol), by |-> perturbed']
  /\ pc' = "partial"
  /\ UNCHANGED <<op, attached, newton, sol, matrix, eigenData, adjoint,
                 diverges, asked, wanted, writing, i, density, stress, grads,
                 answers>>

\* Second half: the penalty of the stresses and the partial derivative. The pass
\* clears the perturbation, the loop's end the dependence.
PartialSensitivity ==
  /\ pc = "partial"
  /\ Idle
  /\ SetElem(Stress(elem[1]))
  /\ LET part == [at |-> Jacobian(elem', sol), by |-> perturbed]
     IN grads' = [grads EXCEPT ![i] =
                    IF GradientRight(asked, i, part) THEN asked ELSE NoDesign]
  /\ perturbed' = 0
  /\ IF MoreVariables
     THEN i' = i + 1 /\ pc' = "residual" /\ UNCHANGED dependence
     ELSE i' = i /\ pc' = "finish" /\ ClearDependence
  /\ UNCHANGED <<op, attached, newton, sol, matrix, eigenData, adjoint,
                 diverges, asked, wanted, writing, density, stress, residual,
                 answers>>

\* The stresses are stored for plotting, the density function is cleared, and
\* the caller has its functions and gradients.
Finish ==
  /\ pc = "finish"
  /\ density' = DensityAfter
  /\ returned' = IF writing THEN returned
                 ELSE IF StressRight(asked) THEN asked ELSE NoDesign
  /\ gradient' = IF ~wanted THEN gradient
                 ELSE IF \A k \in Variables : grads[k] = asked THEN asked
                 ELSE NoDesign
  /\ wanted' = FALSE /\ writing' = FALSE
  /\ pc' = "idle"
  /\ UNCHANGED <<analysisVars, diverges, asked, i, perturbed, results>>

InEvaluate == StaticSolve \/ Newton \/ Solved \/ Diverged \/ Outputs \/ Adjoint
              \/ ResidualSensitivity \/ PartialSensitivity \/ Finish

Aborted == pc = "aborted" /\ UNCHANGED vars

Next ==
  \/ \E x \in Designs : Output(x) \/ \E g \in BOOLEAN : Evaluate(x, g)
  \/ OutputFails
  \/ InEvaluate
  \/ Aborted

Spec == Init /\ [][Next]_vars

-----------------------------------------------------------------------------
\* Types of all variables.
TypeOK ==
  /\ AnalysisType
  /\ pc \in {"idle", "static", "newton", "outputs", "adjoint", "residual",
             "partial", "finish", "aborted"}
  /\ asked \in Designs /\ diverges \subseteq Designs
  /\ wanted \in BOOLEAN /\ writing \in BOOLEAN
  /\ i \in Variables /\ perturbed \in Variables \cup {0}
  /\ density \in Designs \cup {NoDesign}
  /\ returned \in Designs \cup {Big, NoDesign}

\* evaluate keeps its promise to the optimizer: functions and gradients are those
\* of the design asked for, whatever modes and fields the last evaluation, also
\* one that diverged, left behind, and output changes neither.
Contract == INSTANCE DesignEvaluation WITH
  busy <- pc \notin {"idle", "aborted"} /\ ~writing,
  values <- returned
KeepsContract == Contract!Spec

\* Between evaluations no operation is in progress and no field is initialized,
\* except the density of an evaluation that diverged.
Released ==
  pc = "idle" =>
    /\ op = "NONE" /\ perturbed = 0
    /\ density = NoDesign \/ (density = asked /\ asked \in diverges)
=============================================================================
