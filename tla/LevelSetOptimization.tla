------------------------ MODULE LevelSetOptimization ------------------------
(***************************************************************************)
(* The function evaluation of examples/structural/example_5 (topology       *)
(* optimization with a level set) over AnalysisSystem: refinement of the    *)
(* mesh at the boundary, the static solve, the eigenproblem, the gradients  *)
(* of volume, perimeter, stress and eigenvalues, and output.                *)
(*                                                                          *)
(* The mode of an element is the mesh it is on, which an evaluation changes *)
(* and the next one inherits. Functions and gradients are named by what     *)
(* they were computed as: <<function, variable, design>>, variable 0 for    *)
(* the function itself. Function 0 is the stress, function n the n-th       *)
(* eigenvalue.                                                              *)
(***************************************************************************)
EXTENDS AnalysisSystem

CONSTANTS
  Problems,  \* pairs of _n_vars and _n_eig_vals
  MaxRefine, \* max_refinements
  Big,       \* the values returned when the analysis diverges
  NoDesign   \* the content of arrays nobody has written

ASSUME LevelSetAssumption ==
  /\ Problems \subseteq (Nat \ {0}) \X Nat
  /\ MaxRefine \in Nat
  /\ Big \notin Designs /\ NoDesign \notin Designs /\ Big # NoDesign

VARIABLES
  problem,     \* the pair of this optimization
  pc,          \* idle, refine, newton, outputs, eigen, objective, adjoint,
               \* residual, modal, finish, modes, aborted
  diverges,    \* the designs whose static solve diverges
  asked,       \* the design of the evaluation
  wanted,      \* its gradients were asked for
  writing,     \* the evaluation is the one of output
  i,           \* the design variable of the loop
  refinements, \* n_refinements
  velocity,    \* the variable and design _level_set_vel is initialized with
  fvals,       \* the functions by index
  objGrad,     \* the gradient of the objective by variable
  grads,       \* the gradients of the constraints by index of the array
  returned,    \* the design whose functions were returned, or Big
  gradient,    \* observer: the design the returned gradients belong to
  modes        \* observer: the design of the modes output wrote last

driver == <<problem, diverges, asked, wanted, writing>>
answers == <<returned, gradient, modes>>
arrays == <<fvals, objGrad, grads>>
vars == <<analysisVars, driver, pc, i, refinements, velocity, arrays,
          answers>>

NVars == problem[1]
NEig  == problem[2]
NIneq == 1 + NEig
Variables == 0 .. NVars - 1
Functions == 0 .. NEig

Stress  == 0
Missing == <<"not converged">>
Value(f, x) == <<f, -1, x>>
Derivative(f, v, x) == <<f, v, x>>

-----------------------------------------------------------------------------
(* A definition commented as a slip is a wrong form of the one after it.     *)

\* The index of function f and variable v in the optimizer's array.
ArrayIndex(f, v) == v * NIneq + f

\* Where the sensitivity of the stress is stored.
StressIndex(v) == 1 * v + 0

\* The index of the eigenvalue read for function f.
EigenvalueRead(f) == 1

\* Slip: the velocity of the last variable of the volume's loop is kept.
VelocityKept(v) == velocity

\* _level_set_vel->init in every pass of the loop.
VelocityOf(v) == <<v, asked>>

\* for (i=0; i<_n_vars; i++)
MoreVariables == i + 1 < NVars

\* Slip: the eigenproblem is solved once for all designs.
EigenproblemOnce(n) ==
  IF eigen = None THEN EigenproblemSolve(n) ELSE UNCHANGED analysisVars

\* The eigenproblem is solved with the elements of this evaluation.
Eigenproblem(n) == EigenproblemSolve(n)

\* Slip: off by one.
MoreThanOne == nconv > 1

\* libmesh_assert(_n_converged_eigenpairs)
SomeConverged == nconv > 0

SolutionRight == sol = Converged(elem) /\ elem[1] = asked

\* The values of the functions and the sensitivities of an evaluation of x.
FunctionsRight(x) ==
  \A f \in Functions :
    fvals[f] = Value(f, x) \/ (f > nconv /\ fvals[f] = Missing)
GradientsRight(x) ==
  \A v \in Variables :
    /\ objGrad[v] = Derivative("volume", v, x)
    /\ \A f \in Functions : grads[ArrayIndex(f, v)] = Derivative(f, v, x)
-----------------------------------------------------------------------------
Init ==
  /\ AnalysisInit
  /\ problem \in Problems
  /\ pc = "idle"
  /\ diverges \in SUBSET Designs
  /\ asked = elem[1]
  /\ wanted = FALSE /\ writing = FALSE
  /\ i = 0 /\ refinements = 0
  /\ velocity = None
  /\ fvals = [f \in Functions |-> NoDesign]
  /\ objGrad = [v \in Variables |-> NoDesign]
  /\ grads = [k \in 0 .. NVars * NIneq - 1 |-> NoDesign]
  /\ returned = NoDesign /\ gradient = NoDesign /\ modes = NoDesign

\* The top of evaluate: the level set of the design on the mesh left by the last
\* evaluation, zero solution.
Enter(x) ==
  /\ pc = "idle"
  /\ NewAssembly
  /\ SetElem(<<x, elem[2]>>)
  /\ ZeroSolution
  /\ asked' = x
  /\ refinements' = 0
  /\ pc' = "refine"
  /\ UNCHANGED <<op, newton, matrix, eigenData, adjoint, problem,
                 diverges, i, velocity, arrays, answers>>

Evaluate(x, g) == wanted' = g /\ writing' = FALSE /\ Enter(x)

Output(x) == wanted' = FALSE /\ writing' = TRUE /\ Enter(x)

\* The largest error is above the threshold: elements at the boundary are
\* flagged. The systems are initialized again if that changes the mesh.
Refine ==
  /\ pc = "refine"
  /\ refinements < MaxRefine
  /\ refinements' = refinements + 1
  /\ \E m \in Modes : IF m = elem[2] THEN UNCHANGED analysisVars ELSE Reinit(m)
  /\ UNCHANGED <<driver, pc, i, velocity, arrays, answers>>

\* The error is small enough or the refinements are used up.
StaticSolve ==
  /\ pc = "refine"
  /\ SolveBegin
  /\ pc' = "newton"
  /\ UNCHANGED <<elem, driver, i, refinements, velocity, arrays,
                 answers>>

\* The iterations of a design that does not diverge reach the solution.
Newton ==
  /\ pc = "newton"
  /\ sol # Converged(elem)
  /\ NewtonIteration
  /\ IF asked \in diverges THEN sol' # Converged(elem)
     ELSE newton' = MaxNewton => sol' = Converged(elem)
  /\ UNCHANGED <<driver, pc, i, refinements, velocity, arrays,
                 answers>>

Solved ==
  /\ pc = "newton"
  /\ sol = Converged(elem)
  /\ SolveEnd
  /\ pc' = "outputs"
  /\ UNCHANGED <<driver, i, refinements, velocity, arrays, answers>>

\* The early return: large values, gradients untouched. output goes on.
Diverged ==
  /\ pc = "newton"
  /\ asked \in diverges
  /\ SolveEnd
  /\ returned' = IF writing THEN returned ELSE Big
  /\ wanted' = FALSE
  /\ pc' = IF writing THEN "modes" ELSE "idle"
  /\ UNCHANGED <<problem, diverges, asked, writing, i, refinements,
                 velocity, arrays, gradient, modes>>

\* Stress, volume and perimeter.
Outputs ==
  /\ pc = "outputs"
  /\ Idle
  /\ fvals' = [fvals EXCEPT ![Stress] =
                 IF SolutionRight THEN Value(Stress, asked) ELSE NoDesign]
  /\ i' = 0
  /\ pc' = IF NEig > 0 THEN "eigen"
           ELSE IF wanted THEN "objective" ELSE "finish"
  /\ UNCHANGED <<analysisVars, driver, refinements, velocity, objGrad, grads,
                 answers>>

\* Eigenvalues that did not converge count as zero. Each of the others is read
\* at one index.
Eigenvalues ==
  /\ pc = "eigen"
  /\ Eigenproblem(NEig)
  /\ fvals' = [f \in Functions |->
                 IF f = Stress THEN fvals[f]
                 ELSE IF f > nconv' THEN Missing
                 ELSE Value(EigenvalueRead(f), eigen'[1])]
  /\ pc' = IF wanted THEN "objective" ELSE "finish"
  /\ UNCHANGED <<driver, i, refinements, velocity, objGrad, grads,
                 answers>>

\* One pass of _evaluate_volume_sensitivity: volume and perimeter, with an
\* assembly of their own.
ObjectiveSensitivity ==
  /\ pc = "objective"
  /\ velocity' = <<i, asked>>
  /\ objGrad' = [objGrad EXCEPT ![i] =
                   Derivative("volume", velocity'[1], elem[1])]
  /\ IF MoreVariables THEN i' = i + 1 /\ pc' = pc
     ELSE i' = 0 /\ pc' = "adjoint"
  /\ UNCHANGED <<analysisVars, driver, refinements, fvals, grads, answers>>

\* _evaluate_stress_sensitivity: the Jacobian of the last solve is used.
Adjoint ==
  /\ pc = "adjoint"
  /\ AdjointSolve(FALSE)
  /\ pc' = "residual"
  /\ UNCHANGED <<driver, i, refinements, velocity, arrays, answers>>

\* One pass: the sensitivity of the stress with the velocity of the variable.
StressSensitivity ==
  /\ pc = "residual"
  /\ Idle
  /\ IF i = 0 THEN AttachDependence ELSE UNCHANGED dependence
  /\ velocity' = VelocityOf(i)
  /\ LET right == /\ adjoint.lhs.elem = elem
                  /\ adjoint.rhs = Jacobian(elem, Converged(elem))
                  /\ velocity'[2] = elem[1]
     IN grads' = [grads EXCEPT ![StressIndex(i)] =
                    IF right THEN Derivative(Stress, velocity'[1], elem[1])
                    ELSE NoDesign]
  /\ pc' = "modal"
  /\ UNCHANGED <<op, attached, elem, newton, sol, matrix, eigenData, adjoint,
                 driver, i, refinements, fvals, objGrad, answers>>

\* The end of a pass, which is the end of the loop after the last variable.
NextVariable ==
  IF MoreVariables THEN i' = i + 1 /\ pc' = "residual" /\ UNCHANGED dependence
  ELSE i' = 0 /\ pc' = "finish" /\ ClearDependence

\* The sensitivities of the converged eigenvalues.
EigenvalueSensitivity ==
  /\ pc = "modal"
  /\ NEig > 0 /\ SomeConverged
  /\ EigenproblemSensitivity(i)
  /\ grads' = [k \in DOMAIN grads |->
       LET f == k - NIneq * i
       IN IF f \notin 1 .. nconv THEN grads[k]
          ELSE IF EigenSensitivityRight THEN Derivative(f, velocity[1], elem[1])
          ELSE NoDesign]
  /\ i' = i /\ pc' = "pass"
  /\ UNCHANGED <<driver, refinements, velocity, fvals, objGrad,
                 answers>>

\* eigenproblem_sensitivity_solve asserts that an eigenpair has converged.
NoEigenpair ==
  /\ pc = "modal"
  /\ NEig > 0 /\ ~SomeConverged
  /\ pc' = "aborted"
  /\ UNCHANGED <<analysisVars, driver, i, refinements, velocity,
                 arrays, answers>>

PassDone ==
  /\ pc = "pass" \/ (pc = "modal" /\ NEig = 0)
  /\ NextVariable
  /\ UNCHANGED <<op, attached, elem, newton, sol, matrix, eigenData, adjoint,
                 driver, refinements, velocity, arrays, answers>>

\* The caller has its functions and gradients; output goes on.
Finish ==
  /\ pc = "finish"
  /\ returned' = IF writing THEN returned
                 ELSE IF FunctionsRight(asked) THEN asked ELSE NoDesign
  /\ gradient' = IF ~wanted THEN gradient
                 ELSE IF GradientsRight(asked) THEN asked ELSE NoDesign
  /\ wanted' = FALSE
  /\ pc' = IF writing THEN "modes" ELSE "idle"
  /\ UNCHANGED <<analysisVars, problem, diverges, asked, writing, i,
                 refinements, velocity, arrays, modes>>

\* output writes the converged modes, read into the solution, and zeroes it.
WriteModes ==
  /\ pc = "modes"
  /\ EigenpairsExist \/ NEig = 0
  /\ modes' = IF NEig = 0 \/ nconv = 0 THEN modes
              ELSE IF Normalized THEN eigen[1] ELSE NoDesign
  /\ sol' = IF NEig > 0 THEN ZeroSol ELSE sol
  /\ writing' = FALSE
  /\ pc' = "idle"
  /\ UNCHANGED <<protocol, elem, newton, matrix, eigenData, adjoint, problem,
                 diverges, asked, wanted, i, refinements, velocity,
                 arrays, returned, gradient>>

\* The eigenpairs counted as converged are gone with the eigensolver.
ModesGone ==
  /\ pc = "modes"
  /\ NEig > 0 /\ ~EigenpairsExist
  /\ pc' = "aborted"
  /\ UNCHANGED <<analysisVars, driver, i, refinements, velocity,
                 arrays, answers>>

InEvaluate ==
  \/ Refine \/ StaticSolve \/ Newton \/ Solved \/ Diverged \/ Outputs
  \/ Eigenvalues \/ ObjectiveSensitivity \/ Adjoint \/ StressSensitivity
  \/ EigenvalueSensitivity \/ NoEigenpair \/ PassDone \/ Finish
  \/ WriteModes \/ ModesGone

Aborted == pc = "aborted" /\ UNCHANGED vars

Next ==
  \/ \E x \in Designs : Output(x) \/ \E g \in BOOLEAN : Evaluate(x, g)
  \/ InEvaluate
  \/ Aborted

Spec == Init /\ [][Next]_vars
-----------------------------------------------------------------------------
\* Types of all variables.
TypeOK ==
  /\ AnalysisType
  /\ pc \in {"idle", "refine", "newton", "outputs", "eigen", "objective",
             "adjoint", "residual", "modal", "pass", "finish", "modes",
             "aborted"}
  /\ asked \in Designs /\ diverges \subseteq Designs
  /\ wanted \in BOOLEAN /\ writing \in BOOLEAN
  /\ i \in Variables /\ refinements \in 0 .. MaxRefine
  /\ DOMAIN grads = 0 .. NVars * NIneq - 1 /\ DOMAIN objGrad = Variables
  /\ returned \in Designs \cup {Big, NoDesign}

\* evaluate keeps its promise to the optimizer: functions and gradients are those
\* of the design asked for, whatever mesh, eigenpairs and fields the evaluations
\* before it left behind.
Contract == INSTANCE DesignEvaluation WITH
  busy <- pc # "idle" /\ ~writing,
  values <- returned
KeepsContract == Contract!Spec

\* The modes written last are normalized modes of the design they were written
\* for, unless the evaluation for that design diverged.
ModesOfDesign ==
  [][modes' # modes => modes' = asked \/ asked \in diverges]_vars

\* The program stops only where an eigenpair is read that does not exist: in a
\* gradient when none converged, or in output after a diverged evaluation had
\* changed the mesh.
AbortsWithoutEigenpairs ==
  pc = "aborted" =>
    \/ wanted /\ nconv = 0
    \/ writing /\ asked \in diverges /\ eigen = None
=============================================================================
