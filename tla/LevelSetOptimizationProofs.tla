---------------------- MODULE LevelSetOptimizationProofs ----------------------
(***************************************************************************)
(* Proofs about LevelSetOptimization, for every set of designs and meshes,  *)
(* every choice of the designs that diverge, and every number of variables, *)
(* eigenvalues, refinements and Newton iterations: types, where the program *)
(* stops, and which modes output writes; and, for the problems whose array  *)
(* of gradients is filled by its rule, the refinement of DesignEvaluation.  *)
(* The mesh and the eigenpairs outlive an evaluation, so the invariant says *)
(* with which elements everything was computed that is still read.          *)
(***************************************************************************)
EXTENDS LevelSetOptimization, TLAPS

Sweep       == {"residual", "modal", "pass"}
ForGradient == {"objective", "adjoint"} \cup Sweep
AfterSolve  == {"outputs", "eigen", "finish"} \cup ForGradient

\* The types, the Boolean variables apart from the others.
Flags ==
  /\ attached \in BOOLEAN /\ dependence \in BOOLEAN
  /\ wanted \in BOOLEAN /\ writing \in BOOLEAN

Others ==
  /\ op \in {"NONE", "NONLINEAR_SOLVE"}
  /\ elem \in Elems
  /\ newton \in 0 .. MaxNewton
  /\ nconv \in Nat
  /\ pc \in {"idle", "refine", "newton", "outputs", "eigen", "objective",
             "adjoint", "residual", "modal", "pass", "finish", "modes",
             "aborted"}
  /\ asked \in Designs /\ diverges \subseteq Designs
  /\ i \in Variables /\ refinements \in 0 .. MaxRefine
  /\ DOMAIN grads = 0 .. NVars * NIneq - 1 /\ DOMAIN objGrad = Variables
  /\ returned \in Designs \cup {Big, NoDesign}

\* The parts of the state that say which call is in progress.
Calls ==
  /\ problem \in Problems
  /\ elem[1] = asked
  /\ op = IF pc = "newton" THEN "NONLINEAR_SOLVE" ELSE "NONE"
  /\ attached => pc = "newton"
  /\ pc = "idle" => ~wanted /\ ~writing
  /\ writing => ~wanted
  /\ pc \in ForGradient => wanted
  /\ pc = "modes" => writing
  /\ pc \in AfterSolve => asked \notin diverges

\* A solve starts from zero, and one that has made an iteration has assembled
\* the Jacobian with the elements of the evaluation, which refinement can no
\* longer change.
Solves ==
  /\ pc = "refine" => sol = ZeroSol
  /\ pc = "newton" =>
       /\ newton = 0 => sol = ZeroSol
       /\ newton > 0 => matrix.elem = elem
       /\ sol = Converged(elem) => asked \notin diverges
  /\ pc \in AfterSolve => sol = Converged(elem) /\ matrix.elem = elem

\* Within an evaluation that solves an eigenproblem the eigenpairs are those of
\* its elements from then on, and the pencil is not yet overwritten with
\* derivatives until the first variable is done.
Eigenpairs ==
  NEig > 0 =>
    /\ pc \in ForGradient \cup {"finish"} => eigen = elem
    /\ pc \in {"objective", "adjoint"} => pencil = PencilOf(elem)
    /\ pc \in {"residual", "modal"} /\ i = 0 => pencil = PencilOf(elem)
    /\ pc = "finish" /\ writing => pencil = PencilOf(elem)
    /\ pc = "modes" /\ asked \notin diverges => eigen = elem /\ pencil = PencilOf(elem)

Inv == Flags /\ Others /\ Calls /\ Solves /\ Eigenpairs /\ AbortsWithoutEigenpairs

LEMMA Types == TypeOK <=> Flags /\ Others
BY Zenon DEF TypeOK, AnalysisType, Flags, Others

\* An evaluation has one variable at least, and numbers of both kinds.
LEMMA ProblemTypes ==
  ASSUME problem \in Problems
  PROVE  NVars \in Nat \ {0} /\ NEig \in Nat /\ 0 \in Variables
BY LevelSetAssumption DEF NVars, NEig, Variables

\* Elements are told from the mark of eigenpairs that do not exist.
LEMMA ElemsExist == ASSUME NEW e \in Elems PROVE e # None
BY DEF Elems, None

\* What the solver's iterates are called tells them apart.
LEMMA IteratesDiffer ==
  ASSUME NEW e
  PROVE  ZeroSol # Converged(e) /\ Iterate(e) # Converged(e)
BY DEF ZeroSol, Converged, Iterate

LEMMA InvInit == Init => Inv
<1> SUFFICES ASSUME Init PROVE Inv
  OBVIOUS
<1> USE DEF Init, AnalysisInit
<1>1. Flags
  BY Zenon DEF Flags
<1>2. elem[1] \in Designs /\ 0 \in Variables
  BY ProblemTypes DEF Elems
<1>3. Others
  BY <1>2, AnalysisAssumption, LevelSetAssumption DEF Others
<1>4. Calls
  BY Zenon DEF Calls, ForGradient, AfterSolve, Sweep
<1>5. Solves /\ Eigenpairs /\ AbortsWithoutEigenpairs
  BY DEF Solves, Eigenpairs, AbortsWithoutEigenpairs, ForGradient, AfterSolve, Sweep
<1> QED  BY <1>1, <1>3, <1>4, <1>5 DEF Inv

LEMMA EnterStep ==
  ASSUME Inv, NEW x \in Designs, Enter(x),
         wanted' \in BOOLEAN, writing' \in BOOLEAN, writing' => ~wanted'
  PROVE  Inv'
<1> USE DEF Enter, Inv, NewAssembly, SetElem, ZeroSolution, eigenData, arrays, answers
<1>1. elem' \in Elems /\ elem'[1] = x
  BY DEF Others, Elems
<1>2. Flags'
  BY Zenon DEF Flags
<1>3. Others'
  BY <1>1, LevelSetAssumption DEF Others, Variables, NVars, NEig, NIneq
<1>4. Calls'
  BY <1>1 DEF Calls, ForGradient, AfterSolve, Sweep
<1>5. Solves' /\ Eigenpairs' /\ AbortsWithoutEigenpairs'
  BY DEF Solves, Eigenpairs, AbortsWithoutEigenpairs, ForGradient, AfterSolve, Sweep
<1> QED  BY <1>2, <1>3, <1>4, <1>5

LEMMA InvStep ==
  ASSUME Inv, [Next]_vars
  PROVE  Inv'
<1> USE DEF Inv
<1>0. problem' = problem /\ Variables' = Variables /\ NVars \in Nat \ {0} /\ NEig \in Nat
      /\ 0 \in Variables /\ NEig' = NEig /\ NVars' = NVars /\ NIneq' = NIneq
  <2>1. problem' = problem
    BY DEF Next, InEvaluate, Evaluate, Output, Enter, Refine, StaticSolve, Newton, Solved,
           Diverged, Outputs, Eigenvalues, ObjectiveSensitivity, Adjoint, StressSensitivity,
           EigenvalueSensitivity, NoEigenpair, PassDone, Finish, WriteModes, ModesGone,
           Aborted, vars, driver
  <2> QED  BY <2>1, ProblemTypes DEF Calls, Variables, NVars, NEig, NIneq
<1>1. ASSUME NEW x \in Designs, Output(x) PROVE Inv'
  BY <1>1, EnterStep DEF Output
<1>2. ASSUME NEW x \in Designs, NEW g \in BOOLEAN, Evaluate(x, g) PROVE Inv'
  BY <1>2, EnterStep DEF Evaluate
<1>3. CASE Refine
  <2> USE <1>3 DEF Refine, Reinit, protocol, analysisVars, driver, arrays, answers
  <2>1. elem' \in Elems /\ elem'[1] = elem[1]
    BY DEF Others, Elems
  <2>2. Flags'
    BY Zenon DEF Flags
  <2>3. Others'
    BY <1>0, <2>1, LevelSetAssumption DEF Others
  <2>4. Calls'
    BY <2>1, Zenon DEF Calls, ForGradient, AfterSolve, Sweep
  <2>5. Eigenpairs' /\ AbortsWithoutEigenpairs'
    BY DEF Eigenpairs, AbortsWithoutEigenpairs, ForGradient, Sweep
  <2>9. Solves'
    BY DEF Solves, AfterSolve, ForGradient, Sweep
  <2> QED  BY <2>2, <2>3, <2>4, <2>5, <2>9
<1>4. CASE StaticSolve
  <2> USE <1>4 DEF StaticSolve, SolveBegin, eigenData, driver, arrays, answers
  <2>1. Flags'
    BY Zenon DEF Flags
  <2>2. Others'
    BY <1>0, AnalysisAssumption DEF Others
  <2>3. Calls' /\ Eigenpairs' /\ AbortsWithoutEigenpairs'
    BY <1>0 DEF Calls, Eigenpairs, AbortsWithoutEigenpairs, ForGradient, AfterSolve, Sweep
  <2>9. Solves'
    BY IteratesDiffer DEF Solves, AfterSolve, ForGradient, Sweep
  <2> QED  BY <2>1, <2>2, <2>3, <2>9
<1>5. CASE Newton
  <2> USE <1>5 DEF Newton, NewtonIteration, protocol, eigenData, driver, arrays, answers
  <2>1. newton' \in 0 .. MaxNewton
    BY AnalysisAssumption DEF Others
  <2>2. Flags'
    BY Zenon DEF Flags
  <2>3. Others'
    BY <1>0, <2>1 DEF Others
  <2>4. Calls' /\ Eigenpairs' /\ AbortsWithoutEigenpairs'
    BY <1>0 DEF Calls, Eigenpairs, AbortsWithoutEigenpairs, ForGradient, AfterSolve, Sweep
  <2>9. Solves'
    BY <2>1, AnalysisAssumption DEF Others, Calls, Solves, AfterSolve, ForGradient, Sweep, Jacobian
  <2> QED  BY <2>2, <2>3, <2>4, <2>9
<1>6. CASE Solved
  <2> USE <1>6 DEF Solved, SolveEnd, eigenData, driver, arrays, answers
  <2>1. Flags'
    BY Zenon DEF Flags
  <2>2. Others'
    BY <1>0 DEF Others
  <2>3. Calls' /\ Eigenpairs' /\ AbortsWithoutEigenpairs'
    BY <1>0 DEF Calls, Solves, Eigenpairs, AbortsWithoutEigenpairs, ForGradient, AfterSolve, Sweep
  <2>9. Solves'
    BY DEF Others, Solves, AfterSolve, ForGradient, Sweep
  <2> QED  BY <2>1, <2>2, <2>3, <2>9
<1>7. CASE Diverged
  <2> USE <1>7 DEF Diverged, SolveEnd, eigenData, arrays, answers
  <2>1. Flags'
    BY Zenon DEF Flags
  <2>2. Others'
    BY <1>0 DEF Others
  <2>3. Calls' /\ Eigenpairs' /\ AbortsWithoutEigenpairs'
    BY <1>0 DEF Calls, Eigenpairs, AbortsWithoutEigenpairs, ForGradient, AfterSolve, Sweep
  <2>9. Solves'
    BY DEF Solves, AfterSolve, ForGradient, Sweep
  <2> QED  BY <2>1, <2>2, <2>3, <2>9
<1>8. CASE Outputs
  <2> USE <1>8 DEF Outputs, analysisVars, driver, answers
  <2>1. Flags'
    BY Zenon DEF Flags
  <2>2. Others'
    BY <1>0 DEF Others
  <2>3. Calls' /\ Eigenpairs' /\ AbortsWithoutEigenpairs'
    BY <1>0 DEF Calls, Eigenpairs, AbortsWithoutEigenpairs, ForGradient, AfterSolve, Sweep
  <2>9. Solves'
    BY DEF Solves, AfterSolve, ForGradient, Sweep
  <2> QED  BY <2>1, <2>2, <2>3, <2>9
<1>9. CASE Eigenvalues
  <2> USE <1>9 DEF Eigenvalues, Eigenproblem, EigenproblemSolve, protocol, driver, answers
  <2>1. Flags'
    BY Zenon DEF Flags
  <2>2. Others'
    BY <1>0 DEF Others
  <2>3. Calls' /\ Eigenpairs' /\ AbortsWithoutEigenpairs'
    BY <1>0 DEF Calls, Eigenpairs, AbortsWithoutEigenpairs, ForGradient, AfterSolve, Sweep
  <2>9. Solves'
    BY DEF Solves, AfterSolve, ForGradient, Sweep
  <2> QED  BY <2>1, <2>2, <2>3, <2>9
<1>10. CASE ObjectiveSensitivity
  <2> USE <1>10 DEF ObjectiveSensitivity, analysisVars, driver, answers
  <2>1. i' \in Variables
    BY <1>0 DEF Others, MoreVariables, Variables
  <2>2. Flags'
    BY Zenon DEF Flags
  <2>3. Others'
    BY <1>0, <2>1 DEF Others
  <2>4. Calls' /\ Eigenpairs' /\ AbortsWithoutEigenpairs'
    BY <1>0 DEF Calls, Eigenpairs, AbortsWithoutEigenpairs, ForGradient, AfterSolve, Sweep
  <2>9. Solves'
    BY DEF Solves, AfterSolve, ForGradient, Sweep
  <2> QED  BY <2>2, <2>3, <2>4, <2>9
<1>11. CASE Adjoint
  <2> USE <1>11 DEF Adjoint, AdjointSolve, protocol, eigenData, driver, arrays, answers
  <2>1. Flags'
    BY Zenon DEF Flags
  <2>2. Others'
    BY <1>0 DEF Others
  <2>3. Calls' /\ Eigenpairs' /\ AbortsWithoutEigenpairs'
    BY <1>0 DEF Calls, Eigenpairs, AbortsWithoutEigenpairs, ForGradient, AfterSolve, Sweep
  <2>9. Solves'
    BY DEF Solves, AfterSolve, ForGradient, Sweep
  <2> QED  BY <2>1, <2>2, <2>3, <2>9
<1>12. CASE StressSensitivity
  <2> USE <1>12 DEF StressSensitivity, eigenData, driver, answers
  <2>1. dependence' \in BOOLEAN
    BY Zenon DEF AttachDependence, Flags
  <2>2. Flags'
    BY <2>1, Zenon DEF Flags
  <2>3. Others'
    BY <1>0 DEF Others
  <2>4. Calls' /\ Eigenpairs' /\ AbortsWithoutEigenpairs'
    BY <1>0 DEF Calls, Eigenpairs, AbortsWithoutEigenpairs, ForGradient, AfterSolve, Sweep
  <2>9. Solves'
    BY DEF Solves, AfterSolve, ForGradient, Sweep
  <2> QED  BY <2>2, <2>3, <2>4, <2>9
<1>13. CASE EigenvalueSensitivity
  <2> USE <1>13 DEF EigenvalueSensitivity, EigenproblemSensitivity, protocol, driver, answers
  <2>1. Flags'
    BY Zenon DEF Flags
  <2>2. Others'
    BY <1>0 DEF Others
  <2>3. Calls' /\ Eigenpairs' /\ AbortsWithoutEigenpairs'
    BY <1>0 DEF Calls, Eigenpairs, AbortsWithoutEigenpairs, ForGradient, AfterSolve, Sweep
  <2>9. Solves'
    BY DEF Solves, AfterSolve, ForGradient, Sweep
  <2> QED  BY <2>1, <2>2, <2>3, <2>9
<1>14. CASE NoEigenpair
  <2> USE <1>14 DEF NoEigenpair, SomeConverged, analysisVars, driver, arrays, answers
  <2>1. Flags'
    BY Zenon DEF Flags
  <2>2. Others'
    BY <1>0 DEF Others
  <2>3. Calls' /\ Eigenpairs'
    BY <1>0 DEF Calls, Eigenpairs, ForGradient, AfterSolve, Sweep
  <2>4. AbortsWithoutEigenpairs'
    BY DEF Others, Calls, AbortsWithoutEigenpairs, ForGradient, Sweep
  <2>9. Solves'
    BY DEF Solves, AfterSolve, ForGradient, Sweep
  <2> QED  BY <2>1, <2>2, <2>3, <2>4, <2>9
<1>15. CASE PassDone
  <2> USE <1>15 DEF PassDone, NextVariable, ClearDependence, eigenData, driver, arrays, answers
  <2>1. i' \in Variables /\ (i' # 0 \/ pc' = "finish")
    BY <1>0 DEF Others, MoreVariables, Variables
  <2>2. dependence' \in BOOLEAN
    BY Zenon DEF Flags
  <2>3. Flags'
    BY <2>2, Zenon DEF Flags
  <2>4. Others'
    BY <1>0, <2>1 DEF Others
  <2>5. wanted /\ ~writing
    BY Zenon DEF Calls, Flags, ForGradient, Sweep
  <2>6. Calls' /\ Eigenpairs' /\ AbortsWithoutEigenpairs'
    BY <1>0, <2>1, <2>5 DEF Calls, Eigenpairs, AbortsWithoutEigenpairs, ForGradient, AfterSolve,
                            Sweep
  <2>9. Solves'
    BY DEF Solves, AfterSolve, ForGradient, Sweep
  <2> QED  BY <2>3, <2>4, <2>6, <2>9
<1>16. CASE Finish
  <2> USE <1>16 DEF Finish, analysisVars, arrays
  <2>1. Flags'
    BY Zenon DEF Flags
  <2>2. Others'
    BY <1>0 DEF Others
  <2>3. Calls' /\ Eigenpairs' /\ AbortsWithoutEigenpairs'
    BY <1>0 DEF Calls, Eigenpairs, AbortsWithoutEigenpairs, ForGradient, AfterSolve, Sweep
  <2>9. Solves'
    BY DEF Solves, AfterSolve, ForGradient, Sweep
  <2> QED  BY <2>1, <2>2, <2>3, <2>9
<1>17. CASE WriteModes
  <2> USE <1>17 DEF WriteModes, protocol, eigenData, arrays
  <2>1. Flags'
    BY Zenon DEF Flags
  <2>2. Others'
    BY <1>0 DEF Others
  <2>3. Calls' /\ Eigenpairs' /\ AbortsWithoutEigenpairs'
    BY <1>0 DEF Calls, Eigenpairs, AbortsWithoutEigenpairs, ForGradient, AfterSolve, Sweep
  <2>9. Solves'
    BY DEF Solves, AfterSolve, ForGradient, Sweep
  <2> QED  BY <2>1, <2>2, <2>3, <2>9
<1>18. CASE ModesGone
  <2> USE <1>18 DEF ModesGone, EigenpairsExist, analysisVars, driver, arrays, answers
  <2>1. Flags'
    BY Zenon DEF Flags
  <2>2. Others'
    BY <1>0 DEF Others
  <2>3. Calls' /\ Eigenpairs'
    BY <1>0 DEF Calls, Eigenpairs, ForGradient, AfterSolve, Sweep
  <2>4. writing /\ asked \in diverges /\ eigen = None
    BY ElemsExist DEF Others, Calls, Eigenpairs
  <2>5. AbortsWithoutEigenpairs'
    BY <2>4 DEF AbortsWithoutEigenpairs
  <2>9. Solves'
    BY DEF Solves, AfterSolve, ForGradient, Sweep
  <2> QED  BY <2>1, <2>2, <2>3, <2>5, <2>9
<1>19. CASE UNCHANGED vars
  <2> USE <1>19 DEF vars, analysisVars, driver, arrays, answers
  <2>1. Flags'
    BY Zenon DEF Flags
  <2>2. Others'
    BY <1>0 DEF Others
  <2>3. Calls' /\ Eigenpairs' /\ AbortsWithoutEigenpairs'
    BY <1>0 DEF Calls, Eigenpairs, AbortsWithoutEigenpairs, ForGradient, AfterSolve, Sweep
  <2>9. Solves'
    BY DEF Solves, AfterSolve, ForGradient, Sweep
  <2> QED  BY <2>1, <2>2, <2>3, <2>9
<1>20. CASE Aborted
  BY <1>19, <1>20 DEF Aborted
<1> QED
  BY <1>1, <1>2, <1>3, <1>4, <1>5, <1>6, <1>7, <1>8, <1>9, <1>10, <1>11, <1>12, <1>13, <1>14,
     <1>15, <1>16, <1>17, <1>18, <1>19, <1>20
     DEF Next, InEvaluate

LEMMA Invariant == Spec => []Inv
BY InvInit, InvStep, PTL DEF Spec

\* Every variable keeps its type.
THEOREM TypeCorrect == Spec => []TypeOK
<1>1. Inv => TypeOK
  BY Types DEF Inv
<1> QED  BY Invariant, <1>1, PTL

\* The program stops only where it reads an eigenpair that does not exist,
\* whatever sequence of evaluations and outputs came before.
THEOREM AbortsOnlyWithoutEigenpairs == Spec => []AbortsWithoutEigenpairs
<1>1. Inv => AbortsWithoutEigenpairs
  BY DEF Inv
<1> QED  BY Invariant, <1>1, PTL

\* The modes in the output belong to the design they were written for, and are
\* normalized with a matrix that no sensitivity has overwritten.
THEOREM ModesWrittenAreCurrent == Spec => ModesOfDesign
<1>1. Inv /\ [Next]_vars => [modes' # modes => modes' = asked \/ asked \in diverges]_vars
  <2> SUFFICES ASSUME Inv, Next, modes' # modes, asked \notin diverges PROVE modes' = asked
    OBVIOUS
  <2>1. WriteModes
    BY DEF Next, InEvaluate, Evaluate, Output, Enter, Refine, StaticSolve, Newton, Solved,
           Diverged, Outputs, Eigenvalues, ObjectiveSensitivity, Adjoint, StressSensitivity,
           EigenvalueSensitivity, NoEigenpair, PassDone, Finish, ModesGone, Aborted, vars, answers
  <2>2. NEig > 0
    BY <2>1, ProblemTypes DEF Inv, Calls, WriteModes
  <2>3. eigen = elem /\ pencil = PencilOf(elem) /\ elem[1] = asked
    BY <2>1, <2>2 DEF Inv, Calls, Eigenpairs, WriteModes
  <2> QED  BY <2>1, <2>3 DEF WriteModes, Normalized
<1> QED  BY Invariant, <1>1, PTL DEF Spec, ModesOfDesign

-----------------------------------------------------------------------------
(* The contract with the optimizer *)

\* The problems for which the array of the gradients is filled by its rule:
\* no eigenvalue, or one of a single variable.
OneKind == \A p \in Problems : p[2] = 0 \/ p = <<1, 1>>

\* The derivatives by the variables in S are those of the design asked for.
ConstraintsBy(S) ==
  \A v \in S : \A fn \in Functions : grads[ArrayIndex(fn, v)] = Derivative(fn, v, asked)
ObjectiveBy(S) == \A v \in S : objGrad[v] = Derivative("volume", v, asked)
Before(n) == {v \in Variables : v < n}

\* What has been computed of an evaluation at each of its steps.
Progress ==
  /\ pc \in AfterSolve \ {"outputs"} => fvals[Stress] = Value(Stress, asked)
  /\ pc \in ForGradient \cup {"finish"} => FunctionsRight(asked)
  /\ pc = "objective" => ObjectiveBy(Before(i))
  /\ pc \in {"adjoint"} \cup Sweep => ObjectiveBy(Variables)
  /\ pc \in {"eigen", "adjoint"} => i = 0
  /\ pc \in Sweep => /\ adjoint.lhs.elem = elem
                     /\ adjoint.rhs = Jacobian(elem, Converged(elem))
                     /\ ConstraintsBy(Before(i))
  /\ pc = "modal" => /\ velocity = <<i, asked>>
                     /\ grads[StressIndex(i)] = Derivative(Stress, i, asked)
  /\ pc = "pass" => ConstraintsBy({i})
  /\ pc = "finish" /\ wanted => ObjectiveBy(Variables) /\ ConstraintsBy(Variables)
  /\ DOMAIN fvals = Functions

\* The two kinds of problems.
LEMMA Kinds ==
  ASSUME OneKind, problem \in Problems
  PROVE  \/ NEig = 0 /\ NIneq = 1 /\ Functions = {0}
         \/ NEig = 1 /\ NVars = 1 /\ NIneq = 2 /\ Functions = {0, 1} /\ Variables = {0}
<1>1. CASE problem[2] = 0
  BY <1>1 DEF NEig, NIneq, Functions
<1>2. CASE problem = <<1, 1>>
  BY <1>2 DEF NEig, NVars, NIneq, Functions, Variables
<1> QED  BY <1>1, <1>2 DEF OneKind

\* Where they keep the derivatives of function 0, and that the derivatives by
\* two variables are kept apart.
LEMMA Places ==
  ASSUME OneKind, problem \in Problems, NEW v \in Variables
  PROVE  /\ ArrayIndex(Stress, v) = StressIndex(v)
         /\ StressIndex(v) \in 0 .. NVars * NIneq - 1
         /\ \A w \in Variables, fn \in Functions : w # v => ArrayIndex(fn, w) # StressIndex(v)
<1>1. CASE NEig = 0 /\ NIneq = 1 /\ Functions = {0}
  <2>1. NVars \in Nat \ {0} /\ NVars * NIneq - 1 = NVars - 1
    BY <1>1, ProblemTypes
  <2>2. \A w \in Variables : w \in Nat /\ w < NVars /\ w * NIneq + 0 = w /\ StressIndex(w) = w
    BY <1>1, <2>1 DEF Variables, StressIndex
  <2> QED  BY <1>1, <2>1, <2>2 DEF ArrayIndex, Stress
<1>2. CASE NEig = 1 /\ NVars = 1 /\ NIneq = 2 /\ Functions = {0, 1} /\ Variables = {0}
  BY <1>2 DEF ArrayIndex, StressIndex, Stress
<1> QED  BY <1>1, <1>2, Kinds

LEMMA ProgressInit == Init => Progress
BY DEF Init, Progress, AfterSolve, ForGradient, Sweep, Functions

LEMMA ProgressStep ==
  ASSUME OneKind, Inv, Inv', Progress, [Next]_vars
  PROVE  Progress'
<1> DEFINE stage == {"idle", "refine", "newton", "outputs", "modes", "aborted"}
<1>0. /\ problem \in Problems /\ NVars \in Nat \ {0} /\ NEig \in Nat /\ 0 \in Variables
      /\ problem' = problem => /\ Variables' = Variables /\ NEig' = NEig /\ NVars' = NVars
                               /\ NIneq' = NIneq /\ Functions' = Functions
  BY ProblemTypes DEF Inv, Calls, Variables, NVars, NEig, NIneq, Functions
<1> USE DEF Progress, AfterSolve, ForGradient, Sweep, FunctionsRight, ConstraintsBy, ObjectiveBy,
            Before, ArrayIndex, StressIndex
\* A step to a stage where nothing is computed yet that is still read.
<1>1. ASSUME pc' \in stage, UNCHANGED <<problem, arrays>> PROVE Progress'
  BY <1>0, <1>1 DEF arrays
<1>2. ASSUME NEW x \in Designs, Output(x) PROVE Progress'
  BY <1>1, <1>2 DEF Output, Enter
<1>3. ASSUME NEW x \in Designs, NEW g \in BOOLEAN, Evaluate(x, g) PROVE Progress'
  BY <1>1, <1>3 DEF Evaluate, Enter
<1>4. CASE Refine
  BY <1>1, <1>4 DEF Refine, driver
<1>5. CASE StaticSolve \/ Newton \/ Solved
  BY <1>1, <1>5 DEF StaticSolve, Newton, Solved, driver
<1>6. CASE Diverged
  BY <1>1, <1>6 DEF Diverged
<1>7. CASE NoEigenpair \/ ModesGone \/ WriteModes
  BY <1>1, <1>7 DEF NoEigenpair, ModesGone, WriteModes, driver
<1>8. CASE Outputs
  <2> USE <1>8 DEF Outputs, analysisVars, driver, answers
  <2>1. SolutionRight
    BY DEF Inv, Calls, Solves, SolutionRight
  <2>2. fvals' = [fvals EXCEPT ![Stress] = Value(Stress, asked)]
    BY <2>1
  <2>3. Stress \in Functions
    BY <1>0 DEF Stress, Functions
  <2>4. fvals'[Stress] = Value(Stress, asked) /\ DOMAIN fvals' = Functions
    BY <2>2, <2>3
  <2>5. pc' # "eigen" => NEig = 0 /\ Functions = {Stress}
    BY <1>0 DEF Functions, Stress
  <2>6. pc' \in {"objective", "finish"} => FunctionsRight(asked)'
    BY <1>0, <2>4, <2>5
  <2>7. ObjectiveBy(Before(i))'
    BY <1>0 DEF Variables
  <2>8. pc' = "finish" => ~wanted'
    BY DEF Inv, Flags
  <2>9. i' = 0 /\ pc' \in {"eigen", "objective", "finish"}
    OBVIOUS
  <2>10. DOMAIN fvals' = Functions' /\ fvals'[Stress] = Value(Stress, asked')
    BY <1>0, <2>4
  <2> QED  BY <2>6, <2>7, <2>8, <2>9, <2>10
<1>9. CASE Eigenvalues
  <2> USE <1>9 DEF Eigenvalues, Eigenproblem, EigenproblemSolve, driver, answers
  <2>1. eigen'[1] = asked
    BY DEF Inv, Calls
  <2>2. \A fn \in Functions : fn = Stress \/ fn = 1
    BY <1>0, Kinds DEF Stress
  <2>3. FunctionsRight(asked)'
    BY <1>0, <2>1, <2>2 DEF EigenvalueRead
  <2>4. fvals'[Stress] = fvals[Stress]
    BY <1>0 DEF Functions, Stress
  <2>5. DOMAIN fvals' = Functions'
    BY <1>0
  <2>6. i' = 0 /\ ObjectiveBy(Before(i))'
    BY <1>0 DEF Variables
  <2>7. pc' \in {"objective", "finish"} /\ (pc' = "finish" => ~wanted')
    BY DEF Inv, Flags
  <2> QED  BY <2>3, <2>4, <2>5, <2>6, <2>7
<1>10. CASE ObjectiveSensitivity
  <2> USE <1>10 DEF ObjectiveSensitivity, analysisVars, driver, answers
  <2>1. objGrad' = [objGrad EXCEPT ![i] = Derivative("volume", i, asked)]
    BY DEF Inv, Calls
  <2>2. \A v \in Variables : v <= i => objGrad'[v] = Derivative("volume", v, asked)
    BY <2>1 DEF Inv, Others, Variables
  <2>3. CASE MoreVariables
    BY <1>0, <2>2, <2>3 DEF Inv, Others, Variables
  <2>4. CASE ~MoreVariables
    <3>1. \A v \in Variables : v <= i
      BY <1>0, <2>4 DEF MoreVariables, Inv, Others, Variables
    <3> QED  BY <1>0, <2>2, <2>4, <3>1
  <2> QED  BY <2>3, <2>4
<1>11. CASE Adjoint
  <2> USE <1>11 DEF Adjoint, AdjointSolve, eigenData, driver, arrays, answers
  <2>1. adjoint'.lhs.elem = elem /\ adjoint'.rhs = Jacobian(elem, Converged(elem))
    BY DEF Inv, Solves
  <2>2. ConstraintsBy(Before(i))'
    BY <1>0 DEF Variables
  <2> QED  BY <1>0, <2>1, <2>2
<1>12. CASE StressSensitivity
  <2> USE <1>12 DEF StressSensitivity, eigenData, driver, answers
  <2>1. velocity' = <<i, asked>> /\ elem[1] = asked
    <3>1. velocity' = <<i, asked>>
      BY DEF VelocityOf
    <3>2. elem[1] = asked
      BY DEF Inv, Calls
    <3> QED  BY <3>1, <3>2
  <2>2. grads' = [grads EXCEPT ![StressIndex(i)] = Derivative(Stress, i, asked)]
    <3>1. /\ adjoint.lhs.elem = elem /\ adjoint.rhs = Jacobian(elem, Converged(elem))
          /\ velocity'[1] = i /\ velocity'[2] = elem[1]
      BY <2>1
    <3> HIDE DEF Progress, StressIndex
    <3> QED  BY <2>1, <3>1
  <2>3. StressIndex(i) \in DOMAIN grads /\ DOMAIN grads = 0 .. NVars * NIneq - 1
    BY <1>0, Places DEF Inv, Others
  <2>4. grads'[StressIndex(i)] = Derivative(Stress, i, asked)
    BY <2>2, <2>3
  <2>5. \A v \in Before(i), fn \in Functions : grads'[ArrayIndex(fn, v)] = grads[ArrayIndex(fn, v)]
    <3>1. \A v \in Before(i), fn \in Functions : ArrayIndex(fn, v) # StressIndex(i)
      BY <1>0, Places DEF Inv, Others, Variables
    <3> QED  BY <2>2, <3>1
  <2> QED  BY <1>0, <2>1, <2>4, <2>5
<1>13. CASE EigenvalueSensitivity
  <2> USE <1>13 DEF EigenvalueSensitivity, EigenproblemSensitivity, SomeConverged, driver, answers
  <2>1. NEig = 1 /\ NIneq = 2 /\ Functions = {0, 1} /\ Variables = {0} /\ i = 0
    BY <1>0, Kinds DEF Inv, Others
  <2>2. EigenSensitivityRight /\ elem[1] = asked /\ velocity[1] = i
    BY <2>1 DEF Inv, Calls, Eigenpairs, EigenSensitivityRight, Normalized
  <2>3. 1 \in 1 .. nconv /\ 0 \notin 1 .. nconv
    BY DEF Inv, Others
  <2>4. {0, 1} \subseteq DOMAIN grads
    BY <1>0, <2>1, Kinds DEF Inv, Others
  <2>5. grads'[0] = grads[0] /\ grads'[1] = Derivative(1, i, asked)
    BY <2>1, <2>2, <2>3, <2>4
  <2>6. ConstraintsBy({i})'
    BY <1>0, <2>1, <2>5 DEF Stress
  <2>7. ConstraintsBy(Before(i))'
    BY <1>0, <2>1
  <2> QED  BY <1>0, <2>6, <2>7
<1>14. CASE PassDone
  <2> USE <1>14 DEF PassDone, NextVariable, eigenData, driver, arrays, answers
  <2>1. ConstraintsBy({i})
    <3>1. CASE pc = "pass"
      BY <3>1
    <3>2. CASE pc = "modal" /\ NEig = 0
      <4>1. Functions = {Stress} /\ ArrayIndex(Stress, i) = StressIndex(i)
        BY <1>0, <3>2, Kinds, Places DEF Inv, Others, Stress
      <4> QED  BY <3>2, <4>1
    <3> QED  BY <3>1, <3>2
  <2>2. ConstraintsBy({v \in Variables : v <= i})
    BY <2>1 DEF Inv, Others, Variables
  <2>3. CASE MoreVariables
    <3>1. Before(i') = {v \in Variables : v <= i}
      BY <2>3 DEF Inv, Others, Variables
    <3>2. ConstraintsBy(Before(i))'
      BY <1>0, <2>2, <3>1
    <3>3. pc' = "residual" /\ ObjectiveBy(Variables)'
      BY <1>0, <2>3
    <3>4. adjoint'.lhs.elem = elem' /\ adjoint'.rhs = Jacobian(elem', Converged(elem'))
      OBVIOUS
    <3> QED  BY <1>0, <3>2, <3>3, <3>4
  <2>4. CASE ~MoreVariables
    <3>1. Variables = {v \in Variables : v <= i}
      BY <1>0, <2>4 DEF MoreVariables, Inv, Others, Variables
    <3>2. pc' = "finish" /\ ObjectiveBy(Variables)' /\ ConstraintsBy(Variables)'
      BY <1>0, <2>2, <2>4, <3>1
    <3> QED  BY <1>0, <3>2
  <2> QED  BY <2>3, <2>4
<1>15. CASE Finish
  BY <1>1, <1>15 DEF Finish
<1>16. CASE UNCHANGED vars
  BY <1>0, <1>16 DEF vars, analysisVars, driver, arrays, answers
<1>17. CASE Aborted
  BY <1>16, <1>17 DEF Aborted
<1> QED
  BY <1>2, <1>3, <1>4, <1>5, <1>6, <1>7, <1>8, <1>9, <1>10, <1>11, <1>12, <1>13, <1>14,
     <1>15, <1>16, <1>17
     DEF Next, InEvaluate

LEMMA ProgressMade == ASSUME OneKind PROVE Spec => []Progress
<1>1. Inv /\ Inv' /\ Progress /\ [Next]_vars => Progress'
  BY ProgressStep
<1> QED  BY Invariant, ProgressInit, <1>1, PTL DEF Spec

\* An evaluation begins with a request, its last step is the response, output
\* writes a design without one, and everything between is invisible.
LEMMA ContractStep ==
  ASSUME OneKind, Inv, Progress, [Next]_vars
  PROVE  [Contract!Next]_(Contract!vars)
<1> USE DEF Inv, Contract!vars
<1>1. ASSUME NEW x \in Designs, Output(x) PROVE Contract!Write
  <2>1. wanted = FALSE /\ writing = FALSE
    BY <1>1, Zenon DEF Output, Enter, Calls, Flags
  <2> QED  BY <1>1, <2>1 DEF Output, Enter, answers, Contract!Write, Calls
<1>2. ASSUME NEW x \in Designs, NEW g \in BOOLEAN, Evaluate(x, g) PROVE Contract!Request
  <2>1. wanted' \in BOOLEAN
    BY <1>2, Zenon DEF Evaluate
  <2> QED  BY <1>2, <2>1 DEF Evaluate, Enter, answers, Contract!Request
<1>3. CASE Refine
  BY <1>3 DEF Refine, driver, answers
<1>4. CASE StaticSolve
  BY <1>4 DEF StaticSolve, driver, answers
<1>5. CASE Newton
  BY <1>5 DEF Newton, driver, answers
<1>6. CASE Solved
  BY <1>6 DEF Solved, driver, answers
<1>7. CASE Diverged
  <2> USE <1>7 DEF Diverged
  <2>1. CASE writing
    <3>1. wanted = FALSE
      BY <2>1, Zenon DEF Calls, Flags
    <3> QED  BY <2>1, <3>1
  <2>2. CASE ~writing
    <3>1. Contract!Respond
      BY <2>2 DEF Contract!Respond
    <3> QED  BY <3>1 DEF Contract!Next
  <2> QED  BY <2>1, <2>2
<1>8. CASE Outputs
  BY <1>8 DEF Outputs, driver, answers
<1>9. CASE Eigenvalues
  BY <1>9 DEF Eigenvalues, driver, answers
<1>10. CASE ObjectiveSensitivity
  BY <1>10 DEF ObjectiveSensitivity, driver, answers
<1>11. CASE Adjoint
  BY <1>11 DEF Adjoint, driver, answers
<1>12. CASE StressSensitivity
  BY <1>12 DEF StressSensitivity, driver, answers
<1>13. CASE EigenvalueSensitivity
  BY <1>13 DEF EigenvalueSensitivity, driver, answers
<1>14. CASE NoEigenpair
  BY <1>14 DEF NoEigenpair, driver, answers
<1>15. CASE PassDone
  BY <1>15 DEF PassDone, NextVariable, driver, answers
<1>16. CASE Finish
  <2> USE <1>16 DEF Finish
  <2>1. CASE writing
    <3>1. wanted = FALSE
      BY <2>1, Zenon DEF Calls, Flags
    <3> QED  BY <2>1, <3>1
  <2>2. CASE ~writing
    <3>1. asked \notin diverges /\ FunctionsRight(asked)
      BY DEF Calls, Progress, AfterSolve, ForGradient
    <3>2. wanted => GradientsRight(asked)
      BY DEF Progress, GradientsRight, ObjectiveBy, ConstraintsBy
    <3>3. Contract!Respond
      BY <2>2, <3>1, <3>2 DEF Contract!Respond
    <3> QED  BY <3>3 DEF Contract!Next
  <2> QED  BY <2>1, <2>2
<1>17. CASE WriteModes
  BY <1>17 DEF WriteModes, Calls
<1>18. CASE ModesGone
  BY <1>18 DEF ModesGone, driver, answers
<1>19. CASE UNCHANGED vars
  BY <1>19 DEF vars, driver, answers
<1>20. CASE Aborted
  BY <1>19, <1>20 DEF Aborted
<1> QED
  BY <1>1, <1>2, <1>3, <1>4, <1>5, <1>6, <1>7, <1>8, <1>9, <1>10, <1>11, <1>12, <1>13, <1>14,
     <1>15, <1>16, <1>17, <1>18, <1>19, <1>20
     DEF Next, InEvaluate, Contract!Next

\* Where the array of the gradients is filled by its rule, every evaluation keeps
\* the promise made to the optimizer: functions and gradients are those of the
\* design asked for, whatever mesh, eigenpairs and velocity an evaluation, a
\* diverged one or an output left behind.
THEOREM EvaluationKeepsContract == ASSUME OneKind PROVE Spec => KeepsContract
<1>1. Init => Contract!Init
  BY InvInit DEF Init, AnalysisInit, Contract!Init, Inv, Others
<1>2. OneKind
  OBVIOUS
<1>3. Inv /\ Progress /\ [Next]_vars => [Contract!Next]_(Contract!vars)
  BY <1>2, ContractStep
<1> QED
  BY <1>1, <1>3, ProgressMade, Invariant, PTL DEF Spec, KeepsContract, Contract!Spec
=============================================================================
