------------------------ MODULE SimpOptimizationProofs ------------------------
(***************************************************************************)
(* Proofs about SimpOptimization, for every set of designs, every choice of *)
(* the ones that diverge, every number of variables and of iterations:      *)
(* types, what an evaluation leaves behind, and the refinement of           *)
(* DesignEvaluation. The material's penalty and the density are shared by   *)
(* all assemblies, so the invariant says with which of them each vector was *)
(* assembled while it can still be used.                                    *)
(***************************************************************************)
EXTENDS SimpOptimization, TLAPS

Solving  == {"static", "newton"}
Solution == Converged(Solve(asked))
AfterSolve == {"outputs", "adjoint", "residual", "partial", "finish"}
InLoop   == {"residual", "partial"}

\* The parts of the state that say which call is in progress.
Calls ==
  /\ elem[1] = asked
  /\ op = IF pc = "newton" THEN "NONLINEAR_SOLVE" ELSE "NONE"
  /\ attached => pc = "newton"
  /\ pc \in {"idle", "aborted"} => ~wanted /\ ~writing
  /\ writing => ~wanted
  /\ pc \in {"adjoint"} \cup InLoop => wanted

\* A solve that has made an iteration has assembled the Jacobian with the
\* penalty of the solve, and after it the solution is that of the design.
Solves ==
  /\ pc = "static" => sol = ZeroSol
  /\ pc = "newton" =>
       /\ elem = Solve(asked)
       /\ newton = 0 => sol = ZeroSol
       /\ newton > 0 => matrix.elem = Solve(asked)
       /\ sol = Solution => asked \notin diverges
  /\ pc \in AfterSolve =>
       /\ asked \notin diverges
       /\ sol = Solution
       /\ matrix.elem = Solve(asked)

\* The stress belongs to the solution and the penalty of the stresses, and so
\* does the right hand side of the adjoint, whose matrix is that of the solve;
\* the gradients of the variables before this one are done.
Gradients ==
  /\ pc \in AfterSolve \ {"outputs"} => StressRight(asked)
  /\ pc = "adjoint" => elem = Stress(asked)
  /\ pc \in InLoop =>
       /\ adjoint.lhs.elem = Solve(asked)
       /\ adjoint.rhs = Jacobian(Stress(asked), Solution)
       /\ \A k \in Variables : k < i => grads[k] = asked
  /\ pc = "partial" =>
       residual = [at |-> Jacobian(Solve(asked), Solution), by |-> i]
  /\ pc = "finish" /\ wanted => \A k \in Variables : grads[k] = asked

\* What the fields are initialized with.
Fields ==
  /\ perturbed = IF pc = "partial" THEN i ELSE 0
  /\ pc = "idle" => density = NoDesign \/ (density = asked /\ asked \in diverges)
  /\ pc \notin {"idle", "aborted"} => density = asked

\* The types, the Boolean variables apart from the others.
Flags ==
  /\ attached \in BOOLEAN /\ dependence \in BOOLEAN
  /\ wanted \in BOOLEAN /\ writing \in BOOLEAN

Others ==
  /\ op \in {"NONE", "NONLINEAR_SOLVE"}
  /\ elem \in Elems
  /\ newton \in 0 .. MaxNewton
  /\ nconv \in Nat
  /\ pc \in {"idle", "static", "newton", "outputs", "adjoint", "residual",
             "partial", "finish", "aborted"}
  /\ asked \in Designs /\ diverges \subseteq Designs
  /\ i \in Variables /\ perturbed \in Variables \cup {0}
  /\ density \in Designs \cup {NoDesign}
  /\ returned \in Designs \cup {Big, NoDesign}

LEMMA Types == TypeOK <=> Flags /\ Others
BY Zenon DEF TypeOK, AnalysisType, Flags, Others

Inv ==
  /\ Flags /\ Others
  /\ DOMAIN grads = Variables
  /\ Calls /\ Solves /\ Gradients /\ Fields

LEMMA InvInit == Init => Inv
<1> SUFFICES ASSUME Init PROVE Inv
  OBVIOUS
<1> USE DEF Init, AnalysisInit
<1>1. Flags
  BY Zenon DEF Flags
<1>2. elem[1] \in Designs /\ 1 \in Variables
  BY DriverAssumption DEF Elems, Variables
<1>3. Others
  BY <1>2, AnalysisAssumption DEF Others
<1>4. Calls
  BY Zenon DEF Calls, InLoop
<1>5. Solves /\ Gradients /\ Fields /\ DOMAIN grads = Variables
  BY DEF Solves, Gradients, Fields, AfterSolve, InLoop
<1> QED  BY <1>1, <1>3, <1>4, <1>5 DEF Inv

\* The design of the elements can be any, the penalty only one of the two.
LEMMA ElemTypes ==
  ASSUME NEW x \in Designs
  PROVE  Solve(x) \in Elems /\ Stress(x) \in Elems
BY DriverAssumption DEF Solve, Stress, Elems

\* What the solver's iterates are called tells them apart.
LEMMA IteratesDiffer ==
  ASSUME NEW e
  PROVE  ZeroSol # Converged(e) /\ Iterate(e) # Converged(e)
BY DEF ZeroSol, Converged, Iterate

LEMMA EnterStep ==
  ASSUME Inv, NEW x \in Designs, pc = "idle", Enter(x), density' = x,
         wanted' \in BOOLEAN, writing' \in BOOLEAN, writing' => ~wanted'
  PROVE  Inv'
<1> USE DEF Enter, Inv, NewAssembly, SetElem, ZeroSolution, eigenData, results, answers
<1>1. elem' \in Elems /\ elem'[1] = x
  BY DEF Flags, Others, Elems
<1>2a. Flags'
  BY Zenon DEF Flags
<1>2. Others'
  BY <1>1 DEF Others
<1>3. Calls'
  BY <1>1 DEF Calls, InLoop, Flags
<1>4. Solves'
  BY DEF Solves, Solution, AfterSolve, ZeroSol
<1>5. Gradients'
  BY DEF Gradients, Solution, AfterSolve, InLoop
<1>6. Fields'
  BY DEF Fields
<1> QED  BY <1>2a, <1>2, <1>3, <1>4, <1>5, <1>6

LEMMA InvStep ==
  ASSUME Inv, [Next]_vars
  PROVE  Inv'
<1> USE DEF Inv
<1>1. ASSUME NEW x \in Designs, Output(x) PROVE Inv'
  BY <1>1, EnterStep DEF Output
<1>2. ASSUME NEW x \in Designs, NEW g \in BOOLEAN, Evaluate(x, g) PROVE Inv'
  BY <1>2, EnterStep DEF Evaluate
<1>3. CASE OutputFails
  BY <1>3 DEF OutputFails, analysisVars, fields, results, answers, Flags, Others,
              Calls, Solves, Gradients, Fields, AfterSolve, InLoop
<1>4. CASE StaticSolve
  <2> USE <1>4 DEF StaticSolve, SetElem, SolveBegin, eigenData, fields, results, answers
  <2>1. elem' = Solve(asked) /\ elem' \in Elems /\ elem'[1] = asked
    BY ElemTypes DEF Calls, Others, Solve
  <2>2a. Flags'
    BY Zenon DEF Flags
  <2>2. Others'
    BY <2>1, AnalysisAssumption DEF Others
  <2>3. Calls'
    BY <2>1 DEF Calls, InLoop, Flags
  <2>4. Solves'
    BY <2>1, IteratesDiffer DEF Solves, Solution, AfterSolve, ZeroSol
  <2>5. Gradients' /\ Fields'
    BY DEF Gradients, Fields, AfterSolve, InLoop
  <2> QED  BY <2>2a, <2>2, <2>3, <2>4, <2>5
<1>5. CASE Newton
  <2> USE <1>5 DEF Newton, NewtonIteration, protocol, eigenData, driver, fields, results, answers
  <2>1. newton' \in 0 .. MaxNewton /\ newton' > 0
    BY AnalysisAssumption DEF Flags, Others
  <2>2a. Flags'
    BY Zenon DEF Flags
  <2>2. Others'
    BY <2>1 DEF Others
  <2>3. Calls'
    BY DEF Calls, InLoop, Flags
  <2>4. elem = Solve(asked) /\ matrix'.elem = Solve(asked)
    BY DEF Solves, Solution, Jacobian
  <2>5. sol' = Converged(elem) => asked \notin diverges
    OBVIOUS
  <2>6. Solves'
    BY <2>1, <2>4, <2>5 DEF Solves, Solution, AfterSolve
  <2>7. Gradients' /\ Fields'
    BY DEF Gradients, Fields, AfterSolve, InLoop
  <2> QED  BY <2>2a, <2>2, <2>3, <2>6, <2>7
<1>6. CASE Solved
  <2> USE <1>6 DEF Solved, SolveEnd, eigenData, fields, results, answers
  <2>1a. Flags'
    BY Zenon DEF Flags
  <2>1. Others'
    BY DEF Others
  <2>1c. Calls'
    BY DEF Calls, InLoop, Flags
  <2>2. Solves'
    BY DEF Solves, Solution, AfterSolve, Flags, Others
  <2>3. Gradients' /\ Fields'
    BY DEF Gradients, Fields, AfterSolve, InLoop
  <2> QED  BY <2>1c, <2>1a, <2>1, <2>2, <2>3
<1>7. CASE Diverged
  <2> USE <1>7 DEF Diverged, SolveEnd, ValuesOnDivergence, eigenData, results
  <2>1a. Flags'
    BY Zenon DEF Flags
  <2>1. Others'
    BY DEF Others
  <2>2. Calls' /\ Solves'
    BY DEF Calls, Solves, Solution, AfterSolve, InLoop
  <2>3. Gradients' /\ Fields'
    BY DEF Gradients, Fields, AfterSolve, InLoop
  <2> QED  BY <2>1a, <2>1, <2>2, <2>3
<1>8. CASE Outputs
  <2> USE <1>8 DEF Outputs, SetElem, protocol, eigenData, fields, answers
  <2>1. elem' = Stress(asked) /\ elem' \in Elems /\ elem'[1] = asked
    BY ElemTypes DEF Calls, Others, Stress
  <2>2a. Flags'
    BY Zenon DEF Flags
  <2>2. Others'
    BY <2>1 DEF Others
  <2>3. Calls'
    BY <2>1 DEF Calls, InLoop, Flags
  <2>4. Solves'
    BY DEF Solves, Solution, AfterSolve
  <2>5. StressRight(asked)'
    BY <2>1 DEF Solves, Solution, AfterSolve, StressRight
  <2>6. Gradients'
    BY <2>1, <2>5 DEF Gradients, Solution, AfterSolve, InLoop
  <2>7. Fields'
    BY DEF Fields
  <2> QED  BY <2>2a, <2>2, <2>3, <2>4, <2>6, <2>7
<1>9. CASE Adjoint
  <2> USE <1>9 DEF Adjoint, AdjointSolve, AssembleJacobian, protocol, eigenData, fields,
                   results, answers
  <2>1. i' \in Variables /\ \A k \in Variables : ~(k < i')
    BY DriverAssumption DEF Variables
  <2>2a. Flags'
    BY Zenon DEF Flags
  <2>2. Others'
    BY <2>1 DEF Others
  <2>3. Calls'
    BY DEF Calls, InLoop, Flags
  <2>4. Solves'
    BY DEF Solves, Solution, AfterSolve
  <2>5. /\ adjoint'.lhs.elem = Solve(asked)
        /\ adjoint'.rhs = Jacobian(Stress(asked), Solution)
    BY DEF Solves, Solution, Gradients, AfterSolve
  <2>6. Gradients'
    BY <2>1, <2>5 DEF Gradients, Solution, AfterSolve, InLoop, StressRight
  <2>7. Fields'
    BY DEF Fields
  <2> QED  BY <2>2a, <2>2, <2>3, <2>4, <2>6, <2>7
<1>10. CASE ResidualSensitivity
  <2> USE <1>10 DEF ResidualSensitivity, SetElem, ResidualPenalty, eigenData, answers
  <2>1. elem' = Solve(asked) /\ elem' \in Elems /\ elem'[1] = asked
    BY ElemTypes DEF Calls, Others, Solve
  <2>2. dependence' \in BOOLEAN
    BY DEF AttachDependence, Flags, Others
  <2>3a. Flags'
    BY <2>2, Zenon DEF Flags
  <2>3. Others'
    BY <2>1, <2>2 DEF Others
  <2>4. Calls'
    BY <2>1 DEF Calls, InLoop, Flags
  <2>5. Solves'
    BY DEF Solves, Solution, AfterSolve
  <2>6. residual' = [at |-> Jacobian(Solve(asked), Solution), by |-> i]
    BY <2>1 DEF Solves, Solution, AfterSolve
  <2>7. Gradients'
    BY <2>6 DEF Gradients, Solution, AfterSolve, InLoop, StressRight
  <2>8. Fields'
    BY DEF Fields
  <2> QED  BY <2>3a, <2>3, <2>4, <2>5, <2>7, <2>8
<1>11. CASE PartialSensitivity
  <2> USE <1>11 DEF PartialSensitivity, SetElem, eigenData, answers
  <2>1. elem' = Stress(asked) /\ elem' \in Elems /\ elem'[1] = asked
    BY ElemTypes DEF Calls, Others, Stress
  <2>2b. dependence' \in BOOLEAN
    BY Zenon DEF ClearDependence, Flags
  <2>2. i' \in Variables
    BY DriverAssumption DEF MoreVariables, Variables, Others
  <2>3. pc' \in {"residual", "finish"}
    BY Zenon
  <2>4a. Flags'
    BY <2>2b, Zenon DEF Flags
  <2>4. Others'
    BY <2>1, <2>2, <2>3 DEF Others
  <2>5. Calls'
    BY <2>1, <2>3 DEF Calls, InLoop, Flags
  <2>6. Solves'
    BY <2>3 DEF Solves, Solution, AfterSolve
  <2>7. GradientRight(asked, i, [at |-> Jacobian(elem', sol), by |-> perturbed])
    BY <2>1 DEF GradientRight, Gradients, Solves, Solution, Fields, InLoop, AfterSolve
  <2>8. grads' = [grads EXCEPT ![i] = asked]
    BY <2>7
  <2>9. \A k \in Variables : k <= i => grads'[k] = asked
    BY <2>8 DEF Gradients, InLoop, Others, Variables
  <2>10. Gradients'
    <3>1. CASE MoreVariables
      <4>1. i' = i + 1 /\ pc' = "residual"
        BY <3>1
      <4> QED  BY <2>9, <4>1 DEF Gradients, Solution, AfterSolve, InLoop, StressRight, Others, Variables
    <3>2. CASE ~MoreVariables
      <4>1. i = NVars /\ pc' = "finish"
        BY <3>2, DriverAssumption DEF MoreVariables, Others, Variables
      <4> QED  BY <2>9, <4>1 DEF Gradients, Solution, AfterSolve, InLoop, StressRight, Variables
    <3> QED  BY <3>1, <3>2
  <2>11. Fields'
    BY <2>3 DEF Fields
  <2> QED  BY <2>4a, <2>4, <2>5, <2>6, <2>8, <2>10, <2>11
<1>12. CASE Finish
  <2> USE <1>12 DEF Finish, analysisVars, results
  <2>1a. Flags'
    BY Zenon DEF Flags
  <2>1. Others'
    BY DEF Others, DensityAfter
  <2>2. Calls' /\ Solves'
    BY DEF Calls, Solves, Solution, AfterSolve, InLoop
  <2>3. Gradients' /\ Fields'
    BY DEF Gradients, Fields, AfterSolve, InLoop, DensityAfter
  <2> QED  BY <2>1a, <2>1, <2>2, <2>3
<1>13. CASE UNCHANGED vars
  BY <1>13 DEF vars, analysisVars, Flags, Others, Calls, Solves, Solution, Gradients, Fields,
               AfterSolve, InLoop, StressRight
<1>14. CASE Aborted
  BY <1>13, <1>14 DEF Aborted
<1> QED
  BY <1>1, <1>2, <1>3, <1>4, <1>5, <1>6, <1>7, <1>8, <1>9, <1>10, <1>11, <1>12, <1>13, <1>14
     DEF Next, InEvaluate

LEMMA Invariant == Spec => []Inv
BY InvInit, InvStep, PTL DEF Spec

\* Every variable keeps its type.
THEOREM TypeCorrect == Spec => []TypeOK
<1>1. Inv => TypeOK
  BY Types DEF Inv
<1> QED  BY Invariant, <1>1, PTL

\* Nothing is in progress between evaluations; what stays initialized is the
\* density of an evaluation that diverged.
THEOREM FieldsReleased == Spec => []Released
<1>1. Inv => Released
  BY DEF Inv, Calls, Fields, Released
<1> QED  BY Invariant, <1>1, PTL

\* An evaluation begins with a request, its last step is the response, a design
\* is written without one, and everything between is invisible.
LEMMA ContractStep ==
  ASSUME Inv, [Next]_vars
  PROVE  [Contract!Next]_(Contract!vars)
<1> USE DEF Inv, Contract!vars
<1>1. ASSUME NEW x \in Designs, Output(x) PROVE Contract!Write
  <2>1. wanted = FALSE
    BY <1>1, Zenon DEF Output, Calls, Flags
  <2> QED  BY <1>1, <2>1 DEF Output, Enter, answers, Contract!Write, Calls
<1>2. ASSUME NEW x \in Designs, NEW g \in BOOLEAN, Evaluate(x, g) PROVE Contract!Request
  <2>1. wanted' \in BOOLEAN
    BY <1>2, Zenon DEF Evaluate
  <2> QED  BY <1>2, <2>1 DEF Evaluate, Enter, answers, Contract!Request
<1>3. CASE OutputFails
  BY <1>3 DEF OutputFails, answers
<1>4. CASE StaticSolve
  BY <1>4 DEF StaticSolve, answers
<1>5. CASE Newton
  BY <1>5 DEF Newton, driver, answers
<1>6. CASE Solved
  BY <1>6 DEF Solved, answers
<1>7. CASE Diverged
  <2>1. CASE writing
    <3>1. wanted = FALSE
      BY <2>1, Zenon DEF Calls, Flags
    <3> QED  BY <1>7, <2>1, <3>1 DEF Diverged
  <2>2. CASE ~writing
    <3>1. Contract!Respond
      BY <1>7, <2>2 DEF Diverged, ValuesOnDivergence, Contract!Respond
    <3> QED  BY <3>1 DEF Contract!Next
  <2> QED  BY <2>1, <2>2
<1>8. CASE Outputs
  BY <1>8 DEF Outputs, answers
<1>9. CASE Adjoint
  BY <1>9 DEF Adjoint, answers
<1>10. CASE ResidualSensitivity
  BY <1>10 DEF ResidualSensitivity, answers
<1>11. CASE PartialSensitivity
  BY <1>11 DEF PartialSensitivity, answers
<1>12. CASE Finish
  <2> USE <1>12 DEF Finish
  <2>1. CASE writing
    <3>1. wanted = FALSE
      BY <2>1, Zenon DEF Calls, Flags
    <3> QED  BY <2>1, <3>1
  <2>2. CASE ~writing
    <3>1. asked \notin diverges /\ StressRight(asked)
      BY DEF Solves, Gradients, AfterSolve
    <3>2. wanted => \A k \in Variables : grads[k] = asked
      BY DEF Gradients
    <3>3. Contract!Respond
      BY <2>2, <3>1, <3>2 DEF Contract!Respond
    <3> QED  BY <3>3 DEF Contract!Next
  <2> QED  BY <2>1, <2>2
<1>13. CASE UNCHANGED vars
  BY <1>13 DEF vars
<1>14. CASE Aborted
  BY <1>13, <1>14 DEF Aborted
<1> QED
  BY <1>1, <1>2, <1>3, <1>4, <1>5, <1>6, <1>7, <1>8, <1>9, <1>10, <1>11, <1>12, <1>13, <1>14
     DEF Next, InEvaluate, Contract!Next

\* Every evaluation keeps the promise made to the optimizer: what is returned
\* belongs to the design asked for, through every solve, adjoint and change of
\* penalty in between, after a design that diverged and after an output.
THEOREM EvaluationKeepsContract == Spec => KeepsContract
<1>1. Init => Contract!Init
  BY InvInit DEF Init, AnalysisInit, Contract!Init, Inv, Others
<1> QED
  BY <1>1, ContractStep, Invariant, PTL DEF Spec, KeepsContract, Contract!Spec
=============================================================================
