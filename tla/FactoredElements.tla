-------------------------- MODULE FactoredElements --------------------------
(***************************************************************************)
(* Newton's method on a mesh with factored elements: the elements around a *)
(* void node that has material on several sides.  Each of them has its own *)
(* copy of the solution at its void nodes (the displacements of the sides  *)
(* are independent), so these unknowns are not in the global system:       *)
(*   - LevelSetInterfaceDofHandler keeps the copies (_elem_sol), condenses *)
(*     the element equations to the material rows and recovers the copies  *)
(*     from the material update;                                           *)
(*   - LevelSetNonlinearImplicitAssembly::residual_and_jacobian assembles  *)
(*     the condensed equations;                                            *)
(*   - LevelSetVoidSolution is called by PETSc after every iteration, and  *)
(*     updates the copies from the previous solution and the step.         *)
(*                                                                         *)
(* The element equations are linear, with integers modulo Prime for the    *)
(* reals: sums, products and inverses obey the same laws and every claim   *)
(* below is an identity in them.  A node has one degree of freedom.  PETSc *)
(* is external: it solves the linear system and takes a full or a damped   *)
(* step.                                                                   *)
(***************************************************************************)
EXTENDS Integers, FiniteSets, FiniteSetsExt

CONSTANTS
    Prime,
    Elements,       \* elements of the mesh
    Factored,       \* _elem_sol's elements
    NodesOf,        \* [Elements -> sets of nodes]
    VoidNodes,      \* nodes where the level set is negative
    Stiffnesses,    \* possible [Elements -> matrix]: Jacobians of the elements
    Loads,          \* possible [Elements -> vector]: residuals at zero, negated
    Fraction,       \* [Elements -> volume fraction of the positive region]
    Starts,         \* values of the initial solution
    MaxIterations   \* bound of the number of Newton iterations

Field == 0..(Prime - 1)

ASSUME SizesAssumption == Prime \in Nat \ {0, 1} /\ MaxIterations \in Nat
ASSUME FieldAssumption == \A a, b \in Field : (a * b) % Prime = 0 => a = 0 \/ b = 0
ASSUME MeshAssumption ==
    /\ IsFiniteSet(Elements) /\ \A e \in Elements : IsFiniteSet(NodesOf[e])
    /\ Factored \subseteq Elements
    /\ \A e \in Factored : NodesOf[e] \cap VoidNodes # {} /\ NodesOf[e] \ VoidNodes # {}
    /\ \A e \in Elements \ Factored : NodesOf[e] \cap VoidNodes = {}
\* Factored elements have material on them.
ASSUME FractionAssumption ==
    /\ \A e \in Elements : Fraction[e] \in Int
    /\ \A e \in Factored : Fraction[e] % Prime # 0
ASSUME EquationsAssumption ==
    /\ \A a \in Stiffnesses, e \in Elements :
          \A i \in NodesOf[e], j \in NodesOf[e] : a[e][i][j] \in Int
    /\ \A b \in Loads, e \in Elements : \A i \in NodesOf[e] : b[e][i] \in Int
    /\ Starts \subseteq Int

AllNodes == UNION {NodesOf[e] : e \in Elements}
Small == 1          \* the small number put on the diagonal of void rows

VARIABLES
    stiffness,      \* the Jacobian of every element of the analysis
    load,           \* its loads
    solution,       \* the solution of the system
    old,            \* the vector "old_solution" of the system
    step,           \* the step PETSc reports, not scaled by the line search
    full,           \* the line search kept the whole step
    copies,         \* _elem_sol
    iterations,
    phase           \* "start", "iterate" or "monitor": what PETSc calls next

factoredVars == <<stiffness, load, solution, old, step, full, copies, iterations, phase>>

\* partition_local_elem_rows.
MaterialRows(e) == NodesOf[e] \ VoidNodes
VoidRows(e) == NodesOf[e] \cap VoidNodes
\* The sum of the values of a function.
Sum(g) == MapThenSumSet(LAMBDA i : g[i], DOMAIN g) % Prime

\* The solution of A y = b over the rows and columns S: FullPivLU.
Solve(A, S, b) ==
    CHOOSE y \in [S -> Field] :
        \A i \in S : Sum([j \in S |-> A[i][j] * y[j]]) = b[i] % Prime
-----------------------------------------------------------------------------
\* The element's part of a global vector, with its own copies at void nodes.
ElementSolution(e, y, store) ==
    [i \in NodesOf[e] |-> IF e \in Factored /\ i \in VoidNodes THEN store[e][i] ELSE y[i]]

\* elem_calculations on the whole element, times the volume fraction.
Residual(e, y) ==
    [i \in NodesOf[e] |->
        (Fraction[e] * (Sum([j \in NodesOf[e] |-> stiffness[e][i][j] * y[j]])
                        - load[e][i])) % Prime]

Jacobian(e) ==
    [i \in NodesOf[e] |-> [j \in NodesOf[e] |->
        (Fraction[e] * stiffness[e][i][j]) % Prime]]

\* Slip: the void part is added to the material rows.
CondensedResidualAdded(e, r) ==
    LET a == Jacobian(e)
        w == Solve(a, VoidRows(e), r)
    IN  [i \in NodesOf[e] |->
            IF i \in VoidNodes THEN 0
            ELSE (r[i] + Sum([j \in VoidRows(e) |-> a[i][j] * w[j]])) % Prime]

\* res_factored_u at the material rows, zero at the others.
CondensedResidual(e, r) ==
    LET a == Jacobian(e)
        w == Solve(a, VoidRows(e), r)
    IN  [i \in NodesOf[e] |->
            IF i \in VoidNodes THEN 0
            ELSE (r[i] - Sum([j \in VoidRows(e) |-> a[i][j] * w[j]])) % Prime]

\* jac_factored_uu at the material rows, a small diagonal at the others.
CondensedJacobian(e) ==
    LET a == Jacobian(e)
        w == [m \in MaterialRows(e) |->
                Solve(a, VoidRows(e), [i \in VoidRows(e) |-> a[i][m]])]
    IN  [i \in NodesOf[e] |-> [m \in NodesOf[e] |->
            IF i \in MaterialRows(e) /\ m \in MaterialRows(e)
            THEN (a[i][m] - Sum([j \in VoidRows(e) |-> a[i][j] * w[m][j]])) % Prime
            ELSE IF i = m THEN Small ELSE 0]]

\* residual_and_jacobian: the sums over the elements.
ElementResidual(e, y, store) ==
    LET r == Residual(e, ElementSolution(e, y, store))
    IN  IF e \in Factored THEN CondensedResidual(e, r) ELSE r
ElementJacobian(e) == IF e \in Factored THEN CondensedJacobian(e) ELSE Jacobian(e)

With(i) == {e \in Elements : i \in NodesOf[e]}
Assembled(y, store) ==
    [i \in AllNodes |-> Sum([e \in With(i) |-> ElementResidual(e, y, store)[i]])]
AssembledJacobian ==
    [i \in AllNodes |-> [j \in AllNodes |->
        Sum([e \in With(i) \cap With(j) |-> ElementJacobian(e)[i][j]])]]

\* The linear system has exactly one solution.
Steps ==
    LET a == AssembledJacobian
        r == Assembled(solution, copies)
    IN  {d \in [AllNodes -> Field] :
            \A i \in AllNodes :
                (Sum([j \in AllNodes |-> a[i][j] * d[j]]) + r[i]) % Prime = 0}
-----------------------------------------------------------------------------
\* update_factored_element_solution: the equations of the void rows at the
\* previous solution y, solved for the void part of the step.
Recovered(e, y, d, store) ==
    LET a == Jacobian(e)
        s == ElementSolution(e, y, store)
        r == Residual(e, s)
        df == Solve(a, VoidRows(e), [i \in VoidRows(e) |->
                (- r[i] - Sum([j \in MaterialRows(e) |-> a[i][j] * d[j]])) % Prime])
    IN  [i \in NodesOf[e] |-> IF i \in VoidNodes THEN (s[i] + df[i]) % Prime ELSE s[i]]

Zero == [i \in AllNodes |-> 0]
NoCopies == [e \in Factored |-> [i \in NodesOf[e] |-> 0]]

\* set_level_set_function makes a new handler for a design, with zero copies;
\* the solution of an earlier design stays as the initial guess.
SetLevelSet ==
    /\ phase = "start"
    /\ copies # NoCopies
    /\ copies' = NoCopies
    /\ UNCHANGED <<stiffness, load, solution, old, step, full, iterations, phase>>

\* The nonlinear solver calls the monitor before the first iteration.
MonitorFirst ==
    /\ phase = "start"
    /\ phase' = "iterate"
    /\ old' = solution
    /\ iterations' = 0
    /\ UNCHANGED <<stiffness, load, solution, step, full, copies>>

\* One iteration: the solution moves along the step, by all of it or by the
\* part c that the line search accepts.
Iterate(c) ==
    /\ phase = "iterate" /\ iterations < MaxIterations
    /\ LET steps == Steps
       IN  /\ Cardinality(steps) = 1
           /\ step' = CHOOSE d \in steps : TRUE
    /\ full' = (c = 1)
    /\ solution' = [i \in AllNodes |-> (solution[i] + c * step'[i]) % Prime]
    /\ iterations' = iterations + 1
    /\ phase' = "monitor"
    /\ UNCHANGED <<stiffness, load, old, copies>>

\* Slip: the copies are recovered at the new solution.
MonitorAtNew ==
    /\ phase = "monitor"
    /\ copies' = [e \in Factored |-> Recovered(e, solution, step, copies)]
    /\ old' = solution
    /\ phase' = "iterate"
    /\ UNCHANGED <<stiffness, load, solution, step, full, iterations>>

\* The monitor after an iteration: update_void_solution, then old_solution.
Monitor ==
    /\ phase = "monitor"
    /\ copies' = [e \in Factored |-> Recovered(e, old, step, copies)]
    /\ old' = solution
    /\ phase' = "iterate"
    /\ UNCHANGED <<stiffness, load, solution, step, full, iterations>>

\* The solver returns, and is called again: for the same element equations
\* with other loads.
Return(loads) ==
    /\ phase = "iterate" /\ iterations > 0
    /\ load' = loads
    /\ phase' = "start"
    /\ iterations' = 0
    /\ UNCHANGED <<stiffness, solution, old, step, full, copies>>

\* The equations of the void nodes of every factored element can be solved.
Regular(a) ==
    \A e \in Factored :
        \A y \in [VoidRows(e) -> Field] :
            (\A i \in VoidRows(e) : Sum([j \in VoidRows(e) |-> a[e][i][j] * y[j]]) = 0)
                => \A i \in VoidRows(e) : y[i] = 0

FactoredInit ==
    /\ stiffness \in {a \in Stiffnesses : Regular(a)} /\ load \in Loads
    /\ \E v \in Starts : solution = [i \in AllNodes |-> v]
    /\ old = Zero /\ step = Zero /\ full = TRUE
    /\ copies = NoCopies
    /\ iterations = 0
    /\ phase = "start"

FactoredNext ==
    \/ SetLevelSet
    \/ MonitorFirst
    \/ \E c \in {1, 2} : Iterate(c)
    \/ Monitor
    \/ \E loads \in Loads : Return(loads)

FactoredSpec == FactoredInit /\ [][FactoredNext]_factoredVars
-----------------------------------------------------------------------------
\* The element equations with independent copies at the void nodes, which
\* nobody assembles: the sum over the elements at every material node, and the
\* equations of each factored element at its void nodes.
Balanced ==
    /\ \A i \in AllNodes \ VoidNodes :
         Sum([e \in With(i) |-> Residual(e, ElementSolution(e, solution, copies))[i]]) = 0
    /\ \A e \in Factored : \A i \in VoidRows(e) :
         Residual(e, ElementSolution(e, solution, copies))[i] = 0

\* Condensing, solving and recovering solve the full system: one whole step,
\* followed by its monitor call, balances the material nodes and the void nodes
\* of every factored element, whatever the copies were before.
StepSolvesFullSystem ==
    phase = "iterate" /\ iterations > 0 /\ full => Balanced

\* Copies that differ from those of the iteration at the void nodes of e.
OtherCopies(e, s) ==
    [copies EXCEPT ![e] =
        [i \in NodesOf[e] |-> IF i \in VoidNodes THEN s[i] ELSE copies[e][i]]]

\* The copies lag behind while the line search tries solutions: the assembled
\* residual does not depend on them.
TrialResidualExact ==
    phase = "iterate" =>
        \A e \in Factored : \A s \in [VoidRows(e) -> Field] :
            Assembled(solution, OtherCopies(e, s)) = Assembled(solution, copies)
=============================================================================
