---------------------------- MODULE TransientElement ----------------------------
(***************************************************************************)
(* The element equations of a time step.  The time integrators hand the    *)
(* elements a solution with the rates it implies (or, for the first        *)
(* step, a solution with an unknown highest rate), weigh the Jacobians of  *)
(* the terms for Newton's method, and collect what a sensitivity of the    *)
(* previous step contributes.  First order: heat conduction, and Euler     *)
(* flow in the plane; second order: a beam with lumped inertia in a        *)
(* supersonic flow.                                                        *)
(***************************************************************************)
EXTENDS StructuralLoads, BeamElement, HeatElement, FluidElement

CONSTANTS
  Dt,      \* dt
  Beta,    \* beta of the Newmark solvers
  Gamma,   \* gamma of the second-order one
  RhoInf,  \* rho_inf
  Before   \* solution(1), velocity(1) and acceleration(1) of the displacements

Integrators == {"Newmark", "generalized alpha"}
\* update_coefficient: the shares m and f of the previous step.
AlphaM == ((2 ** RhoInf) -- 1) // (RhoInf ++ 1)
AlphaF == RhoInf // (RhoInf ++ 1)
Coefficients(integrator) ==
  IF integrator = "Newmark" THEN [m |-> 0, f |-> 0, beta |-> Beta, gamma |-> Gamma]
  ELSE [m |-> AlphaM, f |-> AlphaF, gamma |-> (Half -- AlphaM) ++ AlphaF,
        beta |-> Square((1 -- AlphaM) ++ AlphaF) // 4]

------------------------------------------------------------------------------
(* Second order *)

\* The unknown each velocity and acceleration is the rate of.
RateOf ==
  ("vt" :> "v") @@ ("wt" :> "w") @@ ("au" :> "u") @@ ("av" :> "v") @@ ("aw" :> "w") @@
  ("atx" :> "tx") @@ ("aty" :> "ty") @@ ("atz" :> "tz")
Moved    == Displacements \cup {"u", "v", "w"}
Previous(n) == Before[RateOf[n]]

\* update_velocity and update_acceleration, per step x of the solution.
VelocityPerStep(k)     == k.gamma // (k.beta ** Dt)
AccelerationPerStep(k) == Reciprocal(k.beta ** Dt ** Dt)
UpdatedVelocity(k, x, old) ==
  ((VelocityPerStep(k) ** (x -- old.x)) ++ ((1 -- (k.gamma // k.beta)) ** old.v)) ++
  ((1 -- (k.gamma // (2 ** k.beta))) ** Dt ** old.a)
UpdatedAcceleration(k, x, old) ==
  ((AccelerationPerStep(k) ** (x -- old.x)) -- (old.v // (k.beta ** Dt))) --
  (((Half -- k.beta) // k.beta) ** old.a)

\* The rates of a step, which the solver computes, or of a start, which it has.
Rates(k, stage, c) ==
  [n \in DOMAIN RateOf |->
     IF stage = "start" THEN c[n]
     ELSE IF n \in Velocities THEN UpdatedVelocity(k, c[RateOf[n]], Previous(n))
     ELSE UpdatedAcceleration(k, c[RateOf[n]], Previous(n))]
\* set_element_data.
Mixed(new, old, share) == ((1 -- share) ** new) ++ (share ** old)
ElementData(k, stage, c) ==
  LET rate == Rates(k, stage, c)
  IN [n \in DOMAIN c |->
        CASE n \in Moved         -> Mixed(c[n], Before[n].x, k.f)
          [] n \in Velocities    -> Mixed(rate[n], Previous(n).v, k.f)
          [] n \in Accelerations -> Mixed(rate[n], Previous(n).a, k.m)
          [] OTHER -> c[n]]

\* f_m and f_x of the structural assembly, of the element data s.
BeamEquations(s) ==
  SumAll(<<BeamResidual(s, TRUE), FacePressure(s, FALSE), BeamThermal(s, TRUE),
           PistonResidual(2, FALSE, s), InertialResidual(Inertia1D(s), TRUE, s)>>)
DBeamEquations(s, d) ==
  SumAll(<<DBeamResidual(s, d, TRUE), DFacePressure(s, d, FALSE), DBeamThermal(s, d, TRUE),
           DPistonResidual(2, FALSE, s, d),
           DInertialResidual(Inertia1D(s), DInertia1D(s, d), TRUE, s, d)>>)

\* A variation r of the unknowns, and one that is only in some of the rates.
AtRest(r) == [n \in DOMAIN r |-> IF n \in DOMAIN RateOf THEN 0 ELSE r[n]]
AsRate(rates, r) == [n \in DOMAIN r |-> IF n \in rates THEN r[RateOf[n]] ELSE 0]
ByInertia(s, r) == InertialJacobian(Inertia1D(s), TRUE, s, r)
ByRate(s, r)     == PistonJacobian(2, FALSE, s, r)
ByPosition(s, r) ==
  SumAll(<<BeamJacobian(s, TRUE, r), BeamThermalJacobian(s, TRUE, r),
           PistonJacobian(2, FALSE, s, AtRest(r))>>)

\* elem_calculations.
\* Slip: the rates are weighted by the step, not by the mean of the two.
UnsharedStepJacobian(k, s, r) ==
  SumAll(<<Scale(AccelerationPerStep(k), ByInertia(s, AsRate(Accelerations, r))),
           Scale(VelocityPerStep(k), ByRate(s, AsRate(Velocities, r))),
           Scale(1 -- k.f, ByPosition(s, r))>>)
StepJacobian(k, s, r) ==
  SumAll(<<Scale(AccelerationPerStep(k) ** (1 -- k.m), ByInertia(s, AsRate(Accelerations, r))),
           Scale(VelocityPerStep(k) ** (1 -- k.f), ByRate(s, AsRate(Velocities, r))),
           Scale(1 -- k.f, ByPosition(s, r))>>)

BeamStep(integrator, stage, c) ==
  BeamEquations(ElementData(Coefficients(integrator), stage, c))
DBeamStep(integrator, stage, c, d) ==
  DBeamEquations(ElementData(Coefficients(integrator), stage, c), d)
\* At a start f_m_jac_xddot alone, also of generalized alpha.
BeamStepJacobian(integrator, stage, c, r) ==
  LET k == Coefficients(integrator)  s == ElementData(k, stage, c)
  IN IF stage = "start" THEN ByInertia(s, r) ELSE StepJacobian(k, s, r)

------------------------------------------------------------------------------
(* First order *)

\* The solution and the rate of the previous step.
Was(n) == n \o "0"
FirstRates(field) ==
  IF field = "heat" THEN "rate" :> "temp"
  ELSE [n \in FlowRates(2) |-> FlowU[CHOOSE k \in Equations(2) : FlowV[k] = n]]
PreviousOf(field) == UNION {{Was(n), Was(FirstRates(field)[n])} : n \in DOMAIN FirstRates(field)}
PreviousNames     == PreviousOf("heat") \cup PreviousOf("flow")
FirstBySolution(field, stage) ==
  IF stage = "start" THEN DOMAIN FirstRates(field)
  ELSE PreviousOf(field) \cup
       (IF field = "heat" THEN {"temp", "tempx", "tempy"} ELSE FlowValues(2) \cup FlowGradients(2))

\* update_velocity.
FirstOrderVelocity(x, x0, v0) ==
  ((x -- x0) // (Beta ** Dt)) -- (((1 -- Beta) // Beta) ** v0)
FirstOrderData(field, stage, c) ==
  LET rate == FirstRates(field)
  IN IF stage = "start" THEN c
     ELSE [n \in DOMAIN rate |->
             FirstOrderVelocity(c[rate[n]], c[Was(rate[n])], c[Was(n)])] @@ c

\* f_m and f_x of heat conduction, and of a flow element away from the sides.
HeatEquations(s) == FoldSet(LAMBDA t, sum : Plus(HeatResidual(t, s), sum), Nothing, HeatTerms)
FirstEquations(field, s) ==
  IF field = "heat" THEN HeatEquations(s)
  ELSE Plus(InternalFlow(s, 2, FALSE), FlowResidual("storage of flow", 2, s))
\* By the rates, and by the solution.
StorageBy(field, s, r) ==
  IF field = "heat" THEN StorageJacobian(s, r) ELSE VelocityFlowJacobian(s, 2, r)
OnlyRates(field, r)  == [n \in DOMAIN r |-> IF n \in DOMAIN FirstRates(field) THEN r[n] ELSE 0]
OnlyStates(field, r) == [n \in DOMAIN r |-> IF n \in DOMAIN FirstRates(field) THEN 0 ELSE r[n]]
BySolutionFirst(field, s, r) ==
  IF field = "heat"
  THEN FoldSet(LAMBDA t, sum : Plus(HeatJacobian(t, s, OnlyStates(field, r)), sum),
               Nothing, HeatTerms)
  ELSE Plus(InternalFlowJacobian(s, 2, FALSE, r), VelocityFlowJacobian(s, 2, OnlyStates(field, r)))

\* A variation of the rates alone.
RatesBy(field, r, rate(_)) ==
  [n \in DOMAIN r |-> IF n \in DOMAIN FirstRates(field) THEN rate(n) ELSE 0]
\* elem_sensitivity_contribution_previous_timestep, for r of the previous names.
PreviousContribution(field, s, r) ==
  Minus(StorageBy(field, s, RatesBy(field, r,
    LAMBDA n : (r[Was(FirstRates(field)[n])] // (Beta ** Dt)) ++ (((1 -- Beta) // Beta) ** r[Was(n)]))))

FirstStep(field, stage, c) == FirstEquations(field, FirstOrderData(field, stage, c))
FirstStepJacobian(field, stage, c, r) ==
  LET s == FirstOrderData(field, stage, c)
  IN IF stage = "start" THEN StorageBy(field, s, OnlyRates(field, r))
     ELSE SumAll(<<Scale(Reciprocal(Beta ** Dt),
                         StorageBy(field, s, RatesBy(field, r, LAMBDA n : r[FirstRates(field)[n]]))),
                   BySolutionFirst(field, s, r), PreviousContribution(field, s, r)>>)
===============================================================================
