------------------------ MODULE ElementSensitivity ------------------------
(***************************************************************************)
(* The property cards and the elements of structures, heat and flow        *)
(* composed: a client changes the design and the solution between the      *)
(* evaluations, and a sensitivity assembly asks the cards and the elements *)
(* for their derivatives at the design and the solution of that moment.    *)
(***************************************************************************)
EXTENDS StressFunctional, SolidElement, TransientElement

CONSTANTS
  Start,  \* the parameters and the unknowns at first
  Other,  \* the values they are changed to
  Probe   \* a variation of the unknowns, on which tangents are evaluated

HeatParameters == {"kt", "cpt", "flux", "hconv", "tamb", "emis", "zero", "sb", "source"}
LoadParameters == {"press", "V", "mach", "rhoinf", "gamma"}
Parameters == MaterialParameters \cup SectionParameters \cup HeatParameters \cup LoadParameters
              \cup {LayerThickness[i] : i \in 1 .. NLayers} \cup {"T0", "JxW"}
AllParameters == Parameters \cup FlowParameters
AllUnknowns   == Unknowns \cup FlowUnknowns \cup Moved \cup PreviousNames

ASSUME NamesAssumption == AllParameters \cap AllUnknowns = {}
ASSUME DesignAssumption ==
  /\ Start \in [AllParameters \cup AllUnknowns -> Int]
  /\ Other \in [AllParameters \cup AllUnknowns -> Int]
  /\ Probe \in [AllUnknowns -> Int]
  /\ DOMAIN Before = Moved
\* Neither design makes a card divide by zero.
ASSUME RegularAssumption == Regular(Start) /\ Regular(Other)

VARIABLES
  design,       \* the values of the parameters and the unknowns
  initialized,  \* _initialized of the beam section
  answer        \* the last derivative that was asked for, or NoAnswer

vars == <<design, initialized, answer>>

------------------------------------------------------------------------------
(* What can be asked for *)

Plates == ("linear plate" :> LinearPlate) @@ ("membrane" :> Membrane) @@
          ("nonlinear plate" :> NonlinearPlate)
Beams  == ("linear beam" :> FALSE) @@ ("nonlinear beam" :> TRUE)
Solids == ("linear solid" :> FALSE) @@ ("nonlinear solid" :> TRUE)
\* Where an element reports its stress: the skins of a plate, the corners of a
\* beam, in the order of the code.
Skins   == ("upper" :> 1) @@ ("lower" :> -1)
Corners == ("upper right" :> <<1, 1>>) @@ ("upper left" :> <<-1, 1>>) @@
           ("lower right" :> <<1, -1>>) @@ ("lower left" :> <<-1, -1>>)
\* Whether the mass matrix is diagonal, and the orders of piston theory.
Masses == ("consistent" :> FALSE) @@ ("lumped" :> TRUE)
Spaces == ("plane" :> 2) @@ ("space" :> 3)
Orders == ("first" :> 1) @@ ("second" :> 2) @@ ("third" :> 3)

Of(kinds, names, details) == kinds \X names \X details
Objects ==
  Of({"card"}, CardObjects, {"all"}) \cup Of({"heat"}, HeatTerms, {"all"}) \cup
  Of({"residual", "tangent", "thermal"}, DOMAIN Plates \cup DOMAIN Beams, {"all"}) \cup
  Of({"residual", "thermal"}, DOMAIN Solids, {"all"}) \cup
  Of({"coupling"}, DOMAIN Plates, {"all"}) \cup
  Of({"stress", "heated stress"}, DOMAIN Plates, DOMAIN Skins) \cup
  Of({"stress"}, DOMAIN Beams, DOMAIN Corners) \cup
  Of({"functional"}, Functionals, {"all"}) \cup
  Of({"inertia"}, {"beam", "plate", "solid"}, DOMAIN Masses) \cup
  Of({"pressure"}, {"beam", "plate"}, {"all"}) \cup
  Of({"side pressure"}, {"beam", "plate", "solid"}, {"all"}) \cup
  Of({"piston", "piston tangent"}, {"beam", "plate"}, DOMAIN Orders) \cup
  Of({"flow"}, FlowTerms, DOMAIN Spaces) \cup
  Of({"beam step"}, Integrators, {"step", "start"}) \cup
  Of({"first step"}, {"heat", "flow"}, {"step", "start"})

IsPlate(o) == o[2] \in DOMAIN Plates \cup {"plate"}
IsSolid(o) == o[2] \in DOMAIN Solids \cup {"solid"}

LoadValue(o, c) ==
  LET kind == o[1]  plate == IsPlate(o)
  IN CASE kind = "pressure"       -> FacePressure(c, plate)
       [] kind = "piston"         -> PistonResidual(Orders[o[3]], plate, c)
       [] kind = "piston tangent" -> PistonJacobian(Orders[o[3]], plate, c, Probe)
       [] kind = "inertia" /\ IsSolid(o)       -> SolidInertia(c, Masses[o[3]])
       [] kind = "inertia" /\ plate            -> InertialResidual(Inertia2D(c), Masses[o[3]], c)
       [] kind = "inertia" /\ o[2] = "beam"    -> InertialResidual(Inertia1D(c), Masses[o[3]], c)
       [] kind = "side pressure" /\ IsSolid(o) -> SolidSidePressure(c)
       [] kind = "side pressure" /\ plate      -> PlateSidePressure(c)
       [] kind = "side pressure" /\ o[2] = "beam" -> BeamSidePressure(c)
Value(o, c) ==
  LET kind == o[1]  name == o[2]
  IN CASE kind = "card" -> CardValue(name, c)
       [] kind = "functional" -> Functional(name, c)
       [] kind = "beam step" -> BeamStep(name, o[3], c)
       [] kind = "first step" -> FirstStep(name, o[3], c)
       [] kind = "heat" -> HeatResidual(name, c)
       [] kind = "flow" ->
            IF Oscillating(name) THEN OscillatingResidual(name, Spaces[o[3]], c, Probe)
                                 ELSE FlowResidual(name, Spaces[o[3]], c)
       [] kind = "residual" /\ IsSolid(o) -> SolidResidual(c, Solids[name])
       [] kind = "thermal" /\ IsSolid(o)  -> SolidThermal(c, Solids[name])
       [] kind = "residual" /\ ~IsSolid(o) ->
            IF IsPlate(o) THEN PlateResidual(c, Plates[name]) ELSE BeamResidual(c, Beams[name])
       [] kind = "tangent" ->
            IF IsPlate(o) THEN PlateJacobian(c, Plates[name], Probe)
                          ELSE BeamJacobian(c, Beams[name], Probe)
       [] kind \in {"thermal", "coupling"} /\ ~IsSolid(o) ->
            IF IsPlate(o) THEN PlateThermal(c, Plates[name]) ELSE BeamThermal(c, Beams[name])
       [] kind \in {"stress", "heated stress"} ->
            IF IsPlate(o) THEN SkinStress(c, Skins[o[3]], Plates[name])
            ELSE CornerStress(c, Corners[o[3]][1], Corners[o[3]][2], Beams[name])
       [] OTHER -> LoadValue(o, c)

\* With respect to a parameter: the sensitivity functions.
LoadSensitivity(o, c, d) ==
  LET kind == o[1]  plate == IsPlate(o)
  IN CASE kind = "pressure"       -> DFacePressure(c, d, plate)
       [] kind = "piston"         -> DPistonResidual(Orders[o[3]], plate, c, d)
       [] kind = "piston tangent" -> DPistonJacobian(Orders[o[3]], plate, c, d, Probe)
       [] kind = "inertia" -> IF plate THEN DInertialResidual(Inertia2D(c), DInertia2D(c, d), Masses[o[3]], c, d)
                              ELSE DInertialResidual(Inertia1D(c), DInertia1D(c, d), Masses[o[3]], c, d)
       [] kind = "side pressure" /\ IsSolid(o) -> DSolidSidePressure(c, d)
       [] kind = "side pressure" /\ plate      -> DPlateSidePressure(c, d)
       [] kind = "side pressure" /\ o[2] = "beam" -> DBeamSidePressure(c, d)
Sensitivity(o, c, d) ==
  LET kind == o[1]  name == o[2]
  IN CASE kind = "card" -> CardDerivative(name, c, d)
       [] kind = "functional" -> FunctionalSensitivity(name, c, d)
       [] kind = "beam step" -> DBeamStep(name, o[3], c, d)
       [] kind = "heat" -> HeatSensitivity(name, c, d)
       [] kind = "flow" -> FlowSensitivity(name, Spaces[o[3]], c, d, Probe)
       [] kind = "residual" ->
            IF IsSolid(o) THEN DSolidResidual(c, d, Solids[name])
            ELSE IF IsPlate(o) THEN DPlateResidual(c, d, Plates[name])
                               ELSE DBeamResidual(c, d, Beams[name])
       [] kind = "tangent" ->
            IF IsPlate(o) THEN DPlateJacobian(c, d, Plates[name], Probe)
                          ELSE DBeamJacobian(c, d, Beams[name], Probe)
       [] kind = "thermal" ->
            IF IsPlate(o) THEN DPlateThermal(c, d, Plates[name])
                          ELSE DBeamThermal(c, d, Beams[name])
       [] kind = "stress" ->
            IF IsPlate(o) THEN DSkinStress(c, d, Skins[o[3]], Plates[name])
            ELSE DCornerStress(c, d, Corners[o[3]][1], Corners[o[3]][2], Beams[name])
       [] OTHER -> LoadSensitivity(o, c, d)
\* With respect to an unknown: a column r of the Jacobian; of a beam's tangent,
\* its change with the state.
LoadJacobian(o, c, r) ==
  CASE o[1] = "piston" -> PistonJacobian(Orders[o[3]], IsPlate(o), c, r)
    [] IsSolid(o)      -> SolidInertiaJacobian(c, Masses[o[3]], r)
    [] o[2] = "plate" /\ o[1] = "inertia" -> InertialJacobian(Inertia2D(c), Masses[o[3]], c, r)
    [] o[2] = "beam" /\ o[1] = "inertia"  -> InertialJacobian(Inertia1D(c), Masses[o[3]], c, r)
JacobianColumn(o, c, r) ==
  LET kind == o[1]  name == o[2]
  IN CASE kind = "heat" -> HeatJacobian(name, c, r)
       [] kind = "flow" -> FlowJacobian(name, Spaces[o[3]], c, r)
       [] kind = "residual" ->
            IF IsSolid(o) THEN SolidJacobian(c, Solids[name], r)
            ELSE IF IsPlate(o) THEN PlateJacobian(c, Plates[name], r)
                               ELSE BeamJacobian(c, Beams[name], r)
       [] kind = "tangent" -> BeamJacobianDot(c, r, Beams[name], Probe)
       [] kind = "thermal" ->
            IF IsSolid(o) THEN SolidThermalJacobian(c, Solids[name], r)
            ELSE IF IsPlate(o) THEN PlateThermalJacobian(c, Plates[name], r)
                               ELSE BeamThermalJacobian(c, Beams[name], r)
       [] kind = "functional" -> FunctionalDX(name, c, r)
       [] kind = "beam step" -> BeamStepJacobian(name, o[3], c, r)
       [] kind = "first step" -> FirstStepJacobian(name, o[3], c, r)
       [] kind = "coupling" -> ThermalTemperatureDerivative(c, Plates[name])
       [] kind = "heated stress" -> StressTemperatureDerivative(c)
       [] kind = "stress" ->
            IF IsPlate(o) THEN DSkinStressDX(c, Skins[o[3]], Plates[name], r)
            ELSE DCornerStressDX(c, Corners[o[3]][1], Corners[o[3]][2], Beams[name], r)
       [] OTHER -> LoadJacobian(o, c, r)

\* What each kind of object is differentiated by.  Beams, the sides of an
\* element and piston theory have no boundary velocity; a solid's thermal
\* residual has no sensitivity, and its inertia has none that fits its size;
\* only the beam's tangent has a derivative with respect to the solution.
ByParameters(o) ==
  CASE o[1] \in {"coupling", "heated stress", "first step"} -> {}
    [] o[1] = "beam step" -> Parameters \ {"JxW"}
    [] o[1] = "flow" -> FlowByParameters(o[2], Spaces[o[3]])
    [] IsSolid(o) /\ o[1] \in {"thermal", "inertia"} -> {}
    [] o[1] \in {"residual", "tangent", "thermal"} /\ ~IsPlate(o) -> Parameters \ {"JxW"}
    [] o[1] \in {"side pressure", "piston", "piston tangent"} -> Parameters \ {"JxW"}
    [] o[1] = "heat" /\ o[2] \in SideLoads -> Parameters \ {"JxW"}
    [] o[1] \in {"thermal", "stress", "functional"} /\ ~IsSolid(o) -> Parameters \cup {"temp"}
    [] OTHER -> Parameters
BySolution(o) ==
  CASE o[1] \in {"card", "pressure", "side pressure", "piston tangent"} -> {}
    [] o[1] = "heat" -> Temperatures
    [] o[1] = "beam step" -> IF o[3] = "start" THEN Accelerations ELSE Moved
    [] o[1] = "first step" -> FirstBySolution(o[2], o[3])
    [] o[1] = "flow" -> FlowBySolution(o[2], Spaces[o[3]])
    [] o[1] \in {"coupling", "heated stress"} -> {"temp"}
    [] o[1] = "tangent" /\ IsPlate(o) -> {}
    [] o[1] = "inertia" -> Accelerations
    [] o[1] = "piston" -> Velocities \cup {"vx", "wx", "wy"}
    [] o[1] \in {"residual", "thermal"} /\ IsSolid(o) -> SolidGradients
    [] OTHER -> Displacements

\* Parameter::derivative: one for the parameter itself, zero for the others.
Direction(f) == [p \in AllParameters \cup AllUnknowns |-> IF p = f THEN 1 ELSE 0]
NoAnswer == [of |-> <<"none", "none", "none">>, wrt |-> "none", m |-> Nothing]

------------------------------------------------------------------------------
Init ==
  /\ design = Start
  /\ initialized = FALSE
  /\ answer = NoAnswer

\* Solid1DSectionElementPropertyCard::init.
InitSection ==
  /\ ~initialized
  /\ answer = NoAnswer
  /\ initialized' = TRUE
  /\ UNCHANGED <<design, answer>>

\* The optimizer writes new values into parameters, the solver a new solution;
\* function objects and elements refer to them and see them at their next call.
Change(names) ==
  /\ answer = NoAnswer
  /\ \E p \in names : design[p] # Other[p]
  /\ design' = [p \in DOMAIN design |-> IF p \in names THEN Other[p] ELSE design[p]]
  /\ UNCHANGED <<initialized, answer>>
SetDesign   == Change(AllParameters)
SetSolution == Change(AllUnknowns)

\* The objects of the beam section assert that the section is initialized.
Ready(o) ==
  o[2] \in BeamObjects \cup {"beam inertia", "beam"} \cup DOMAIN Beams \cup Integrators => initialized

\* A sensitivity assembly asks an object for its derivative.
AskSensitivity(o, f) ==
  /\ answer = NoAnswer
  /\ Ready(o)
  /\ answer' = [of |-> o, wrt |-> f, m |-> Sensitivity(o, design, Direction(f))]
  /\ UNCHANGED <<design, initialized>>
\* The solver asks an element for a column of its Jacobian.
AskJacobian(o, u) ==
  /\ answer = NoAnswer
  /\ Ready(o)
  /\ answer' = [of |-> o, wrt |-> u, m |-> JacobianColumn(o, design, Direction(u))]
  /\ UNCHANGED <<design, initialized>>

\* The assembly adds the answer to its own matrix or vector and goes on.
UseAnswer ==
  /\ answer # NoAnswer
  /\ answer' = NoAnswer
  /\ UNCHANGED <<design, initialized>>

Next ==
  \/ UseAnswer
  \/ InitSection
  \/ SetDesign
  \/ SetSolution
  \/ \E o \in Objects : \E f \in ByParameters(o) : AskSensitivity(o, f)
  \/ \E o \in Objects : \E u \in BySolution(o) : AskJacobian(o, u)

Spec == Init /\ [][Next]_vars

------------------------------------------------------------------------------
(* Properties *)

IsDerivativeOf(F(_)) == Agree(answer.m, Quotient(F, design, Direction(answer.wrt)))
Exact == IsDerivativeOf(LAMBDA c : Value(answer.of, c))

\* What the code does not differentiate, or differentiates wrongly: the inertia
\* of beams and plates (of a beam, its off-diagonal entries), the shear of an
\* orthotropic card, the reference temperature of a thermal load, the sign of
\* the thermal expansion in the stress, the constants of radiation, the
\* residual of solids, the tangent of a plate's piston theory across the flow's
\* first direction, the share of the new acceleration in the start of
\* generalized alpha, the stabilization of the storage in a step of the flow,
\* and what FlowGap lists.
BeamInertiaGap  == {"rho", "hy", "hz", "offy"}
PlateInertiaGap == {"rho", "h", "off"}
KnownGap ==
  LET of == answer.of  wrt == answer.wrt
  IN \/ of[2] = "beam inertia" /\ wrt \in BeamInertiaGap
     \/ of = <<"inertia", "beam", "consistent">> /\ wrt \in BeamInertiaGap
     \/ of[2] = "plate inertia" /\ wrt \in PlateInertiaGap
     \/ of[1] = "inertia" /\ IsPlate(of) /\ wrt \in PlateInertiaGap
     \/ of[2] = "orthotropic shear" /\ wrt = "kappa"
     \/ of[1] \in {"thermal", "beam step"} /\ wrt = "T0"
     \/ of = <<"beam step", "generalized alpha", "start">> /\ wrt \in Accelerations
     \/ of = <<"first step", "flow", "step">> /\ wrt \in FlowValues(2)
     \/ of[1] \in {"stress", "functional"} /\ wrt = "alpha"
     \/ of[2] \in {"side radiation", "radiation"} /\ wrt \in {"tamb", "zero", "sb"}
     \/ of[1] = "residual" /\ IsSolid(of) /\ wrt \in {"E", "nu"}
     \/ of[1] = "piston" /\ IsPlate(of) /\ wrt = "wy"
     \/ of[1] = "flow" /\ FlowGap(of[2], Spaces[of[3]], wrt)

\* derivative() of a card's object is the derivative of what the same object
\* returns, with respect to every parameter, also one it does not depend on:
\* for the material matrices, and through them for the stiffness, thermal
\* expansion, conductance and capacitance of beams, plates and laminates.
CardDerivativesExact ==
  answer.of[1] = "card" => KnownGap \/ IsDerivativeOf(LAMBDA c : CardValue(answer.of[2], c))

\* An element's sensitivity is the derivative of its residual, of its tangent
\* or of its stress: what a design optimizer's gradients are made of.
ElementSensitivitiesExact ==
  answer.wrt \in AllParameters =>
    KnownGap \/ answer.of[1] = "card" \/ Exact

\* What the hand-written tangent of a nonlinear plate leaves out of a column r:
\* the Green-Lagrange rows in the von Karman and bending columns, and the
\* von Karman and bending rows in the Green-Lagrange columns.
PlateLeftOut(c, r) ==
  LET A == ExtensionStiffness2D(c)  B == ExtensionBending2D(c)
      green == Plus(Times(MatX(c), Field(NlX, r)), Times(MatY(c), Field(NlY, r)))
      outOfPlane == Plus(Times(A, Times(VkMat(c), Field(Vk, r))), Times(B, Field(Bend, r)))
  IN Scale(c.JxW,
           SumAll(<<Pull(NlX, Times(Transpose(MatX(c)), outOfPlane)),
                    Pull(NlY, Times(Transpose(MatY(c)), outOfPlane)),
                    Pull(Vk, Times(Transpose(VkMat(c)), Times(A, green))),
                    Pull(Bend, Times(Transpose(B), green))>>))
LeftOut == When(answer.of = <<"residual", "nonlinear plate", "all">>,
                PlateLeftOut(design, Direction(answer.wrt)))

\* An element's Jacobian is the derivative of its residual with respect to the
\* unknowns, which Newton's method converges by; so is the derivative of the
\* stress, the coupling of the structure with the temperature, and the change
\* of a beam's tangent along a solution's sensitivity. The tangent of a
\* nonlinear plate is the derivative without exactly the products in LeftOut:
\* every other product of the membrane, von Karman and bending blocks is there.
ElementTangentsExact ==
  answer.wrt \in AllUnknowns =>
    \/ KnownGap
    \/ Agree(Plus(answer.m, LeftOut),
             Quotient(LAMBDA c : Value(answer.of, c), design, Direction(answer.wrt)))

AsOrthotropic(c) ==
  [c EXCEPT !.E11 = c.E, !.E22 = c.E, !.E33 = c.E, !.nu12 = c.nu, !.nu13 = c.nu, !.nu23 = c.nu,
            !.G12 = ShearModulus(c), !.G13 = ShearModulus(c), !.G23 = ShearModulus(c)]
MaterialsAgree ==
  LET solid == StiffnessMatrix3D(design)
      plane == StiffnessMatrix2D(design)
      Condensed(p) == solid[p] -- ((solid[<<p[1], 2>>] ** solid[<<2, p[2]>>]) // solid[<<2, 2>>])
  IN /\ Agree(OrthotropicStiffness3D(AsOrthotropic(design)), solid)
     /\ Agree(OrthotropicStiffness2D(AsOrthotropic(design)), plane)
     /\ \A p \in (0 .. 1) \X (0 .. 1) : plane[p] % Prime = Condensed(p) % Prime
     /\ Agree(OrthotropicStiffness3D(design), Transpose(OrthotropicStiffness3D(design)))
     /\ Agree(Oriented(solid, design), solid)

SectionsAgree ==
  LET total == ThicknessBelow(design, NLayers)
      plate == [design EXCEPT !.h = total, !.off = 0 -- ((Base ** total) // 2)]
      I == AreaInertiaMatrix(design)
  IN /\ Agree(LaminateA(design), ExtensionStiffness2D(plate))
     /\ Agree(LaminateB(design), ExtensionBending2D(plate))
     /\ Agree(LaminateD(design), Bending2D(plate))
     /\ PolarInertia(design) = I[<<0, 0>>] ++ I[<<1, 1>>]

\* The cards describe one material and one structure: with the constants of an
\* isotropic material the orthotropic card returns the isotropic matrices,
\* plane stress is the solid with its normal stress condensed away, the
\* orthotropic stiffness is symmetric, and turning an isotropic solid changes
\* nothing; a laminate whose layers are of one material is the plate of their
\* total thickness, centred where the base puts it, and the polar inertia of a
\* beam is the trace of its inertia matrix.
CardsConsistent == answer = NoAnswer => MaterialsAgree /\ SectionsAgree

\* The work of the force f, and of the stress s on the strain e.
Work(f, r) == MapThenSumSet(LAMBDA p : f[p] ** r[p[1]], DOMAIN f) % Modulus
Dot(s, e)  == MapThenSumSet(LAMBDA p : s[p] ** At(e, p), DOMAIN s) % Modulus

\* Twelve times the integral of a product of two linear functions over a unit
\* interval, from their values at its ends.
Ends == {1, -1}
Weight(a, b) == IF a = b THEN 4 ELSE 2

PlateStressesWork(mode) ==
  LET c == design
      internal == PlateForce(c, ExtensionStiffness2D(c), ExtensionBending2D(c), Bending2D(c), mode)
      thermal == Scale(Reciprocal(c.JxW), PlateThermal(c, mode))
      Pair(a, b) == Weight(a, b) ** Dot(SkinStress(c, a, mode), DSkinStrainDX(c, b, mode, Probe))
  IN (c.h ** Twelfth ** MapThenSumSet(LAMBDA p : Pair(p[1], p[2]), Ends \X Ends)) % Prime
       = Work(Plus(internal, thermal), Probe) % Prime

\* The work of the beam's corner stresses, on the solution c and the variation
\* r, against its residual without torsion and shear.
BeamStressesWork(c, r, nonlinear) ==
  LET stiff == ExtensionStiffness1D(c)
      internal == BeamForce(c, <<0, 0>> :> stiff[<<0, 0>>], ExtensionBending1D(c), Bending1D(c),
                            nonlinear)
      thermal == Scale(Reciprocal(c.JxW), BeamThermal(c, nonlinear))
      Pair(a, b) ==
        Weight(a[1], b[1]) ** Weight(a[2], b[2]) **
        Dot(CornerStress(c, a[1], a[2], nonlinear), DCornerStrainDX(c, b[1], b[2], nonlinear, r))
  IN (Area(c) ** Square(Twelfth) **
        MapThenSumSet(LAMBDA p : Pair(p[1], p[2]), (Ends \X Ends) \X (Ends \X Ends))) % Prime
       = Work(Plus(internal, thermal), r) % Prime

\* The two ways a structure's stress is used agree: the stresses that are
\* reported (and constrained in an optimization), with the strain variations
\* reported beside them, integrate over the section to the work of the internal
\* and thermal residual that was solved; for plates, and for beams bent in one
\* plane.
Unbent(c) == [c EXCEPT !.tyx = 0]
StressesDoTheWork ==
  answer = NoAnswer =>
    /\ \A n \in DOMAIN Plates : PlateStressesWork(Plates[n])
    /\ \A n \in DOMAIN Beams : BeamStressesWork(Unbent(design), Unbent(Probe), Beams[n])

\* The flow with the conservative variables of the far field.
AtFarField(dim) ==
  LET far == FarField(design, dim)
  IN [n \in {FlowU[k] : k \in Equations(dim)} |->
        far[<<CHOOSE k \in Equations(dim) : FlowU[k] = n, 0>>]] @@ design
ThroughSide(dim, F(_)) == Over(dim, LAMBDA i : Scale(SideNormal[dim][i], F(i)))
FluxesAgree(dim) ==
  LET s == PrimitiveSolution(design, dim)  n == SideNormal[dim]
      one == Diagonal(dim + 2, 1)
      A(i) == AdvectionJacobian(i, s)
      through == ThroughSide(dim, A)
      toPrimitive == PrimitivesByConservatives(s)
      toEntropy == EntropyByConservatives(s)  fromEntropy == ConservativesByEntropy(s)
  IN /\ Agree(Times(toPrimitive, ConservativesByPrimitives(s)), one)
     /\ Agree(Times(toEntropy, fromEntropy), one)
     /\ \A i \in 1 .. dim :
          LET symmetric == Times(A(i), fromEntropy) IN Agree(symmetric, Transpose(symmetric))
     /\ Agree(Times(through, Conservatives(s)), ThroughSide(dim, LAMBDA i : AdvectionFlux(i, s)))
     /\ \A m \in MajorAxes(s, n) :
          /\ Agree(Times(Transpose(LeftEigenvectors(s, n, m)), LeftEigenvectorsInverse(s, n, m)), one)
          /\ Agree(Split(s, n, m, Vars(s)), through)
     /\ \A i, j \in 1 .. dim :
          Agree(DiffusionJacobian(i, j, s),
                Times(DiffusionJacobianPrimitive(i, j, s.u, s.kth, s), toPrimitive))
FreeStreamPreserved(dim) ==
  LET free == AtFarField(dim)  far == PrimitiveSolution(free, dim)
  IN Agree(FarSide(free, dim), AtSide(dim, ThroughSide(dim, LAMBDA i : AdvectionFlux(i, far))))
\* The surface's oscillation as a velocity Iota * omega / bV times its motion.
OscillationIsLinear(dim) ==
  LET speed == Iota ** (design.omega // design.bV)
      moving == [n \in {WallSpeed[i] : i \in 1 .. 3} |->
                   speed ** design[Motion[CHOOSE i \in 1 .. 3 : WallSpeed[i] = n]]]
      swaying == [n \in {WallRotation[i] : i \in 1 .. 3} |->
                    design[Sway[CHOOSE i \in 1 .. 3 : WallRotation[i] = n]]]
  IN Agree(FrequencyWall(design, dim, Probe),
           Scale(design.bV, LinearizedWall(design, dim, Probe @@ moving @@ swaying)))

\* The flow's matrices, which the code writes entry by entry for each dimension
\* and in several forms, belong to one flux: the changes of variables invert
\* each other, the entropy variables symmetrize the flux, its eigenvectors for
\* every major axis of a normal rebuild its Jacobian, the viscous matrices in
\* conservative and primitive variables are one; a free stream passes the far
\* field unchanged, and the oscillating wall of the frequency domain is the
\* linearized wall.
FluxesConsistent ==
  answer = NoAnswer =>
    \A dim \in Dims : FluxesAgree(dim) /\ FreeStreamPreserved(dim) /\ OscillationIsLinear(dim)
===============================================================================
