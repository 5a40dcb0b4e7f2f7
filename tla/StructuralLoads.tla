---------------------------- MODULE StructuralLoads ----------------------------
(***************************************************************************)
(* What StructuralElementBase adds to the internal residual of beams and   *)
(* plates: inertia with a consistent or a diagonal mass matrix, pressure   *)
(* on the face and on a side, and the pressure of a supersonic flow by     *)
(* piston theory (PistonTheoryBoundaryCondition).                          *)
(***************************************************************************)
EXTENDS SectionCards, StrainOperators

\* The six accelerations interpolated, or the first n of them.
Acceleration == <<"au", "av", "aw", "atx", "aty", "atz">>
AccelerationShape(n) == [p \in {<<i, Acceleration[i + 1]>> : i \in 0 .. (n - 1)} |-> 1]

\* A diagonal mass matrix keeps the diagonal of the inertia only.
Lumped(m)  == [p \in {q \in DOMAIN m : q[1] = q[2]} |-> m[p]]
Mass(m, lumped) == IF lumped THEN Lumped(m) ELSE m
InertiaForce(m, lumped, n, c) ==
  Pull(AccelerationShape(n), Times(Mass(m, lumped), Field(AccelerationShape(n), c)))

InertialResidual(m, lumped, c)    == Scale(c.JxW, InertiaForce(m, lumped, 6, c))
InertialJacobian(m, lumped, c, r) == Scale(c.JxW, InertiaForce(m, lumped, 6, r))
DInertialResidual(m, dm, lumped, c, d) ==
  Plus(Scale(c.JxW, InertiaForce(dm, lumped, 6, c)),
       Scale(d.JxW, InertiaForce(m, lumped, 6, c)))

------------------------------------------------------------------------------
(* Pressure *)

Push(u, v) == <<u, 0>> :> v
\* On the face: against the normal, which is local y of a beam and z of a plate.
FaceUnknown(plate) == IF plate THEN "w" ELSE "v"
FacePressure(c, plate)     == Push(FaceUnknown(plate), c.JxW ** c.press)
DFacePressure(c, d, plate) ==
  Push(FaceUnknown(plate), (c.JxW ** d.press) ++ (d.JxW ** c.press))

\* On a side, along its normal, over the extent of the section: a beam's area,
\* a plate's thickness, 1 for a solid.
Normal == ("u" :> (3 // 5)) @@ ("v" :> (4 // 5))
OnSide(force) == [p \in {<<u, 0>> : u \in DOMAIN Normal} |-> 0 -- (force ** Normal[p[1]])]
SidePressure(c, extent) == OnSide(c.JxW ** c.press ** extent)
DSidePressure(c, d, extent, dextent) ==
  OnSide(c.JxW ** ((c.press ** dextent) ++ (d.press ** extent)))
BeamSidePressure(c)      == SidePressure(c, Area(c))
PlateSidePressure(c)     == SidePressure(c, c.h)
SolidSidePressure(c)     == SidePressure(c, 1)
DBeamSidePressure(c, d)  == DSidePressure(c, d, Area(c), DArea(c, d))
DPlateSidePressure(c, d) == DSidePressure(c, d, c.h, d.h)
DSolidSidePressure(c, d) == DSidePressure(c, d, 1, 0)

------------------------------------------------------------------------------
(* Piston theory: the pressure at the slope s and the velocity t of the surface *)

Beta2(c)  == (c.mach ** c.mach) -- 1
Mf(c)     == (Beta2(c) -- 1) // Beta2(c)
Strength(c) == c.rhoinf // SquareRoot(Beta2(c))
Quadratic(c) == ((c.gamma ++ 1) // 4) ** c.mach
Cubic(c)     == (c.gamma ++ 1) ** Twelfth ** Square(c.mach)

V0(c, s, t) == s ++ ((Mf(c) ** t) // c.V)
VN(c, s, t) == (c.V ** s) ++ (Mf(c) ** t)
PistonPressure(order, c, s, t) ==
  Strength(c) ** (((c.V ** VN(c, s, t)) ++
    (IF order >= 2 THEN Quadratic(c) ** Square(VN(c, s, t)) ELSE 0)) ++
    (IF order = 3 THEN Cubic(c) ** V0(c, s, t) ** Square(VN(c, s, t)) ELSE 0))

\* Its derivative along (ds, dt): PistonTheoryPressureXDerivative is the one
\* along (1, 0), PistonTheoryPressureXdotDerivative the one along (0, 1).
PistonSlope(order, c, s, t, ds, dt) ==
  LET dn == (c.V ** ds) ++ (Mf(c) ** dt)
      dsquare == 2 ** VN(c, s, t) ** dn
  IN Strength(c) ** (((c.V ** dn) ++
       (IF order >= 2 THEN Quadratic(c) ** dsquare ELSE 0)) ++
       (IF order = 3 THEN Cubic(c) ** ((V0(c, s, t) ** dsquare) ++
                                       ((ds ++ ((Mf(c) ** dt) // c.V)) ** Square(VN(c, s, t))))
        ELSE 0))

\* The derivatives with respect to a parameter of the flow.
DBeta2(c, d)    == 2 ** c.mach ** d.mach
DMf(c, d)       == (DBeta2(c, d) // Beta2(c)) -- (((Beta2(c) -- 1) ** DBeta2(c, d)) // Square(Beta2(c)))
DStrength(c, d) ==
  (d.rhoinf // SquareRoot(Beta2(c))) --
  ((c.rhoinf ** DBeta2(c, d)) // (2 ** Beta2(c) ** SquareRoot(Beta2(c))))
DQuadratic(c, d) == ((d.gamma // 4) ** c.mach) ++ (((c.gamma ++ 1) // 4) ** d.mach)
DCubic(c, d) ==
  Twelfth ** ((d.gamma ** Square(c.mach)) ++ ((c.gamma ++ 1) ** 2 ** c.mach ** d.mach))
DV0(c, d, t) == ((DMf(c, d) ** t) // c.V) -- ((Mf(c) ** t ** d.V) // Square(c.V))
DVN(c, d, s, t) == (d.V ** s) ++ (DMf(c, d) ** t)

DPistonPressure(order, c, d, s, t) ==
  LET square == Square(VN(c, s, t))  dsquare == 2 ** VN(c, s, t) ** DVN(c, d, s, t)
      linear  == c.V ** VN(c, s, t)
      dlinear == (d.V ** VN(c, s, t)) ++ (c.V ** DVN(c, d, s, t))
      second  == IF order >= 2 THEN Quadratic(c) ** square ELSE 0
      dsecond == IF order >= 2 THEN (DQuadratic(c, d) ** square) ++ (Quadratic(c) ** dsquare) ELSE 0
      third   == IF order = 3 THEN Cubic(c) ** V0(c, s, t) ** square ELSE 0
      dthird  == IF order = 3
                 THEN (DCubic(c, d) ** V0(c, s, t) ** square) ++
                      (Cubic(c) ** ((DV0(c, d, t) ** square) ++ (V0(c, s, t) ** dsquare)))
                 ELSE 0
  IN (DStrength(c, d) ** ((linear ++ second) ++ third)) ++
     (Strength(c) ** ((dlinear ++ dsecond) ++ dthird))

DPistonSlope(order, c, d, s, t, ds, dt) ==
  LET n == VN(c, s, t)  dn == (c.V ** ds) ++ (Mf(c) ** dt)
      d0 == ds ++ ((Mf(c) ** dt) // c.V)
      nd == DVN(c, d, s, t)  dnd == DVN(c, d, ds, dt)
      dsquare  == 2 ** n ** dn
      dsquared == (2 ** nd ** dn) ++ (2 ** n ** dnd)
      linear  == c.V ** dn
      dlinear == (d.V ** dn) ++ (c.V ** dnd)
      third   == (V0(c, s, t) ** dsquare) ++ (d0 ** Square(n))
      dthird  == ((DV0(c, d, t) ** dsquare) ++ (V0(c, s, t) ** dsquared)) ++
                 ((DV0(c, d, dt) ** Square(n)) ++ (d0 ** 2 ** n ** nd))
  IN (DStrength(c, d) ** ((linear ++
        (IF order >= 2 THEN Quadratic(c) ** dsquare ELSE 0)) ++
        (IF order = 3 THEN Cubic(c) ** third ELSE 0))) ++
     (Strength(c) ** ((dlinear ++
        (IF order >= 2 THEN (DQuadratic(c, d) ** dsquare) ++ (Quadratic(c) ** dsquared) ELSE 0)) ++
        (IF order = 3 THEN (DCubic(c, d) ** third) ++ (Cubic(c) ** dthird) ELSE 0)))

\* The pressure acts on w of a plate, with the slope along the flow, and on v
\* of a beam (the pressure on its w has no component along the face's normal).
Flow == <<3 // 5, 4 // 5>>
PistonSurface(c, plate) ==
  IF plate THEN <<(Flow[1] ** c.wx) ++ (Flow[2] ** c.wy), c.wt>> ELSE <<c.vx, c.vt>>
\* The tangent: of a plate, the derivative of w along y is multiplied into a
\* row that the operator of w does not have, and is lost.
PistonVariation(r, plate) == IF plate THEN <<Flow[1] ** r.wx, r.wt>> ELSE <<r.vx, r.vt>>

PistonResidual(order, plate, c) ==
  LET at == PistonSurface(c, plate)
  IN Push(FaceUnknown(plate), c.JxW ** PistonPressure(order, c, at[1], at[2]))
PistonJacobian(order, plate, c, r) ==
  LET at == PistonSurface(c, plate)  by == PistonVariation(r, plate)
  IN Push(FaceUnknown(plate), c.JxW ** PistonSlope(order, c, at[1], at[2], by[1], by[2]))
DPistonResidual(order, plate, c, d) ==
  LET at == PistonSurface(c, plate)
  IN Push(FaceUnknown(plate), c.JxW ** DPistonPressure(order, c, d, at[1], at[2]))
DPistonJacobian(order, plate, c, d, r) ==
  LET at == PistonSurface(c, plate)  by == PistonVariation(r, plate)
  IN Push(FaceUnknown(plate), c.JxW ** DPistonSlope(order, c, d, at[1], at[2], by[1], by[2]))
===============================================================================
