------------------------------ MODULE SectionCards ------------------------------
(***************************************************************************)
(* The beam section (Solid1DSection), the plate section (Solid2DSection)   *)
(* and the laminate of plates (Multilayer2DSection), composed with the     *)
(* material cards: the function objects of the cards and their derivatives *)
(***************************************************************************)
EXTENDS MaterialCards, FiniteSetsExt

CONSTANTS
  NLayers,  \* the layers of the laminate
  Base      \* the position of the reference plane in the laminate

SectionParameters == {"hy", "hz", "offy", "offz", "h", "off"}
LayerThickness    == <<"h0", "h1", "h2">>

ASSUME LayersAssumption == NLayers \in 1 .. 3 /\ Base \in Int

Twelfth == Reciprocal(12)
Tiny    == Reciprocal(1000000)

------------------------------------------------------------------------------
(* Beam section *)

Area(c)     == c.hy ** c.hz
DArea(c, d) == (d.hy ** c.hz) ++ (c.hy ** d.hz)

\* hy > hz on the residues stands for either outcome of the comparison.
LongY(c)   == c.hy % Prime > c.hz % Prime
Longer(c)  == IF LongY(c) THEN "hy" ELSE "hz"
Shorter(c) == IF LongY(c) THEN "hz" ELSE "hy"
Roundness  == 21 // 100
TorsionFactor(a, b) ==
  Reciprocal(3) -- Roundness ** (b // a) ** (1 -- Fourth(b // a) ** Twelfth)
TorsionalConstant(c) ==
  LET a == c[Longer(c)]  b == c[Shorter(c)]
  IN a ** Cube(b) ** TorsionFactor(a, b)
\* Slip: the ratio b/a is differentiated as if a were constant.
FlatDTorsionalConstant(c, d) ==
  LET a == c[Longer(c)]  b == c[Shorter(c)]  da == d[Longer(c)]  db == d[Shorter(c)]
      inner == 1 -- Fourth(b // a) ** Twelfth
      dratio4 == 4 ** Cube(b) ** db ** Twelfth ** Reciprocal(Fourth(a))
  IN (da ** Cube(b) ** TorsionFactor(a, b)) ++
     (3 ** a ** Square(b) ** db ** TorsionFactor(a, b)) ++
     (a ** Cube(b) ** (0 -- (Roundness ** (db // a) ** inner)
                         ++ (Roundness ** (b // a) ** dratio4)))
DTorsionalConstant(c, d) ==
  LET a == c[Longer(c)]  b == c[Shorter(c)]  da == d[Longer(c)]  db == d[Shorter(c)]
      inner == 1 -- Fourth(b // a) ** Twelfth
      dinner == ((4 ** Fourth(b) ** da) // (a ** Fourth(a))) ** Twelfth
                  -- ((4 ** Cube(b) ** db) // Fourth(a)) ** Twelfth
  IN (da ** Cube(b) ** TorsionFactor(a, b)) ++
     (3 ** a ** Square(b) ** db ** TorsionFactor(a, b)) ++
     (a ** Cube(b) ** ((((Roundness ** b ** da) // Square(a)) ** inner
                          -- Roundness ** (db // a) ** inner)
                         -- Roundness ** (b // a) ** dinner))

PolarInertia(c) ==
  c.hy ** c.hz ** (((Square(c.hy) ++ Square(c.hz)) ** Twelfth) ++
                   (Square(c.offy) ++ Square(c.offz)))
DPolarInertia(c, d) ==
  (DArea(c, d) ** (((Square(c.hy) ++ Square(c.hz)) ** Twelfth) ++
                   (Square(c.offy) ++ Square(c.offz)))) ++
  (2 ** c.hy ** c.hz ** ((((c.hy ** d.hy) ++ (c.hz ** d.hz)) ** Twelfth) ++
                         ((c.offy ** d.offy) ++ (c.offz ** d.offz))))

AreaYMoment(c)     == c.hy ** c.hz ** c.offz
DAreaYMoment(c, d) == (d.hy ** c.hz ** c.offz) ++ (c.hy ** d.hz ** c.offz) ++ (c.hy ** c.hz ** d.offz)
AreaZMoment(c)     == c.hy ** c.hz ** c.offy
DAreaZMoment(c, d) == (d.hy ** c.hz ** c.offy) ++ (c.hy ** d.hz ** c.offy) ++ (c.hy ** c.hz ** d.offy)

AreaInertiaMatrix(c) ==
  LET cross == c.hy ** c.hz ** c.offy ** c.offz
  IN Single(0, 0, (c.hz ** Cube(c.hy) ** Twelfth) ++ (c.hy ** c.hz ** Square(c.offy))) \uplus
     Single(0, 1, cross) \uplus Single(1, 0, cross) \uplus
     Single(1, 1, (c.hy ** Cube(c.hz) ** Twelfth) ++ (c.hy ** c.hz ** Square(c.offz)))
DAreaInertiaMatrix(c, d) ==
  LET Second(a, b, da, db, o, do) ==    \* of b a^3/12 + a b o^2
        (db ** Cube(a) ** Twelfth) ++ ((b ** Square(a) ** da) // 4) ++
        (DArea(c, d) ** Square(o)) ++ (2 ** a ** b ** o ** do)
      cross == (DArea(c, d) ** c.offy ** c.offz) ++ (Area(c) ** d.offy ** c.offz) ++
               (Area(c) ** c.offy ** d.offz)
  IN Single(0, 0, Second(c.hy, c.hz, d.hy, d.hz, c.offy, d.offy)) \uplus
     Single(0, 1, cross) \uplus Single(1, 0, cross) \uplus
     Single(1, 1, Second(c.hz, c.hy, d.hz, d.hy, c.offz, d.offz))

ExtensionStiffness1D(c) ==
  LET m == StiffnessMatrix1D(c)
  IN [m EXCEPT ![<<0, 0>>] = @ ** Area(c), ![<<1, 1>>] = @ ** TorsionalConstant(c)]
DExtensionStiffness1D(c, d) ==
  LET m == StiffnessMatrix1D(c)  dm == DStiffnessMatrix1D(c, d)
  IN Plus([m EXCEPT ![<<0, 0>>] = @ ** DArea(c, d), ![<<1, 1>>] = @ ** DTorsionalConstant(c, d)],
          [dm EXCEPT ![<<0, 0>>] = @ ** Area(c), ![<<1, 1>>] = @ ** TorsionalConstant(c)])

\* The coupling with bending: row 0 only, <<v, w>>.
Coupling(E, Ay, Az) == Single(0, 0, E ** Az) \uplus Single(0, 1, E ** Ay)
ExtensionBending1D(c) == Coupling(StiffnessMatrix1D(c)[<<0, 0>>], AreaYMoment(c), AreaZMoment(c))
DExtensionBending1D(c, d) ==
  Plus(Coupling(StiffnessMatrix1D(c)[<<0, 0>>], DAreaYMoment(c, d), DAreaZMoment(c, d)),
       Coupling(DStiffnessMatrix1D(c, d)[<<0, 0>>], AreaYMoment(c), AreaZMoment(c)))

Bending1D(c) == Scale(StiffnessMatrix1D(c)[<<0, 0>>], AreaInertiaMatrix(c))
DBending1D(c, d) ==
  Plus(Scale(DStiffnessMatrix1D(c, d)[<<0, 0>>], AreaInertiaMatrix(c)),
       Scale(StiffnessMatrix1D(c)[<<0, 0>>], DAreaInertiaMatrix(c, d)))

TransverseStiffness1D(c) == Scale(Area(c), TransverseShearStiffnessMatrix(c))
DTransverseStiffness1D(c, d) ==
  Plus(Scale(DArea(c, d), TransverseShearStiffnessMatrix(c)),
       Scale(Area(c), DTransverseShearStiffnessMatrix(c, d)))

BeamInertia(A, Ip, Ay, Az, I) ==
  Diagonal(3, A) \uplus Single(3, 3, Ip) \uplus Single(0, 4, Ay) \uplus Single(4, 0, Ay) \uplus
  Single(0, 5, 0 -- Az) \uplus Single(5, 0, 0 -- Az) \uplus Shifted(Scale(Tiny, I), 4)
Inertia1D(c) ==
  Scale(c.rho, BeamInertia(Area(c), PolarInertia(c), AreaYMoment(c), AreaZMoment(c),
                           AreaInertiaMatrix(c)))
\* dm(5,0) is never assigned: m(5,0) is assigned a second time in its place.
DInertia1D(c, d) ==
  LET moved == 0 -- DAreaZMoment(c, d)
  IN Plus(Scale(d.rho, [BeamInertia(Area(c), PolarInertia(c), AreaYMoment(c), AreaZMoment(c),
                                    AreaInertiaMatrix(c))
                        EXCEPT ![<<5, 0>>] = moved]),
          Scale(c.rho, [BeamInertia(DArea(c, d), DPolarInertia(c, d), DAreaYMoment(c, d),
                                    DAreaZMoment(c, d), DAreaInertiaMatrix(c, d))
                        EXCEPT ![<<5, 0>>] = 0]))

Expansion1D(c) == Times(StiffnessMatrix1D(c), ThermalExpansionMatrix(1, c))
DExpansion1D(c, d) ==
  Plus(Times(StiffnessMatrix1D(c), DThermalExpansionMatrix(1, c, d)),
       Times(DStiffnessMatrix1D(c, d), ThermalExpansionMatrix(1, c)))
ThermalExpansionA1D(c) == Scale(Area(c), Expansion1D(c))
DThermalExpansionA1D(c, d) ==
  Plus(Scale(DArea(c, d), Expansion1D(c)), Scale(Area(c), DExpansion1D(c, d)))
Moments(e, Ay, Az) == Single(0, 0, Az ** e) \uplus Single(1, 0, Ay ** e)
ThermalExpansionB1D(c) == Moments(At(Expansion1D(c), <<0, 0>>), AreaYMoment(c), AreaZMoment(c))
DThermalExpansionB1D(c, d) ==
  Plus(Moments(At(Expansion1D(c), <<0, 0>>), DAreaYMoment(c, d), DAreaZMoment(c, d)),
       Moments(At(DExpansion1D(c, d), <<0, 0>>), AreaYMoment(c), AreaZMoment(c)))

Thermal1D(m, c) == Scale(Area(c), m)
DThermal1D(m, dm, c, d) == Plus(Scale(DArea(c, d), m), Scale(Area(c), dm))

------------------------------------------------------------------------------
(* Plate section *)

ExtensionStiffness2D(c)     == Scale(c.h, StiffnessMatrix2D(c))
DExtensionStiffness2D(c, d) ==
  Plus(Scale(d.h, StiffnessMatrix2D(c)), Scale(c.h, DStiffnessMatrix2D(c, d)))

ExtensionBending2D(c)     == Scale(c.h ** c.off, StiffnessMatrix2D(c))
DExtensionBending2D(c, d) ==
  Plus(Scale((d.h ** c.off) ++ (c.h ** d.off), StiffnessMatrix2D(c)),
       Scale(c.h ** c.off, DStiffnessMatrix2D(c, d)))

SecondMoment(c) == (Cube(c.h) ** Twelfth) ++ (c.h ** Square(c.off))
Bending2D(c)    == Scale(SecondMoment(c), StiffnessMatrix2D(c))
DBending2D(c, d) ==
  Plus(Scale(((Square(c.h) ** d.h) // 4) ++ (d.h ** Square(c.off)) ++ (2 ** c.h ** c.off ** d.off),
             StiffnessMatrix2D(c)),
       Scale(SecondMoment(c), DStiffnessMatrix2D(c, d)))

TransverseStiffness2D(c)     == Scale(c.h, TransverseShearStiffnessMatrix(c))
DTransverseStiffness2D(c, d) ==
  Plus(Scale(d.h, TransverseShearStiffnessMatrix(c)),
       Scale(c.h, DTransverseShearStiffnessMatrix(c, d)))

Inertia2D(c) ==
  Scale(c.rho,
        Diagonal(3, c.h) \uplus
        Single(0, 4, c.off ** c.h) \uplus Single(4, 0, c.off ** c.h) \uplus
        Single(1, 3, 0 -- (c.off ** c.h)) \uplus Single(3, 1, 0 -- (c.off ** c.h)) \uplus
        Single(3, 3, SecondMoment(c)) \uplus Single(4, 4, SecondMoment(c)) \uplus
        Single(5, 5, Cube(c.h) ** Twelfth ** Tiny))
\* The coupling entries are not multiplied by rho, and the rotary inertia is
\* differentiated without the offset.
DInertia2D(c, d) ==
  LET coupling == (d.off ** c.h) ++ (c.off ** d.h)
      rotary == (d.rho ** Cube(c.h) ** Twelfth) ++ ((c.rho ** Square(c.h) ** d.h) // 4)
  IN Diagonal(3, (d.rho ** c.h) ++ (c.rho ** d.h)) \uplus
     Single(0, 4, coupling) \uplus Single(4, 0, coupling) \uplus
     Single(1, 3, 0 -- coupling) \uplus Single(3, 1, 0 -- coupling) \uplus
     Single(3, 3, rotary) \uplus Single(4, 4, rotary) \uplus Single(5, 5, rotary ** Tiny)

Expansion2D(c) == Times(StiffnessMatrix2D(c), ThermalExpansionMatrix(2, c))
DExpansion2D(c, d) ==
  Plus(Times(StiffnessMatrix2D(c), DThermalExpansionMatrix(2, c, d)),
       Times(DStiffnessMatrix2D(c, d), ThermalExpansionMatrix(2, c)))
ThermalExpansionA2D(c) == Scale(c.h, Expansion2D(c))
DThermalExpansionA2D(c, d) ==
  Plus(Scale(d.h, Expansion2D(c)), Scale(c.h, DExpansion2D(c, d)))
ThermalExpansionB2D(c) == Scale(c.h ** c.off, Expansion2D(c))
DThermalExpansionB2D(c, d) ==
  Plus(Scale((d.h ** c.off) ++ (c.h ** d.off), Expansion2D(c)),
       Scale(c.h ** c.off, DExpansion2D(c, d)))

Thermal2D(m, c) == Scale(c.h, m)
DThermal2D(m, dm, c, d) == Plus(Scale(d.h, m), Scale(c.h, dm))

------------------------------------------------------------------------------
(* Laminate *)

Layers               == 0 .. (NLayers - 1)
Thickness(c, i)      == c[LayerThickness[i + 1]]
ThicknessBelow(c, n) == SumFunctionOnSet([i \in Layers |-> Thickness(c, i)], 0 .. (n - 1))
\* Slip: the base offset counts the layers below only.
ShortLayerOffset(c, n) ==
  ((ThicknessBelow(c, n) ++ (Thickness(c, n) // 2))
     -- ((1 ++ Base) ** ThicknessBelow(c, n + 1)) // 2)
LayerOffset(c, n) ==
  ((ThicknessBelow(c, n) ++ (Thickness(c, n) // 2))
     -- ((1 ++ Base) ** ThicknessBelow(c, NLayers)) // 2)
\* The card of layer n: its thickness, and the offset the laminate adds to it.
Layer(c, n) == [c EXCEPT !.h = Thickness(c, n), !.off = LayerOffset(c, n)]
\* What every layer contributes: a matrix of its own, and the sum of them.
SumOfLayers(part) ==
  [p \in DOMAIN part[0] |-> SumFunctionOnSet([n \in Layers |-> part[n][p]], Layers) % Modulus]
LaminateA(c) == SumOfLayers([n \in Layers |-> ExtensionStiffness2D(Layer(c, n))])
LaminateB(c) == SumOfLayers([n \in Layers |-> ExtensionBending2D(Layer(c, n))])
LaminateD(c) == SumOfLayers([n \in Layers |-> Bending2D(Layer(c, n))])
\* LayerOffset is linear in the thicknesses: the code repeats its sum with
\* their derivatives.
DLaminateA(c, d) ==
  SumOfLayers([n \in Layers |-> DExtensionStiffness2D(Layer(c, n), Layer(d, n))])
DLaminateB(c, d) ==
  SumOfLayers([n \in Layers |-> DExtensionBending2D(Layer(c, n), Layer(d, n))])
DLaminateD(c, d) == SumOfLayers([n \in Layers |-> DBending2D(Layer(c, n), Layer(d, n))])

------------------------------------------------------------------------------
(* The function objects a client can ask for *)

\* What the formulas of the cards divide by is not zero.
Regular(c) ==
  /\ (1 ++ c.nu) % Prime # 0 /\ (1 -- (c.nu ** c.nu)) % Prime # 0 /\ Compressibility(c) % Prime # 0
  /\ c.E11 % Prime # 0 /\ c.E22 % Prime # 0 /\ (1 -- (c.nu12 ** Nu21(c))) % Prime # 0
  /\ OrthotropicDet(c) % Prime # 0
  /\ (1 ++ (c.tilt ** c.tilt)) % Prime # 0 /\ c.hy % Prime # 0 /\ c.hz % Prime # 0

MaterialObjects ==
  {"stiffness 1d", "transverse shear", "stiffness 2d", "stiffness 3d", "inertia 3d",
   "expansion", "capacitance", "conductance", "orthotropic 2d", "orthotropic 3d",
   "oriented stiffness", "oriented expansion", "oriented conductance"}
BeamObjects ==
  {"beam A", "beam B", "beam D", "beam shear", "beam thermal A", "beam thermal B",
   "beam capacitance", "beam conductance"}
PlateObjects ==
  {"plate A", "plate B", "plate D", "plate shear", "plate thermal A", "plate thermal B",
   "plate capacitance", "plate conductance", "laminate A", "laminate B", "laminate D"}
InertiaObjects == {"beam inertia", "plate inertia", "orthotropic shear"}
CardObjects == MaterialObjects \cup BeamObjects \cup PlateObjects \cup InertiaObjects

CardValue(o, c) ==
  CASE o = "stiffness 1d"       -> StiffnessMatrix1D(c)
    [] o = "transverse shear"   -> TransverseShearStiffnessMatrix(c)
    [] o = "orthotropic shear"  -> TransverseShearStiffnessMatrix(c)
    [] o = "stiffness 2d"       -> StiffnessMatrix2D(c)
    [] o = "stiffness 3d"       -> StiffnessMatrix3D(c)
    [] o = "inertia 3d"         -> InertiaMatrix3D(c)
    [] o = "expansion"          -> ThermalExpansionMatrix(3, c)
    [] o = "capacitance"        -> ThermalCapacitanceMatrix(c)
    [] o = "conductance"        -> ThermalConductanceMatrix(3, c)
    [] o = "orthotropic 2d"     -> OrthotropicStiffness2D(c)
    [] o = "orthotropic 3d"     -> OrthotropicStiffness3D(c)
    [] o = "oriented stiffness" -> OrientedStiffness(c)
    [] o = "oriented expansion" -> OrientedExpansion(c)
    [] o = "oriented conductance" -> OrientedConductance(c)
    [] o = "beam A"             -> ExtensionStiffness1D(c)
    [] o = "beam B"             -> ExtensionBending1D(c)
    [] o = "beam D"             -> Bending1D(c)
    [] o = "beam shear"         -> TransverseStiffness1D(c)
    [] o = "beam inertia"       -> Inertia1D(c)
    [] o = "beam thermal A"     -> ThermalExpansionA1D(c)
    [] o = "beam thermal B"     -> ThermalExpansionB1D(c)
    [] o = "beam capacitance"   -> Thermal1D(ThermalCapacitanceMatrix(c), c)
    [] o = "beam conductance"   -> Thermal1D(ThermalConductanceMatrix(1, c), c)
    [] o = "plate A"            -> ExtensionStiffness2D(c)
    [] o = "plate B"            -> ExtensionBending2D(c)
    [] o = "plate D"            -> Bending2D(c)
    [] o = "plate shear"        -> TransverseStiffness2D(c)
    [] o = "plate inertia"      -> Inertia2D(c)
    [] o = "plate thermal A"    -> ThermalExpansionA2D(c)
    [] o = "plate thermal B"    -> ThermalExpansionB2D(c)
    [] o = "plate capacitance"  -> Thermal2D(ThermalCapacitanceMatrix(c), c)
    [] o = "plate conductance"  -> Thermal2D(ThermalConductanceMatrix(2, c), c)
    [] o = "laminate A"         -> LaminateA(c)
    [] o = "laminate B"         -> LaminateB(c)
    [] o = "laminate D"         -> LaminateD(c)

CardDerivative(o, c, d) ==
  CASE o = "stiffness 1d"       -> DStiffnessMatrix1D(c, d)
    [] o = "transverse shear"   -> DTransverseShearStiffnessMatrix(c, d)
    [] o = "orthotropic shear"  -> OrthotropicDTransverseShear(c, d)
    [] o = "stiffness 2d"       -> DStiffnessMatrix2D(c, d)
    [] o = "stiffness 3d"       -> DStiffnessMatrix3D(c, d)
    [] o = "inertia 3d"         -> DInertiaMatrix3D(c, d)
    [] o = "expansion"          -> DThermalExpansionMatrix(3, c, d)
    [] o = "capacitance"        -> DThermalCapacitanceMatrix(c, d)
    [] o = "conductance"        -> DThermalConductanceMatrix(3, c, d)
    [] o = "orthotropic 2d"     -> DOrthotropicStiffness2D(c, d)
    [] o = "orthotropic 3d"     -> DOrthotropicStiffness3D(c, d)
    [] o = "oriented stiffness" -> DOrientedStiffness(c, d)
    [] o = "oriented expansion" -> DOrientedExpansion(c, d)
    [] o = "oriented conductance" -> DOrientedConductance(c, d)
    [] o = "beam A"             -> DExtensionStiffness1D(c, d)
    [] o = "beam B"             -> DExtensionBending1D(c, d)
    [] o = "beam D"             -> DBending1D(c, d)
    [] o = "beam shear"         -> DTransverseStiffness1D(c, d)
    [] o = "beam inertia"       -> DInertia1D(c, d)
    [] o = "beam thermal A"     -> DThermalExpansionA1D(c, d)
    [] o = "beam thermal B"     -> DThermalExpansionB1D(c, d)
    [] o = "beam capacitance"   -> DThermal1D(ThermalCapacitanceMatrix(c), DThermalCapacitanceMatrix(c, d), c, d)
    [] o = "beam conductance"   -> DThermal1D(ThermalConductanceMatrix(1, c), DThermalConductanceMatrix(1, c, d), c, d)
    [] o = "plate A"            -> DExtensionStiffness2D(c, d)
    [] o = "plate B"            -> DExtensionBending2D(c, d)
    [] o = "plate D"            -> DBending2D(c, d)
    [] o = "plate shear"        -> DTransverseStiffness2D(c, d)
    [] o = "plate inertia"      -> DInertia2D(c, d)
    [] o = "plate thermal A"    -> DThermalExpansionA2D(c, d)
    [] o = "plate thermal B"    -> DThermalExpansionB2D(c, d)
    [] o = "plate capacitance"  -> DThermal2D(ThermalCapacitanceMatrix(c), DThermalCapacitanceMatrix(c, d), c, d)
    [] o = "plate conductance"  -> DThermal2D(ThermalConductanceMatrix(2, c), DThermalConductanceMatrix(2, c, d), c, d)
    [] o = "laminate A"         -> DLaminateA(c, d)
    [] o = "laminate B"         -> DLaminateB(c, d)
    [] o = "laminate D"         -> DLaminateD(c, d)
===============================================================================
