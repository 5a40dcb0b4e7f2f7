----------------------------- MODULE PlateElement -----------------------------
(***************************************************************************)
(* StructuralElement2D: internal and thermal residual of membranes and     *)
(* plates with linear or nonlinear strain, their tangents and              *)
(* sensitivities, and the stress at the skins.                             *)
(***************************************************************************)
EXTENDS SectionCards, StrainOperators

\* What the property card chooses: a bending model and the strain type.
LinearPlate    == [bend |-> TRUE,  nonlinear |-> FALSE]
Membrane       == [bend |-> FALSE, nonlinear |-> TRUE]
NonlinearPlate == [bend |-> TRUE,  nonlinear |-> TRUE]

Lin == (<<0, "ux">> :> 1) @@ (<<1, "vy">> :> 1) @@ (<<2, "uy">> :> 1) @@ (<<2, "vx">> :> 1)
NlX == (<<0, "ux">> :> 1) @@ (<<1, "vx">> :> 1)
NlY == (<<0, "uy">> :> 1) @@ (<<1, "vy">> :> 1)
NlU == (<<0, "ux">> :> 1) @@ (<<1, "uy">> :> 1)
NlV == (<<0, "vx">> :> 1) @@ (<<1, "vy">> :> 1)
Vk  == (<<0, "wx">> :> 1) @@ (<<1, "wy">> :> 1)
\* Mindlin's operators: bending strain at height z, and transverse shear.
BendAt(z) ==
  (<<0, "tyx">> :> z) @@ (<<1, "txy">> :> 0 -- z) @@
  (<<2, "tyy">> :> z) @@ (<<2, "txx">> :> 0 -- z)
Bend  == BendAt(1)
Shear == (<<0, "wx">> :> 1) @@ (<<0, "ty">> :> 1) @@ (<<1, "wy">> :> 1) @@ (<<1, "tx">> :> 0 -- 1)

------------------------------------------------------------------------------
(* Strain *)

Three(xx, yy, xy) == (<<0, 0>> :> xx) @@ (<<1, 0>> :> yy) @@ (<<2, 0>> :> xy)

GreenLagrange(c) ==
  LET F == (<<0, 0>> :> c.ux) @@ (<<0, 1>> :> c.uy) @@ (<<1, 0>> :> c.vx) @@ (<<1, 1>> :> c.vy)
      E == Scale(Reciprocal(2), SumAll(<<F, Transpose(F), Times(Transpose(F), F)>>))
  IN Three(E[<<0, 0>>], E[<<1, 1>>], E[<<0, 1>>] ++ E[<<1, 0>>])
MatX(c) == (<<0, 0>> :> c.ux) @@ (<<0, 1>> :> c.vx) @@ (<<2, 0>> :> c.uy) @@ (<<2, 1>> :> c.vy)
MatY(c) == (<<1, 0>> :> c.uy) @@ (<<1, 1>> :> c.vy) @@ (<<2, 0>> :> c.ux) @@ (<<2, 1>> :> c.vx)

VkStrain(c) == Three(Square(c.wx) // 2, Square(c.wy) // 2, c.wx ** c.wy)
VkMat(c) == (<<0, 0>> :> c.wx) @@ (<<1, 1>> :> c.wy) @@ (<<2, 0>> :> c.wy) @@ (<<2, 1>> :> c.wx)

Strain(c, mode) ==
  Plus(IF mode.nonlinear THEN GreenLagrange(c) ELSE Field(Lin, c),
       When(mode.bend /\ mode.nonlinear, VkStrain(c)))

------------------------------------------------------------------------------
(* Internal residual *)

MembraneForce(c, A, B, mode) ==
  Plus(Times(A, Strain(c, mode)), When(mode.bend, Times(B, Field(Bend, c))))

\* The nonlinear parts of the strain's variation, transposed, on the stress s.
NonlinearPull(c, s, mode) ==
  When(mode.nonlinear,
       SumAll(<<Pull(NlX, Times(Transpose(MatX(c)), s)),
                Pull(NlY, Times(Transpose(MatY(c)), s)),
                When(mode.bend, Pull(Vk, Times(Transpose(VkMat(c)), s)))>>))

PlateForce(c, A, B, D, mode) ==
  LET s == MembraneForce(c, A, B, mode)
  IN SumAll(<<Pull(Lin, s), NonlinearPull(c, s, mode),
              When(mode.bend, SumAll(<<Pull(Bend, Times(Transpose(B), Strain(c, mode))),
                                       Pull(Bend, Times(D, Field(Bend, c)))>>))>>)

\* Slip: the product of the von Karman and the bending rows is left out.
UnbentVkBending(c, B, r) == Nothing
\* vk - bending: the von Karman rows of a variation r in the bending columns.
VkBending(c, B, r) == Pull(Vk, Times(Transpose(VkMat(c)), Times(B, Field(Bend, r))))

\* The tangent, on a variation r of the unknowns.  The membrane and bending
\* blocks couple with the von Karman terms through the linear operator only.
PlateTangent(c, A, B, D, mode, r) ==
  LET lin    == Field(Lin, r)
      green  == Plus(Times(MatX(c), Field(NlX, r)), Times(MatY(c), Field(NlY, r)))
      karman == Times(VkMat(c), Field(Vk, r))
      curved == Field(Bend, r)
      stress == Tensor(MembraneForce(c, A, B, mode))
      Membranes ==
        SumAll(<<Pull(Lin, Times(A, green)),
                 Pull(NlX, Times(Transpose(MatX(c)), Times(A, Plus(lin, green)))),
                 Pull(NlY, Times(Transpose(MatY(c)), Times(A, Plus(lin, green)))),
                 Pull(NlU, Times(stress, Field(NlU, r))),
                 Pull(NlV, Times(stress, Field(NlV, r)))>>)
      Karman ==
        SumAll(<<Pull(Lin, Times(A, karman)),
                 Pull(Vk, Times(Transpose(VkMat(c)), Times(A, Plus(lin, karman)))),
                 Pull(Vk, Times(stress, Field(Vk, r))),
                 Pull(Bend, Times(Transpose(B), karman)),
                 VkBending(c, B, r)>>)
      Bending ==
        SumAll(<<Pull(Bend, Times(Transpose(B), lin)), Pull(Lin, Times(B, curved)),
                 Pull(Bend, Times(D, curved))>>)
  IN SumAll(<<Pull(Lin, Times(A, lin)), When(mode.nonlinear, Membranes),
              When(mode.bend /\ mode.nonlinear, Karman), When(mode.bend, Bending)>>)

\* The transverse shear is linear in the unknowns: at the solution r it is the
\* residual, on a variation r the tangent.
ShearForce(S, r) == Pull(Shear, Times(S, Field(Shear, r)))
PlateShear(c, r) == Scale(c.JxW, ShearForce(TransverseStiffness2D(c), r))
DPlateShear(c, d, r) ==
  Plus(Scale(c.JxW, ShearForce(DTransverseStiffness2D(c, d), r)),
       Scale(d.JxW, ShearForce(TransverseStiffness2D(c), r)))

PlateResidual(c, mode) ==
  Plus(Scale(c.JxW, PlateForce(c, ExtensionStiffness2D(c), ExtensionBending2D(c), Bending2D(c),
                               mode)),
       When(mode.bend, PlateShear(c, c)))
PlateJacobian(c, mode, r) ==
  Plus(Scale(c.JxW, PlateTangent(c, ExtensionStiffness2D(c), ExtensionBending2D(c), Bending2D(c),
                                 mode, r)),
       When(mode.bend, PlateShear(c, r)))
\* The same operations with the derivatives of the stiffness; a moving
\* boundary changes the measure JxW.
DPlateResidual(c, d, mode) ==
  SumAll(<<Scale(c.JxW, PlateForce(c, DExtensionStiffness2D(c, d), DExtensionBending2D(c, d),
                                   DBending2D(c, d), mode)),
           Scale(d.JxW, PlateForce(c, ExtensionStiffness2D(c), ExtensionBending2D(c),
                                   Bending2D(c), mode)),
           When(mode.bend, DPlateShear(c, d, c))>>)
DPlateJacobian(c, d, mode, r) ==
  SumAll(<<Scale(c.JxW, PlateTangent(c, DExtensionStiffness2D(c, d), DExtensionBending2D(c, d),
                                     DBending2D(c, d), mode, r)),
           Scale(d.JxW, PlateTangent(c, ExtensionStiffness2D(c), ExtensionBending2D(c),
                                     Bending2D(c), mode, r)),
           When(mode.bend, DPlateShear(c, d, r))>>)

------------------------------------------------------------------------------
(* Thermal residual; the temperature is the unknown of the heat conduction *)

\* Of the thermal force s and the thermal moment m.
ThermalPull(c, s, m, mode) ==
  Minus(SumAll(<<Pull(Lin, s), NonlinearPull(c, s, mode), When(mode.bend, Pull(Bend, m))>>))
PlateThermal(c, mode) ==
  LET dT == c.temp -- c.T0
  IN Scale(c.JxW, ThermalPull(c, Scale(dT, ThermalExpansionA2D(c)),
                              Scale(dT, ThermalExpansionB2D(c)), mode))
PlateThermalJacobian(c, mode, r) ==
  LET stress == Tensor(Scale(c.temp -- c.T0, ThermalExpansionA2D(c)))
  IN Scale(c.JxW,
           Minus(When(mode.nonlinear,
                      SumAll(<<Pull(NlU, Times(stress, Field(NlU, r))),
                               Pull(NlV, Times(stress, Field(NlV, r))),
                               When(mode.bend, Pull(Vk, Times(stress, Field(Vk, r))))>>))))
\* The reference temperature's derivative is left out.
DPlateThermal(c, d, mode) ==
  LET dT == c.temp -- c.T0
  IN Plus(Scale(c.JxW,
                ThermalPull(c, Plus(Scale(d.temp, ThermalExpansionA2D(c)),
                                    Scale(dT, DThermalExpansionA2D(c, d))),
                               Plus(Scale(d.temp, ThermalExpansionB2D(c)),
                                    Scale(dT, DThermalExpansionB2D(c, d))), mode)),
          Scale(d.JxW, ThermalPull(c, Scale(dT, ThermalExpansionA2D(c)),
                                   Scale(dT, ThermalExpansionB2D(c)), mode)))
\* The block that couples the structure with the heat conduction.
ThermalTemperatureDerivative(c, mode) ==
  Scale(c.JxW, ThermalPull(c, ThermalExpansionA2D(c), ThermalExpansionB2D(c), mode))

------------------------------------------------------------------------------
(* Stress at the skins: side is 1 for the upper, -1 for the lower *)

Expanded(e) == Three(e, e, 0)
SkinHeight(h, off, side) == (side ** (h // 2)) ++ off
SkinStrain(c, side, mode) ==
  SumAll(<<Strain(c, mode), Minus(Expanded(c.alpha ** (c.temp -- c.T0))),
           When(mode.bend, Field(BendAt(SkinHeight(c.h, c.off, side)), c))>>)
SkinStress(c, side, mode) == Times(StiffnessMatrix2D(c), SkinStrain(c, side, mode))
\* Slip: the von Karman term is left out of the strain's derivative.
FlatDSkinStrainDX(c, side, mode, r) ==
  SumAll(<<Field(Lin, r),
           When(mode.nonlinear, Plus(Times(MatX(c), Field(NlX, r)), Times(MatY(c), Field(NlY, r)))),
           When(mode.bend, Field(BendAt(SkinHeight(c.h, c.off, side)), r))>>)
DSkinStrainDX(c, side, mode, r) ==
  SumAll(<<Field(Lin, r),
           When(mode.nonlinear, Plus(Times(MatX(c), Field(NlX, r)), Times(MatY(c), Field(NlY, r)))),
           When(mode.bend /\ mode.nonlinear, Times(VkMat(c), Field(Vk, r))),
           When(mode.bend, Field(BendAt(SkinHeight(c.h, c.off, side)), r))>>)
DSkinStressDX(c, side, mode, r) == Times(StiffnessMatrix2D(c), DSkinStrainDX(c, side, mode, r))
\* dalpha enters with the wrong sign.
DSkinStrain(c, d, side, mode) ==
  Plus(Minus(Expanded((c.alpha ** (d.temp -- d.T0)) -- (d.alpha ** (c.temp -- c.T0)))),
       When(mode.bend, Field(BendAt(SkinHeight(d.h, d.off, side)), c)))
DSkinStress(c, d, side, mode) ==
  Plus(Times(StiffnessMatrix2D(c), DSkinStrain(c, d, side, mode)),
       Times(DStiffnessMatrix2D(c, d), SkinStrain(c, side, mode)))
StressTemperatureDerivative(c) == Minus(Times(StiffnessMatrix2D(c), Expanded(c.alpha)))
===============================================================================
