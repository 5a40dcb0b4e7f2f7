------------------------------ MODULE HeatElement ------------------------------
(***************************************************************************)
(* HeatConductionElementBase on a plate: conduction and storage with       *)
(* temperature-dependent cards, the loads on a side and over the domain,   *)
(* their Jacobians and sensitivities.                                      *)
(***************************************************************************)
EXTENDS SectionCards, StrainOperators

Shape    == <<0, "temp">> :> 1
Gradient == (<<0, "tempx">> :> 1) @@ (<<1, "tempy">> :> 1)
One(v)   == <<0, 0>> :> v
\* A load's terms are collected at the temperature.
AtShape(v) == Pull(Shape, One(v))

\* The user's conductivity and heat capacity depend on the temperature; the
\* element hands it to them (set_element_quadrature_point_solution).  Warm and
\* DWarm are the cards' parameters and their derivatives at that temperature.
Warm(c)     == [c EXCEPT !.k = @ ++ (c.kt ** c.temp), !.cp = @ ++ (c.cpt ** c.temp)]
DWarm(c, d) == [d EXCEPT !.k = @ ++ (d.kt ** c.temp), !.cp = @ ++ (d.cpt ** c.temp)]
ByTemperature(c) == [p \in DOMAIN c |-> IF p = "k" THEN c.kt ELSE IF p = "cp" THEN c.cpt ELSE 0]

Conductance(c) == Thermal2D(ThermalConductanceMatrix(2, Warm(c)), c)
DConductance(c, d) ==
  DThermal2D(ThermalConductanceMatrix(2, Warm(c)),
             DThermalConductanceMatrix(2, Warm(c), DWarm(c, d)), c, d)
Capacitance(c) == Thermal2D(ThermalCapacitanceMatrix(Warm(c)), c)[<<0, 0>>]
DCapacitance(c, d) ==
  DThermal2D(ThermalCapacitanceMatrix(Warm(c)),
             DThermalCapacitanceMatrix(Warm(c), DWarm(c, d)), c, d)[<<0, 0>>]

------------------------------------------------------------------------------
(* Conduction and storage *)

Conduction(c) == Scale(c.JxW, Pull(Gradient, Times(Conductance(c), Field(Gradient, c))))
ConductionJacobian(c, r) ==
  LET warmer == DConductance(c, ByTemperature(c))
  IN Scale(c.JxW, Plus(Pull(Gradient, Times(Conductance(c), Field(Gradient, r))),
                       Scale(r.temp, Pull(Gradient, Times(warmer, Field(Gradient, c))))))
DConduction(c, d) ==
  Plus(Scale(c.JxW, Pull(Gradient, Times(DConductance(c, d), Field(Gradient, c)))),
       Scale(d.JxW, Pull(Gradient, Times(Conductance(c), Field(Gradient, c)))))

Storage(c) == AtShape(c.JxW ** Capacitance(c) ** c.rate)
StorageJacobian(c, r) ==
  AtShape(c.JxW ** ((Capacitance(c) ** r.rate) ++
                    (c.rate ** DCapacitance(c, ByTemperature(c)) ** r.temp)))
DStorage(c, d) ==
  AtShape((c.JxW ** DCapacitance(c, d) ** c.rate) ++ (d.JxW ** Capacitance(c) ** c.rate))

------------------------------------------------------------------------------
(* Loads: on a side they act over the section, on the domain per unit area *)

Section(side, c)  == IF side THEN c.h ELSE 1
DSection(side, d) == IF side THEN d.h ELSE 0

SurfaceFlux(c, side) == AtShape(c.JxW ** c.flux ** Section(side, c))
DSurfaceFlux(c, d, side) ==
  AtShape((c.JxW ** ((c.flux ** DSection(side, d)) ++ (d.flux ** Section(side, c)))) ++
          (d.JxW ** c.flux ** Section(side, c)))

Convection(c, side) == AtShape(c.JxW ** Section(side, c) ** c.hconv ** (c.temp -- c.tamb))
ConvectionJacobian(c, side, r) == AtShape(c.JxW ** Section(side, c) ** c.hconv ** r.temp)
\* Slip: the section's own derivative is left out.
FlatDConvection(c, d, side) ==
  LET th == Section(side, c)  excess == c.temp -- c.tamb
  IN AtShape((c.JxW ** ((th ** d.hconv ** excess) ++ (th ** c.hconv ** (0 -- d.tamb)))) ++
             (d.JxW ** th ** c.hconv ** excess))
DConvection(c, d, side) ==
  LET th == Section(side, c)  excess == c.temp -- c.tamb
  IN AtShape((c.JxW ** ((th ** d.hconv ** excess) ++ (th ** c.hconv ** (0 -- d.tamb)) ++
                        (DSection(side, d) ** c.hconv ** excess))) ++
             (d.JxW ** th ** c.hconv ** excess))

Excess4(c) == Fourth(c.temp ++ c.zero) -- Fourth(c.tamb ++ c.zero)
Radiation(c, side) == AtShape(c.JxW ** c.sb ** c.emis ** Section(side, c) ** Excess4(c))
RadiationJacobian(c, side, r) ==
  AtShape(c.JxW ** c.sb ** c.emis ** Section(side, c) ** 4 ** Cube(c.temp ++ c.zero) ** r.temp)
\* The ambient and the zero temperature and the constant are Parameters of the
\* load, and are not differentiated.
DRadiation(c, d, side) ==
  AtShape((c.JxW ** c.sb ** ((d.emis ** Section(side, c)) ++ (c.emis ** DSection(side, d)))
             ** Excess4(c)) ++
          (d.JxW ** c.sb ** c.emis ** Section(side, c) ** Excess4(c)))

HeatSource(c) == AtShape(0 -- (c.JxW ** c.source ** c.h))
DHeatSource(c, d) ==
  AtShape(0 -- ((c.JxW ** ((d.source ** c.h) ++ (c.source ** d.h))) ++
                (d.JxW ** c.source ** c.h)))

------------------------------------------------------------------------------
(* side_external_residual and volume_external_residual choose by the load's type *)

SideLoads   == {"side flux", "side convection", "side radiation"}
VolumeLoads == {"flux", "convection", "radiation", "source"}
HeatTerms   == {"conduction", "storage"} \cup SideLoads \cup VolumeLoads

HeatResidual(t, c) ==
  LET side == t \in SideLoads
  IN CASE t = "conduction" -> Conduction(c)
       [] t = "storage"    -> Storage(c)
       [] t \in {"side flux", "flux"}             -> SurfaceFlux(c, side)
       [] t \in {"side convection", "convection"} -> Convection(c, side)
       [] t \in {"side radiation", "radiation"}   -> Radiation(c, side)
       [] t = "source"     -> HeatSource(c)
HeatJacobian(t, c, r) ==
  LET side == t \in SideLoads
  IN CASE t = "conduction" -> ConductionJacobian(c, r)
       [] t = "storage"    -> StorageJacobian(c, r)
       [] t \in {"side convection", "convection"} -> ConvectionJacobian(c, side, r)
       [] t \in {"side radiation", "radiation"}   -> RadiationJacobian(c, side, r)
       [] t \in {"side flux", "flux", "source"}   -> Nothing
HeatSensitivity(t, c, d) ==
  LET side == t \in SideLoads
  IN CASE t = "conduction" -> DConduction(c, d)
       [] t = "storage"    -> DStorage(c, d)
       [] t \in {"side flux", "flux"}             -> DSurfaceFlux(c, d, side)
       [] t \in {"side convection", "convection"} -> DConvection(c, d, side)
       [] t \in {"side radiation", "radiation"}   -> DRadiation(c, d, side)
       [] t = "source"     -> DHeatSource(c, d)
===============================================================================
