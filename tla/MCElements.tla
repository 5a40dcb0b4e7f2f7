------------------------------ MODULE MCElements ------------------------------
(* Sample designs and solutions for the cards and the elements. *)
EXTENDS ElementSensitivity

StructureStart ==
  [E |-> 37, nu |-> 7, rho |-> 11, cp |-> 23, kappa |-> 5, alpha |-> 29, k |-> 31,
   E11 |-> 41, E22 |-> 17, E33 |-> 53, nu12 |-> 3, nu13 |-> 13, nu23 |-> 9,
   G12 |-> 19, G13 |-> 61, G23 |-> 67, tilt |-> 6, hy |-> 14, hz |-> 43, offy |-> 8,
   offz |-> 33, h |-> 71, off |-> 21, h0 |-> 18, h1 |-> 59, h2 |-> 27,
   kt |-> 47, cpt |-> 34, flux |-> 12, hconv |-> 39, tamb |-> 58, emis |-> 22, zero |-> 16,
   sb |-> 49, source |-> 24, T0 |-> 42, JxW |-> 36,
   press |-> 51, V |-> 55, mach |-> 24, rhoinf |-> 66, gamma |-> 74,
   uz |-> 10, vz |-> 72, wz |-> 30, vt |-> 77, wt |-> 20, au |-> 65, av |-> 50, aw |-> 60,
   atx |-> 70, aty |-> 25, atz |-> 40,
   ux |-> 5, uy |-> 64, vx |-> 73, vy |-> 38, wx |-> 52, wy |-> 28, tx |-> 44, ty |-> 62,
   tz |-> 32, txx |-> 54, txy |-> 46, tyx |-> 68, tyy |-> 38, tzx |-> 57,
   temp |-> 75, tempx |-> 48, tempy |-> 63, rate |-> 15]
\* hy is above hz here, the torsional constant's other case.  The von Mises
\* stresses of all mixtures of the two, and of the probe, have square roots.
StructureOther ==
  [p \in DOMAIN StructureStart |->
     CASE p = "hy" -> 69 [] p = "ux" -> 7 [] p = "vy" -> 43 [] OTHER -> StructureStart[p] + 15]
StructureProbe ==
  [ux |-> 7, uy |-> 4, vx |-> 17, vy |-> 60, wx |-> 23, wy |-> 66, tx |-> 31, ty |-> 8,
   uz |-> 41, vz |-> 33, wz |-> 27, vt |-> 14, wt |-> 39,
   au |-> 0, av |-> 0, aw |-> 0, atx |-> 0, aty |-> 0, atz |-> 0,
   tz |-> 13, txx |-> 0, txy |-> 29, tyx |-> 37, tyy |-> 45, tzx |-> 19,
   temp |-> 0, tempx |-> 0, tempy |-> 0, rate |-> 0]

\* The speed of sound, the Mach number and the far field's temperature have
\* square roots for every mixture of these.
FlowStart ==
  [cpg |-> 35, cvg |-> 59, Pr |-> 62, rhofar |-> 94, speed |-> 4, Tfar |-> 70,
   omega |-> 35, bV |-> 98, wallx |-> 53, wally |-> 62, wallz |-> 12, rotatex |-> 33,
   rotatey |-> 41, rotatez |-> 91, motionx |-> 76, motiony |-> 98, motionz |-> 6,
   swayx |-> 42, swayy |-> 4, swayz |-> 45, U0 |-> 96, U1 |-> 38, U2 |-> 44, U3 |-> 56,
   U4 |-> 88]
FlowOther ==
  [cpg |-> 40, cvg |-> 46, Pr |-> 93, rhofar |-> 34, speed |-> 47, Tfar |-> 30,
   omega |-> 78, bV |-> 34, wallx |-> 79, wally |-> 24, wallz |-> 41, rotatex |-> 98,
   rotatey |-> 98, rotatez |-> 80, motionx |-> 18, motiony |-> 50, motionz |-> 52,
   swayx |-> 72, swayy |-> 76, swayz |-> 65, U0 |-> 37, U1 |-> 87, U2 |-> 48, U3 |-> 3,
   U4 |-> 99]

\* The gradients, second derivatives and rates are any numbers.
ByIndex(table, number(_)) ==
  [n \in {table[q] : q \in DOMAIN table} |->
     2 + (number(CHOOSE q \in DOMAIN table : table[q] = n) % 97)]
FlowChange(k) ==
  ByIndex(FlowG, LAMBDA q : k * (7 + 17 * q[1] + 31 * q[2])) @@
  ByIndex(FlowH, LAMBDA q : k * (11 + 19 * q[1] + 5 * q[2] * q[3] + 37 * (q[2] + q[3]))) @@
  ByIndex(FlowV, LAMBDA q : k * (3 + 23 * q))

\* The positions of a structure, and the previous step of heat and flow.
StepChange(k) ==
  ("u" :> 3 * k) @@ ("v" :> 29 + k) @@ ("w" :> 57 + k) @@ ("temp0" :> 61 - k) @@ ("rate0" :> 83 + k) @@
  ByIndex([q \in Equations(2) |-> Was(FlowU[q])], LAMBDA q : k * (5 + 13 * q)) @@
  ByIndex([q \in Equations(2) |-> Was(FlowV[q])], LAMBDA q : k * (17 + 29 * q))
MCBefore ==
  [n \in Moved |-> LET i == IF n \in {"u", "v", "w"} THEN 17 ELSE StructureStart[n]
                   IN [x |-> i + 2, v |-> (3 * i) + 1, a |-> 2 + ((7 * i) % 90)]]

MCStart == StructureStart @@ FlowStart @@ FlowChange(1) @@ StepChange(7)
MCOther == StructureOther @@ FlowOther @@ FlowChange(2) @@ StepChange(13)
MCProbe ==
  StructureProbe @@ FlowChange(5) @@ StepChange(0) @@
  (FlowU[0] :> 56) @@ (FlowU[1] :> 95) @@ (FlowU[2] :> 64) @@ (FlowU[3] :> 38) @@ (FlowU[4] :> 22)

MCSideNormal == (2 :> <<3 // 5, 4 // 5>>) @@ (3 :> <<1 // 3, 2 // 3, 2 // 3>>)
MCToward     == (2 :> <<5 // 13, 12 // 13>>) @@ (3 :> <<2 // 7, 3 // 7, 6 // 7>>)
\* Subsonic outflow of a plane flow, subsonic inflow of a spatial one.
MCEntering   == (2 :> {2}) @@ (3 :> {0, 1, 2, 3})
MCTau ==
  [dim \in Dims |-> [p \in (0 .. (dim + 1)) \X (0 .. (dim + 1)) |->
                       2 + ((5 * dim + 13 * p[1] + 29 * p[2] + p[1] * p[2]) % 97)]]
MCCapture == <<21, 34, 55>>
===============================================================================
