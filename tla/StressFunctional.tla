---------------------------- MODULE StressFunctional ----------------------------
(***************************************************************************)
(* StressStrainOutputBase and the outputs derived from it: the von Mises   *)
(* stress at the stored points of all elements aggregated to one number,   *)
(* by a weighted p-norm, by the Kreisselmeier-Steinhauser function or by a *)
(* smooth ramp, with its sensitivity to a parameter, to a moving boundary  *)
(* and to the solution.  The stresses are those of a nonlinear plate: at   *)
(* its skins, on two elements.                                             *)
(***************************************************************************)
EXTENDS PlateElement

CONSTANTS
  Elsewhere,   \* the solution on the second element
  StressNorm,  \* _p_norm_stress
  WeightNorm,  \* _p_norm_weight
  Rho,         \* _rho
  Allowable,   \* _sigma0
  ExpLimit     \* _exp_arg_lim

Power(a, n) == LET power[k \in 0 .. n] == IF k = 0 THEN 1 ELSE a ** power[k - 1] IN power[n]

ASSUME StressAssumption ==
  /\ StressNorm \in Nat \ {0} /\ WeightNorm \in Nat \ {0}
  /\ \A s \in 1 .. (Prime - 1) : \E y \in 1 .. (Prime - 1) : Power(y, StressNorm) % Prime = s

\* pow(a, 1./_p_norm_stress), lifted from the root modulo Prime.
NormRootTable ==
  [s \in 1 .. (Prime - 1) |-> CHOOSE y \in 1 .. (Prime - 1) : Power(y, StressNorm) % Prime = s]
LiftedNormRoot(a, y) ==
  y -- ((Power(y, StressNorm) -- a) // (StressNorm ** Power(y, StressNorm - 1)))
NormRoot(a) == LiftedNormRoot(a, NormRootTable[a % Prime])

\* A function that is its own derivative, and one whose derivative is 1/a.
ExpTable == [k \in 0 .. (Prime - 1) |-> Power(2, k)]
Exp(a)   == ExpTable[a % Prime] ** (1 ++ (Prime * (a \div Prime)))
Log(a)   == (a // (a % Prime)) -- 1

------------------------------------------------------------------------------
(* Von Mises stress *)

Six(s) == [i \in 0 .. 5 |->
             CASE i = 0 -> At(s, <<0, 0>>) [] i = 1 -> At(s, <<1, 0>>) [] i = 3 -> At(s, <<2, 0>>)
               [] OTHER -> 0]
Deviation(s, t) ==
  (Reciprocal(2) ** (((s[0] -- s[1]) ** (t[0] -- t[1])) ++ ((s[1] -- s[2]) ** (t[1] -- t[2])) ++
                     ((s[2] -- s[0]) ** (t[2] -- t[0])))) ++
  (3 ** ((s[3] ** t[3]) ++ (s[4] ** t[4]) ++ (s[5] ** t[5])))
\* No sample has a point without stress, whose derivative the code sets to zero.
VonMises(s)      == SquareRoot(Deviation(s, s))
DVonMises(s, ds) == Deviation(s, ds) // VonMises(s)

------------------------------------------------------------------------------
(* The stored points: both skins of both elements *)

Points == {"near", "far"} \X {1, -1}
OnElement(e, c) == IF e = "near" THEN c ELSE [Elsewhere @@ c EXCEPT !.JxW = 1]
AlongElement(e, d) ==
  IF e = "near" THEN d
  ELSE [p \in DOMAIN d |-> IF p \in DOMAIN Elsewhere \cup {"JxW"} THEN 0 ELSE d[p]]

StressAt(c, pt) == Six(SkinStress(OnElement(pt[1], c), pt[2], NonlinearPlate))
Stresses(c)     == [pt \in Points |-> VonMises(StressAt(c, pt))]
StressesSensitivity(c, d) ==
  [pt \in Points |->
     DVonMises(StressAt(c, pt),
               Six(DSkinStress(OnElement(pt[1], c), AlongElement(pt[1], d), pt[2], NonlinearPlate)))]
StressesDX(c, r) ==
  [pt \in Points |->
     DVonMises(StressAt(c, pt),
               Six(DSkinStressDX(OnElement(pt[1], c), pt[2], NonlinearPlate,
                                 AlongElement(pt[1], r))))]
\* The two skins share the measure of a quadrature point.
Measure(c) == [pt \in Points |-> OnElement(pt[1], c).JxW // 2]
\* On the moving boundary of the first element the same stress is computed at
\* points of its own, whose measure is the velocity of the boundary.
OfElement(e)        == {pt \in Points : pt[1] = e}
BoundaryStresses(c) == [pt \in OfElement("near") |-> VonMises(StressAt(c, pt))]
BoundaryMeasure(d)  == [pt \in OfElement("near") |-> d.JxW // 2]

------------------------------------------------------------------------------
(* What a point of stress e adds to _sigma_vm_int and to _JxW_val, per unit *)
(* measure, and their changes with the change de of the stress             *)

Norms       == {"p-norm", "capped p-norm"}
Functionals == Norms \cup {"KS", "ramp"}

\* _rho*sp > _exp_arg_lim: at one point of the capped norm.
Capped(kind, pt) == kind = "capped p-norm" /\ pt = <<"near", 1>>
Excess(e) == (e -- Allowable) // Allowable
ExpWeight(kind, pt, e) ==
  IF Capped(kind, pt) THEN Exp(ExpLimit) ELSE Exp(Rho ** Power(Excess(e), WeightNorm))
Ramp(e) == 1 ++ Power(e // Allowable, StressNorm)

Stressed(kind, pt, e) ==
  CASE kind \in Norms -> Power(e // Allowable, StressNorm) ** ExpWeight(kind, pt, e)
    [] kind = "KS"    -> Exp(StressNorm ** Excess(e))
    [] kind = "ramp"  -> NormRoot(Ramp(e))
Weighed(kind, pt, e) == IF kind \in Norms THEN ExpWeight(kind, pt, e) ELSE 1

WeightSlope(e) == Rho ** WeightNorm ** Power(Excess(e), WeightNorm - 1)
DWeighed(kind, pt, e, de) ==
  IF kind \in Norms /\ ~Capped(kind, pt)
  THEN ExpWeight(kind, pt, e) ** WeightSlope(e) ** (de // Allowable)
  ELSE 0
\* Slip: the weight's own change is left out.
FlatDStressed(kind, pt, e, de) ==
  CASE kind \in Norms ->
         StressNorm ** Power(e // Allowable, StressNorm - 1) ** ExpWeight(kind, pt, e)
           ** (de // Allowable)
    [] kind = "KS"    -> StressNorm ** (de // Allowable) ** Exp(StressNorm ** Excess(e))
    [] kind = "ramp"  ->
         (NormRoot(Ramp(e)) // Ramp(e)) ** Power(e // Allowable, StressNorm - 1)
           ** (de // Allowable)
DStressed(kind, pt, e, de) ==
  CASE kind \in Norms ->
         (de // Allowable) ** ExpWeight(kind, pt, e) **
         ((StressNorm ** Power(e // Allowable, StressNorm - 1)) ++
          (IF Capped(kind, pt) THEN 0
           ELSE Power(e // Allowable, StressNorm) ** WeightSlope(e)))
    [] kind = "KS"    -> StressNorm ** (de // Allowable) ** Exp(StressNorm ** Excess(e))
    [] kind = "ramp"  ->
         (NormRoot(Ramp(e)) // Ramp(e)) ** Power(e // Allowable, StressNorm - 1)
           ** (de // Allowable)

------------------------------------------------------------------------------
(* The functional *)

OverPoints(points, term(_)) == MapThenSumSet(term, points) % Modulus
\* Of the stresses e and the measures m of the points.
SigmaInt(kind, e, m) == OverPoints(Points, LAMBDA pt : m[pt] ** Stressed(kind, pt, e[pt]))
JxWVal(kind, e, m)   == OverPoints(Points, LAMBDA pt : m[pt] ** Weighed(kind, pt, e[pt]))

FunctionalOf(kind, I, J) ==
  CASE kind \in Norms -> Allowable ** NormRoot(I // J)
    [] kind = "KS"    -> Log(I // J) // StressNorm
    [] kind = "ramp"  -> I -- J
Aggregate(kind, e, m) == FunctionalOf(kind, SigmaInt(kind, e, m), JxWVal(kind, e, m))
Functional(kind, c)   == <<0, 0>> :> Aggregate(kind, Stresses(c), Measure(c))

\* The change of the functional by the changes of its two integrals.
FunctionalChange(kind, I, J, num, denom) ==
  LET change == (num // J) -- ((I // Square(J)) ** denom)
  IN CASE kind \in Norms -> (Allowable // StressNorm) ** (NormRoot(I // J) // (I // J)) ** change
       [] kind = "KS"    -> (Reciprocal(StressNorm) // (I // J)) ** change
       [] kind = "ramp"  -> num -- denom

\* Of one element, whose stresses e change by de.
ElementChange(kind, points, I, J, m, e, de) ==
  FunctionalChange(kind, I, J,
                   OverPoints(points, LAMBDA pt : m[pt] ** DStressed(kind, pt, e[pt], de[pt])),
                   OverPoints(points, LAMBDA pt : m[pt] ** DWeighed(kind, pt, e[pt], de[pt])))
\* Of the boundary of the first element, which adds points to the integrals.
BoundaryChange(kind, I, J, dm, eb) ==
  FunctionalChange(kind, I, J,
                   OverPoints(DOMAIN dm, LAMBDA pt : dm[pt] ** Stressed(kind, pt, eb[pt])),
                   OverPoints(DOMAIN dm, LAMBDA pt : dm[pt] ** Weighed(kind, pt, eb[pt])))

TotalChange(kind, I, J, m, e, de, dm, eb) ==
  (ElementChange(kind, OfElement("near"), I, J, m, e, de) ++
   ElementChange(kind, OfElement("far"), I, J, m, e, de)) ++
  BoundaryChange(kind, I, J, dm, eb)
ChangeBy(kind, m, e, de, dm, eb) ==
  TotalChange(kind, SigmaInt(kind, e, m), JxWVal(kind, e, m), m, e, de, dm, eb)
FunctionalSensitivity(kind, c, d) ==
  <<0, 0>> :> ChangeBy(kind, Measure(c), Stresses(c), StressesSensitivity(c, d),
                       BoundaryMeasure(d), BoundaryStresses(c))
\* The derivative with respect to the unknowns of the first element.
DXBy(kind, m, e, de) ==
  ElementChange(kind, OfElement("near"), SigmaInt(kind, e, m), JxWVal(kind, e, m), m, e, de)
FunctionalDX(kind, c, r) ==
  <<0, 0>> :> DXBy(kind, Measure(c), Stresses(c), StressesDX(c, r))
===============================================================================
