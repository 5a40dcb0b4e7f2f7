-------------------------- MODULE FlutterSearchProofs --------------------------
(***************************************************************************)
(* Proofs about FlutterSearch, for every number of scan points, modes,      *)
(* dampings and iterations: types, the sign change a bracket keeps, what    *)
(* find_critical_root returns, and that the searches implement RootLedger.  *)
(***************************************************************************)
EXTENDS FlutterSearch, TLAPS

-----------------------------------------------------------------------------
(* What a scan identifies. *)

Scans == [ScanPoints -> [Modes -> Roots]]

\* The damping at the ends of a cross-over point that has a bracket.
SignOf(c, s) ==
  (~c.found /\ c.first # c.second) =>
    s[c.first][c.mode].g <= 0 /\ s[c.second][c.mode].g > 0

\* The key of a cross-over point where a mode turns unstable.
KeyedAt(c) ==
  (~c.found /\ c.first < c.second) => c.key = c.first * Spacing

\* A product of counts is a count, and the order of scan points is that of their
\* positions.
LEMMA PositionsOrdered ==
  ASSUME NEW a \in ScanPoints, NEW b \in ScanPoints
  PROVE  /\ a * Spacing \in Positions
         /\ a < b => a * Spacing < b * Spacing
<1>1. \A x, y \in Nat : x <= y => x * Spacing <= y * Spacing
  BY ScanAssumption, SMTT(30)
<1>2. \A x, y \in Nat : x < y => x * Spacing < y * Spacing
  BY ScanAssumption, SMTT(30)
<1>3. \A x \in Nat : x * Spacing \in Nat
  BY ScanAssumption, SMTT(30)
<1>4. a \in Nat /\ b \in Nat /\ a <= NDivs /\ NDivs \in Nat
  BY ScanAssumption DEF ScanPoints
<1>5. a * Spacing <= NDivs * Spacing
  BY <1>1, <1>4
<1> HIDE DEF Positions
<1>6. a * Spacing \in Positions
  BY <1>3, <1>4, <1>5 DEF Positions
<1> QED  BY <1>2, <1>4, <1>6

\* A root built from an outcome is a root, at its own position in the
\* time-domain solver.
LEMMA RootsTyped ==
  ASSUME NEW p \in Nat, NEW o \in Outcomes
  PROVE  /\ RootAt(p, o) \in Roots
         /\ solver = "time domain" => RootAt(p, o).v = p
<1>1. o \in Roots /\ (solver = "time domain" => o.v = 0)
  <2>1. o \in [g : Dampings \cup {0}, v : Speeds \cup {0}, physical : BOOLEAN]
    BY DEF Outcomes
  <2>2. solver = "time domain" => o.v = 0
    BY DEF Outcomes
  <2>3. Dampings \cup {0} \subseteq Int /\ Speeds \cup {0} \subseteq Nat
    BY DampingAssumption, SpeedsAssumption
  <2>4. o \in Roots
    BY <2>1, <2>3 DEF Roots
  <2> QED  BY <2>2, <2>4
<1>2. o = [g |-> o.g, v |-> o.v, physical |-> o.physical]
  BY <1>1 DEF Roots
<1> QED  BY <1>1, <1>2 DEF RootAt, Roots

\* The three kinds of cross-over points, one by one.
LEMMA KindsOfCrossovers ==
  ASSUME NEW s \in Scans, NEW c \in Identified(s)
  PROVE  \/ \E j \in 0 .. NDivs - 1, m \in Modes :
              /\ s[j][m].g <= 0 /\ s[j + 1][m].g > 0
              /\ c = CrossoverBetween(s, j, j + 1, m)
         \/ \E j \in 0 .. NDivs - 1, m \in Modes :
              /\ s[j][m].g > 0 /\ s[j + 1][m].g <= 0
              /\ c = CrossoverBetween(s, j + 1, j, m)
         \/ \E m \in Modes : c = CrossoverBetween(s, 0, 0, m)
         \/ \E m \in Modes :
              c = [CrossoverBetween(s, NDivs, NDivs, m) EXCEPT !.found = TRUE]
<1>1. ASSUME NEW jm \in (0 .. NDivs - 1) \X Modes,
             SignChange(s, jm[1], jm[2]), c = BracketedCrossover(s, jm[1], jm[2])
      PROVE  \E j \in 0 .. NDivs - 1, m \in Modes :
               \/ /\ s[j][m].g <= 0 /\ s[j + 1][m].g > 0
                  /\ c = CrossoverBetween(s, j, j + 1, m)
               \/ /\ s[j][m].g > 0 /\ s[j + 1][m].g <= 0
                  /\ c = CrossoverBetween(s, j + 1, j, m)
  <2> DEFINE j == jm[1]
             m == jm[2]
  <2>1. j \in 0 .. NDivs - 1 /\ m \in Modes /\ j \in ScanPoints /\ j + 1 \in ScanPoints
    BY ScanAssumption DEF ScanPoints
  <2>2. s[j][m].g \in Int /\ s[j + 1][m].g \in Int
    BY <2>1 DEF Scans, Roots
  <2>3. (s[j][m].g <= 0) # (s[j + 1][m].g <= 0)
    BY <1>1 DEF SignChange
  <2>4. c = IF s[j][m].g <= 0 THEN CrossoverBetween(s, j, j + 1, m)
                              ELSE CrossoverBetween(s, j + 1, j, m)
    BY <1>1 DEF BracketedCrossover
  <2> HIDE DEF j, m
  <2>5. CASE s[j][m].g <= 0
    <3>1. s[j + 1][m].g > 0
      BY <2>2, <2>3, <2>5
    <3> QED  BY <2>1, <2>4, <2>5, <3>1
  <2>6. CASE ~(s[j][m].g <= 0)
    <3>1. s[j][m].g > 0 /\ s[j + 1][m].g <= 0
      BY <2>2, <2>3, <2>6
    <3> QED  BY <2>1, <2>4, <2>6, <3>1
  <2> QED  BY <2>5, <2>6
<1> QED  BY <1>1 DEF Identified

\* A scan identifies cross-over points of the right type, whose brackets have a
\* sign change, whose keys are those of their first roots, and no two of which
\* have the same mode and bracket.
LEMMA IdentifiedCorrect ==
  ASSUME NEW s \in Scans
  PROVE  /\ Identified(s) \subseteq Crossovers
         /\ \A c \in Identified(s) : SignOf(c, s)
         /\ (\A j \in ScanPoints, m \in Modes : s[j][m].v = j * Spacing)
              => \A c \in Identified(s) : KeyedAt(c)
         /\ \A c, d \in Identified(s) : Identity(c) = Identity(d) => c = d
<1>1. 0 \in ScanPoints /\ NDivs \in ScanPoints /\ NDivs # 0
      /\ \A j \in 0 .. NDivs - 1 : j \in ScanPoints /\ j + 1 \in ScanPoints
                                   /\ j < j + 1 /\ j # j + 1
  BY ScanAssumption DEF ScanPoints
<1>2. \A j \in ScanPoints, m \in Modes : s[j][m].g \in Int /\ s[j][m].v \in Nat
  BY DEF Scans, Roots
<1> DEFINE Kind(c, a, b, m, f) ==
      c = [mode |-> m, first |-> a, second |-> b, key |-> s[a][m].v,
           found |-> f, g |-> 0]
<1>3. \A a, b, m : Kind(CrossoverBetween(s, a, b, m), a, b, m, FALSE)
  BY DEF CrossoverBetween, KeyOf
<1>4. \A c \in Identified(s) :
        \E a, b \in ScanPoints, m \in Modes, f \in BOOLEAN :
          /\ Kind(c, a, b, m, f)
          /\ f = (a = NDivs /\ b = NDivs)
          /\ a # b => s[a][m].g <= 0 /\ s[b][m].g > 0
  <2> SUFFICES ASSUME NEW c \in Identified(s)
               PROVE  \E a, b \in ScanPoints, m \in Modes, f \in BOOLEAN :
                        /\ Kind(c, a, b, m, f)
                        /\ f = (a = NDivs /\ b = NDivs)
                        /\ a # b => s[a][m].g <= 0 /\ s[b][m].g > 0
    OBVIOUS
  <2> HIDE DEF Kind
  <2>1. ASSUME NEW j \in 0 .. NDivs - 1, NEW m \in Modes,
               s[j][m].g <= 0, s[j + 1][m].g > 0,
               c = CrossoverBetween(s, j, j + 1, m)
        PROVE  /\ Kind(c, j, j + 1, m, FALSE)
               /\ FALSE = (j = NDivs /\ j + 1 = NDivs)
    BY <1>1, <1>3, <2>1
  <2>2. ASSUME NEW j \in 0 .. NDivs - 1, NEW m \in Modes,
               s[j][m].g > 0, s[j + 1][m].g <= 0,
               c = CrossoverBetween(s, j + 1, j, m)
        PROVE  /\ Kind(c, j + 1, j, m, FALSE)
               /\ FALSE = (j + 1 = NDivs /\ j = NDivs)
    BY <1>1, <1>3, <2>2
  <2>3. ASSUME NEW m \in Modes, c = CrossoverBetween(s, 0, 0, m)
        PROVE  /\ Kind(c, 0, 0, m, FALSE)
               /\ FALSE = (0 = NDivs /\ 0 = NDivs)
    BY <1>1, <1>3, <2>3
  <2>4. ASSUME NEW m \in Modes,
               c = [CrossoverBetween(s, NDivs, NDivs, m) EXCEPT !.found = TRUE]
        PROVE  Kind(c, NDivs, NDivs, m, TRUE)
    BY <2>4 DEF Kind, CrossoverBetween, KeyOf
  <2> QED  BY <1>1, <2>1, <2>2, <2>3, <2>4, KindsOfCrossovers
<1>5. Identified(s) \subseteq Crossovers
  BY <1>2, <1>4 DEF Crossovers
<1>6. \A c \in Identified(s) : SignOf(c, s)
  BY <1>4 DEF SignOf
<1>7. ASSUME \A j \in ScanPoints, m \in Modes : s[j][m].v = j * Spacing
      PROVE  \A c \in Identified(s) : KeyedAt(c)
  BY <1>4, <1>7 DEF KeyedAt
<1>8. ASSUME NEW c \in Identified(s), NEW d \in Identified(s), Identity(c) = Identity(d)
      PROVE  c = d
  <2>1. PICK a \in ScanPoints, b \in ScanPoints, m \in Modes, f \in BOOLEAN :
          Kind(c, a, b, m, f) /\ f = (a = NDivs /\ b = NDivs)
    BY <1>4
  <2>2. PICK a2 \in ScanPoints, b2 \in ScanPoints, m2 \in Modes, f2 \in BOOLEAN :
          Kind(d, a2, b2, m2, f2) /\ f2 = (a2 = NDivs /\ b2 = NDivs)
    BY <1>4
  <2>3. a = a2 /\ b = b2 /\ m = m2
    BY <1>8, <2>1, <2>2 DEF Identity
  <2> QED  BY <2>1, <2>2, <2>3
<1> QED  BY <1>5, <1>6, <1>7, <1>8

-----------------------------------------------------------------------------
(* The inductive invariant. *)

\* Nothing is stored before a scan, and only a search has a cross-over point,
\* one without a root.
Shape ==
  /\ pc = "new" => crossovers = {} /\ ~result.found
  /\ call = "none" => pc \in {"new", "idle"}
  /\ pc \notin {"search", "aborted"} => current = {}
  /\ \A c \in current : ~c.found

\* Every pending cross-over point keeps the sign change and the key it was
\* identified with, and no two cross-over points have one mode and bracket.
Kept ==
  /\ pc # "new" => \A c \in crossovers : SignOf(c, scan)
  /\ solver = "time domain" => \A c \in crossovers : KeyedAt(c)
  /\ \A c, d \in crossovers : Identity(c) = Identity(d) => c = d

Inv == TypeOK /\ Shape /\ Kept /\ BracketKeepsSignChange /\ CriticalIsFirstInstability

\* The point where the line crosses zero is a position, inside the bracket and
\* not one of its ends unless a stored solution is returned.
LEMMA InterpolatedInside ==
  ASSUME lower \in Ends, upper \in Ends, NEW p \in Interpolated
  PROVE  /\ p \in Positions
         /\ ~InsertionFails(p) =>
              /\ p \in Lesser(lower.at, upper.at) .. Greater(lower.at, upper.at)
              /\ lower.at # upper.at
<1>1. PICK n \in Nat : Positions = 0 .. n
  BY ScanAssumption, SMTT(30) DEF Positions
<1>2. lower.at \in 0 .. n /\ upper.at \in 0 .. n
  BY <1>1 DEF Ends
<1>3. CASE lower.g = 0
  BY <1>1, <1>2, <1>3 DEF Interpolated, InsertionFails
<1>4. CASE lower.g # 0
  <2>1. p \in Lesser(lower.at, upper.at) + 1 .. Greater(lower.at, upper.at) - 1
    BY <1>4 DEF Interpolated
  <2> QED  BY <1>1, <1>2, <2>1 DEF Lesser, Greater
<1> QED  BY <1>3, <1>4

\* The positions of a bracket's scan points are its least and its greatest.
LEMMA BracketPositions ==
  ASSUME NEW a \in ScanPoints, NEW b \in ScanPoints
  PROVE  /\ a * Spacing \in Lesser(a, b) * Spacing .. Greater(a, b) * Spacing
         /\ b * Spacing \in Lesser(a, b) * Spacing .. Greater(a, b) * Spacing
<1>1. a \in Nat /\ b \in Nat
  BY ScanAssumption DEF ScanPoints
<1>2. a * Spacing \in Int /\ b * Spacing \in Int
  BY <1>1, ScanAssumption, SMTT(30)
<1>3. CASE a < b
  <2>1. a * Spacing < b * Spacing
    BY <1>3, PositionsOrdered
  <2>2. Lesser(a, b) = a /\ Greater(a, b) = b
    BY <1>1, <1>3 DEF Lesser, Greater
  <2> QED  BY <1>2, <2>1, <2>2
<1>4. CASE b < a
  <2>1. b * Spacing < a * Spacing
    BY <1>4, PositionsOrdered
  <2>2. Lesser(a, b) = b /\ Greater(a, b) = a
    BY <1>1, <1>4 DEF Lesser, Greater
  <2> QED  BY <1>2, <2>1, <2>2
<1>5. CASE a = b
  <2>1. Lesser(a, b) = a /\ Greater(a, b) = a
    BY <1>5 DEF Lesser, Greater
  <2> QED  BY <1>2, <1>5, <2>1
<1> QED  BY <1>1, <1>3, <1>4, <1>5

LEMMA InvInit == Init => Inv
<1> SUFFICES ASSUME Init PROVE Inv
  OBVIOUS
<1> USE DEF Init
<1>1. 0 \in Positions
  <2>1. 0 \in ScanPoints /\ 0 * Spacing = 0
    BY ScanAssumption DEF ScanPoints
  <2> QED  BY <2>1, PositionsOrdered
<1>2. TypeOK
  <2>1. NoEnd \in Ends /\ NotFound \in Results
    BY <1>1 DEF NoEnd, Ends, NotFound, Results
  <2> QED  BY <2>1, ItersAssumption DEF TypeOK
<1>3. Shape /\ Kept
  BY DEF Shape, Kept, NotFound
<1>4. BracketKeepsSignChange /\ CriticalIsFirstInstability
  BY DEF BracketKeepsSignChange, CriticalIsFirstInstability
<1> QED  BY <1>2, <1>3, <1>4 DEF Inv

\* A scan.
LEMMA ScanStep == Inv /\ ScanForRoots => Inv'
<1> SUFFICES ASSUME Inv, ScanForRoots PROVE Inv'
  OBVIOUS
<1> USE DEF Inv
<1>1. scan' \in Scans
      /\ (solver = "time domain" =>
            \A j \in ScanPoints, m \in Modes : scan'[j][m].v = j * Spacing)
  <2>1. PICK o \in [ScanPoints -> [Modes -> Outcomes]] :
          scan' = [j \in ScanPoints |-> [m \in Modes |-> RootAt(j * Spacing, o[j][m])]]
    BY DEF ScanForRoots
  <2>2. ASSUME NEW j \in ScanPoints, NEW m \in Modes
        PROVE  /\ RootAt(j * Spacing, o[j][m]) \in Roots
               /\ solver = "time domain" => RootAt(j * Spacing, o[j][m]).v = j * Spacing
    <3>1. o[j][m] \in Outcomes
      BY <2>1
    <3>2. j * Spacing \in Nat
      BY ScanAssumption, SMTT(30) DEF ScanPoints
    <3> QED  BY <3>1, <3>2, RootsTyped
  <2> QED  BY <2>1, <2>2 DEF Scans
<1>2. /\ crossovers' = Identified(scan')
      /\ pc = "new" /\ pc' = "idle"
      /\ UNCHANGED <<solver, call, search, result>>
  BY DEF ScanForRoots
<1>3. /\ Identified(scan') \subseteq Crossovers
      /\ \A c \in Identified(scan') : SignOf(c, scan')
      /\ solver = "time domain" => \A c \in Identified(scan') : KeyedAt(c)
      /\ \A c, d \in Identified(scan') : Identity(c) = Identity(d) => c = d
  BY <1>1, IdentifiedCorrect
<1>4. current = {}
  BY <1>2 DEF Shape, TypeOK
<1>5. TypeOK'
  BY <1>1, <1>2, <1>3, <1>4 DEF TypeOK, Scans, search
<1>6. Shape'
  BY <1>2, <1>4 DEF Shape, search
<1>7. Kept'
  BY <1>2, <1>3 DEF Kept, SignOf, KeyedAt, Identity
<1>8. BracketKeepsSignChange' /\ CriticalIsFirstInstability'
  BY <1>2 DEF BracketKeepsSignChange, CriticalIsFirstInstability, Shape
<1> QED  BY <1>5, <1>6, <1>7, <1>8

\* A search begins with the bracket of its cross-over point.
LEMMA BeginSearchStep ==
  ASSUME Inv, NEW c \in Pending, BeginSearch(c), pc # "new",
         call' \in {"next", "critical"}, result' = NotFound \/ result' = result,
         UNCHANGED <<solver, scan, crossovers>>
  PROVE  Inv'
<1> USE DEF Inv
<1>1. c \in crossovers /\ ~c.found /\ c \in Crossovers
  BY DEF Pending, TypeOK
<1>2. c.first \in ScanPoints /\ c.second \in ScanPoints /\ c.mode \in Modes
  BY <1>1 DEF Crossovers
<1>3. scan[c.first][c.mode].g \in Int /\ scan[c.second][c.mode].g \in Int
  BY <1>2 DEF TypeOK, Roots
<1>4. /\ pc' = "search" /\ current' = {c} /\ iters' = 0
      /\ lower' = [at |-> c.first * Spacing,  g |-> scan[c.first][c.mode].g]
      /\ upper' = [at |-> c.second * Spacing, g |-> scan[c.second][c.mode].g]
  BY DEF BeginSearch
<1>5. c.first * Spacing \in Positions /\ c.second * Spacing \in Positions
  BY <1>2, PositionsOrdered
<1>6. TypeOK'
  <2>1. lower' \in Ends /\ upper' \in Ends
    BY <1>3, <1>4, <1>5 DEF Ends
  <2>2. iters' \in 0 .. MaxIters - 1
    BY <1>4, ItersAssumption
  <2>3. result' \in Results
    <3>1. NotFound \in Results
      BY DEF NotFound, Results
    <3>2. result \in Results
      BY DEF TypeOK
    <3> QED  BY <3>1, <3>2
  <2> QED  BY <1>1, <1>4, <2>1, <2>2, <2>3 DEF TypeOK
<1>7. Shape'
  BY <1>1, <1>4 DEF Shape
<1>8. Kept'
  BY DEF Kept, SignOf, KeyedAt, Identity
<1>9. BracketKeepsSignChange'
  <2> SUFFICES ASSUME lower'.at # upper'.at
               PROVE  /\ lower'.g <= 0 /\ upper'.g > 0
                      /\ {lower'.at, upper'.at} \subseteq BracketOf(c)
    BY <1>4 DEF BracketKeepsSignChange
  <2>1. c.first # c.second
    BY <1>4
  <2>2. lower'.g <= 0 /\ upper'.g > 0
    BY <1>1, <1>4, <2>1 DEF Kept, SignOf
  <2> QED  BY <1>2, <1>4, <2>2, BracketPositions DEF BracketOf
<1>10. CriticalIsFirstInstability'
  BY <1>4 DEF CriticalIsFirstInstability
<1> QED  BY <1>6, <1>7, <1>8, <1>9, <1>10

\* An iteration that does not end the search.
LEMMA NarrowStep == Inv /\ Narrow => Inv'
<1> SUFFICES ASSUME Inv, Narrow PROVE Inv'
  OBVIOUS
<1> USE DEF Inv
<1>1. PICK p \in Interpolated, o \in Outcomes :
        /\ ~InsertionFails(p)
        /\ ~Converged(RootAt(p, o))
        /\ lower' = IF TakesLowerEnd(RootAt(p, o))
                    THEN [at |-> p, g |-> RootAt(p, o).g] ELSE lower
        /\ upper' = IF TakesLowerEnd(RootAt(p, o))
                    THEN upper ELSE [at |-> p, g |-> RootAt(p, o).g]
  BY DEF Narrow
<1>2. /\ pc = "search" /\ ~LastIteration /\ iters' = iters + 1
      /\ UNCHANGED <<solver, pc, call, scan, crossovers, current, result>>
  BY DEF Narrow
<1>3. /\ p \in Positions
      /\ p \in Lesser(lower.at, upper.at) .. Greater(lower.at, upper.at)
      /\ lower.at # upper.at
  BY <1>1, InterpolatedInside DEF TypeOK
<1>4. Positions \subseteq Nat
  BY ScanAssumption DEF Positions
<1> DEFINE g == RootAt(p, o).g
<1>5. g \in Int /\ g # 0
  <2>1. RootAt(p, o) \in Roots
    BY <1>3, <1>4, RootsTyped
  <2>2. g \in Int
    BY <2>1 DEF Roots
  <2>3. ~(Magnitude(g) <= GTol)
    BY <1>1 DEF Converged
  <2> QED  BY <2>2, <2>3, DampingAssumption DEF Magnitude
<1> HIDE DEF g
<1>6. \/ g < 0 /\ lower' = [at |-> p, g |-> g] /\ upper' = upper
      \/ g > 0 /\ lower' = lower /\ upper' = [at |-> p, g |-> g]
  BY <1>1, <1>5 DEF g, TakesLowerEnd
<1>7. TypeOK'
  <2>1. lower' \in Ends /\ upper' \in Ends
    BY <1>3, <1>5, <1>6 DEF Ends, TypeOK
  <2>2. iters' \in 0 .. MaxIters - 1
    BY <1>2, ItersAssumption DEF TypeOK, LastIteration
  <2> QED  BY <1>2, <2>1, <2>2 DEF TypeOK
<1>8. Shape' /\ Kept'
  BY <1>2 DEF Shape, Kept, SignOf, KeyedAt, Identity
<1>9. BracketKeepsSignChange'
  <2>1. lower.g <= 0 /\ upper.g > 0
    BY <1>2, <1>3 DEF BracketKeepsSignChange
  <2>2. lower'.g <= 0 /\ upper'.g > 0
    BY <1>5, <1>6, <2>1
  <2>3. ASSUME NEW c \in current
        PROVE  {lower'.at, upper'.at} \subseteq BracketOf(c)
    <3>1. PICK a \in Int, b \in Int : BracketOf(c) = a .. b
      <4>1. c.first \in Nat /\ c.second \in Nat
        BY ScanAssumption DEF TypeOK, Crossovers, ScanPoints
      <4>2. Lesser(c.first, c.second) \in Nat /\ Greater(c.first, c.second) \in Nat
        BY <4>1 DEF Lesser, Greater
      <4>3. \A x \in Nat : x * Spacing \in Int
        BY ScanAssumption, SMTT(30)
      <4> QED  BY <4>2, <4>3 DEF BracketOf
    <3>2. lower.at \in a .. b /\ upper.at \in a .. b
      BY <1>2, <1>3, <3>1 DEF BracketKeepsSignChange
    <3>3. lower.at \in Int /\ upper.at \in Int /\ p \in Int
      <4>1. lower \in Ends /\ upper \in Ends
        BY DEF TypeOK
      <4>2. lower.at \in Positions /\ upper.at \in Positions
        BY <4>1 DEF Ends
      <4>3. \A q \in Positions : q \in Int
        BY <1>4
      <4> QED  BY <1>3, <4>2, <4>3
    <3>4. p \in a .. b
      BY <1>3, <3>2, <3>3 DEF Lesser, Greater
    <3> QED  BY <1>6, <3>1, <3>2, <3>4
  <2> QED  BY <1>2, <2>2, <2>3 DEF BracketKeepsSignChange, BracketOf
<1>10. CriticalIsFirstInstability'
  BY <1>2 DEF CriticalIsFirstInstability
<1> QED  BY <1>7, <1>8, <1>9, <1>10

\* What settling does to the cross-over points: c is replaced by one that has a
\* root and the same mode and bracket.
LEMMA Settles ==
  ASSUME Inv, Settle
  PROVE  \E c \in current, v \in Nat, g \in Int :
           /\ current = {c} /\ c \in crossovers /\ ~c.found
           /\ crossovers' = (crossovers \ {c})
                              \cup {[c EXCEPT !.found = TRUE, !.key = v, !.g = g]}
           /\ result' = IF call = "next"
                        THEN [found |-> TRUE, v |-> v, g |-> g] ELSE result
<1> USE DEF Inv
<1>1. PICK p \in Interpolated, o \in Outcomes, c \in current :
        /\ crossovers' = (crossovers \ current) \cup Settled(c, RootAt(p, o))
        /\ result' = IF call = "next"
                     THEN [found |-> TRUE, v |-> RootAt(p, o).v, g |-> RootAt(p, o).g]
                     ELSE result
  BY DEF Settle
<1>2. current = {c} /\ c \in crossovers /\ ~c.found
  BY DEF TypeOK, Shape, Settle
<1>3. RootAt(p, o).v \in Nat /\ RootAt(p, o).g \in Int
  <2>1. p \in Positions
    BY InterpolatedInside DEF TypeOK
  <2>2. p \in Nat
    BY <2>1, ScanAssumption DEF Positions
  <2>3. RootAt(p, o) \in Roots
    BY <2>2, RootsTyped
  <2> QED  BY <2>3 DEF Roots
<1> QED  BY <1>1, <1>2, <1>3 DEF Settled

LEMMA SettleStep == Inv /\ Settle => Inv'
<1> SUFFICES ASSUME Inv, Settle PROVE Inv'
  OBVIOUS
<1> USE DEF Inv
<1>1. PICK c \in current, v \in Nat, g \in Int :
        /\ current = {c} /\ c \in crossovers /\ ~c.found
        /\ crossovers' = (crossovers \ {c})
                           \cup {[c EXCEPT !.found = TRUE, !.key = v, !.g = g]}
        /\ result' = IF call = "next"
                     THEN [found |-> TRUE, v |-> v, g |-> g] ELSE result
  BY Settles
<1> DEFINE d == [c EXCEPT !.found = TRUE, !.key = v, !.g = g]
<1>2. /\ pc = "search" /\ pc' \in {"idle", "critical"} /\ (pc' = "idle" => call = "next")
      /\ current' = {} /\ lower' = NoEnd /\ upper' = NoEnd /\ iters' = 0
      /\ UNCHANGED <<solver, call, scan>>
  BY DEF Settle
<1>3. c \in Crossovers
  BY <1>1 DEF TypeOK
<1>4. /\ d \in Crossovers /\ d.found
      /\ d.mode = c.mode /\ d.first = c.first /\ d.second = c.second
  BY <1>1, <1>3 DEF Crossovers
<1>5. crossovers' = (crossovers \ {c}) \cup {d}
  BY <1>1
<1> HIDE DEF d
<1>6. TypeOK'
  <2>1. 0 \in Positions
    <3>1. 0 \in ScanPoints /\ 0 * Spacing = 0
      BY ScanAssumption DEF ScanPoints
    <3> QED  BY <3>1, PositionsOrdered
  <2>2. NoEnd \in Ends
    BY <2>1 DEF NoEnd, Ends
  <2>3. crossovers' \subseteq Crossovers
    BY <1>4, <1>5 DEF TypeOK
  <2>4. result' \in Results
    BY <1>1 DEF Results, TypeOK
  <2> QED  BY <1>2, <2>2, <2>3, <2>4, ItersAssumption DEF TypeOK
<1>7. Shape'
  BY <1>2 DEF Shape
<1>8. Kept'
  <2>1. \A e \in crossovers' : SignOf(e, scan)
    BY <1>2, <1>4, <1>5 DEF Kept, SignOf
  <2>2. solver = "time domain" => \A e \in crossovers' : KeyedAt(e)
    BY <1>4, <1>5 DEF Kept, KeyedAt
  <2>3. Identity(d) = Identity(c)
    BY <1>4 DEF Identity
  <2>4. \A e, f \in crossovers' : Identity(e) = Identity(f) => e = f
    BY <1>1, <1>5, <2>3 DEF Kept
  <2> QED  BY <1>2, <2>1, <2>2, <2>4 DEF Kept, SignOf, KeyedAt, Identity
<1>9. BracketKeepsSignChange' /\ CriticalIsFirstInstability'
  BY <1>2 DEF BracketKeepsSignChange, CriticalIsFirstInstability
<1> QED  BY <1>6, <1>7, <1>8, <1>9

\* find_critical_root returns begin(): the least key, which bounds the roots
\* found so far and the first ends of the cross-over points pending.
LEMMA CriticalReturnStep == Inv /\ CriticalReturn => Inv'
<1> SUFFICES ASSUME Inv, CriticalReturn PROVE Inv'
  OBVIOUS
<1> USE DEF Inv
<1>1. PICK c \in Lowest(crossovers) : result' = [found |-> TRUE, v |-> c.key, g |-> c.g]
  BY DEF CriticalReturn
<1>2. /\ pc = "critical" /\ pc' = "idle"
      /\ UNCHANGED <<solver, call, scan, crossovers, search>>
  BY DEF CriticalReturn
<1>3. c \in Crossovers /\ \A d \in crossovers : c.key <= d.key
  BY DEF Lowest, TypeOK
<1>4. TypeOK'
  <2>1. result' \in Results
    BY <1>1, <1>3 DEF Crossovers, Results
  <2> QED  BY <1>2, <2>1 DEF TypeOK, search
<1>5. Shape' /\ Kept'
  BY <1>2 DEF Shape, Kept, SignOf, KeyedAt, Identity, search
<1>6. BracketKeepsSignChange'
  BY <1>2 DEF BracketKeepsSignChange
<1>7. CriticalIsFirstInstability'
  <2> SUFFICES ASSUME solver = "time domain", NEW d \in crossovers
               PROVE  /\ d.found => c.key <= d.key
                      /\ (~d.found /\ d.first < d.second) => c.key <= d.first * Spacing
    BY <1>1, <1>2 DEF CriticalIsFirstInstability
  <2> QED  BY <1>3 DEF Kept, KeyedAt
<1> QED  BY <1>4, <1>5, <1>6, <1>7

LEMMA InvStep == Inv /\ [Next]_vars => Inv'
<1> SUFFICES ASSUME Inv, [Next]_vars PROVE Inv'
  OBVIOUS
<1> USE DEF Inv
<1>1. CASE ScanForRoots
  BY <1>1, ScanStep
<1>2. CASE ClearSolutions
  <2> USE <1>2 DEF ClearSolutions, search
  <2>1. current = {}
    BY DEF TypeOK, Shape
  <2>2. TypeOK'
    BY <2>1 DEF TypeOK, NotFound, Results
  <2>3. Shape' /\ Kept'
    BY <2>1 DEF Shape, Kept, NotFound
  <2> QED  BY <2>2, <2>3 DEF BracketKeepsSignChange, CriticalIsFirstInstability
<1>3. CASE FindNextRoot
  <2>1. CASE Pending = {}
    <3> USE <1>3, <2>1 DEF FindNextRoot, search
    <3>1. TypeOK'
      BY DEF TypeOK, NotFound, Results
    <3>2. Shape' /\ Kept'
      BY DEF Shape, Kept, SignOf, KeyedAt, Identity, NotFound
    <3> QED  BY <3>1, <3>2 DEF BracketKeepsSignChange, CriticalIsFirstInstability, NotFound
  <2>2. CASE Pending # {}
    <3>1. PICK c \in Lowest(Pending) : BeginSearch(c)
      BY <1>3, <2>2 DEF FindNextRoot
    <3> QED  BY <1>3, <3>1, BeginSearchStep DEF FindNextRoot, Lowest
  <2> QED  BY <2>1, <2>2
<1>4. CASE FindCriticalRoot
  <2> USE <1>4 DEF FindCriticalRoot, search
  <2>1. TypeOK'
    BY DEF TypeOK, NotFound, Results
  <2>2. Shape' /\ Kept'
    BY DEF Shape, Kept, SignOf, KeyedAt, Identity, NotFound
  <2> QED  BY <2>1, <2>2 DEF BracketKeepsSignChange, CriticalIsFirstInstability, NotFound
<1>5. CASE CriticalSearch
  <2>1. PICK c \in Lowest(crossovers) : ~c.found /\ BeginSearch(c)
    BY <1>5 DEF CriticalSearch
  <2>2. c \in Pending
    BY <2>1 DEF Lowest, Pending
  <2>3. /\ pc # "new" /\ call' \in {"next", "critical"} /\ result' = result
        /\ UNCHANGED <<solver, scan, crossovers>>
    <3>1. pc = "critical" /\ UNCHANGED <<solver, call, scan, crossovers, result>>
      BY <1>5 DEF CriticalSearch
    <3>2. call \in {"next", "critical"}
      BY <3>1 DEF TypeOK, Shape
    <3> QED  BY <3>1, <3>2
  <2> QED  BY <2>1, <2>2, <2>3, BeginSearchStep
<1>6. CASE CriticalReturn
  BY <1>6, CriticalReturnStep
<1>7. CASE Narrow
  BY <1>7, NarrowStep
<1>8. CASE Settle
  BY <1>8, SettleStep
<1>9. CASE FailInsertion
  BY <1>9 DEF FailInsertion, search, TypeOK, Shape, Kept, SignOf, KeyedAt,
              Identity, BracketKeepsSignChange, CriticalIsFirstInstability
<1>10. CASE UNCHANGED vars
  BY <1>10 DEF vars, search, TypeOK, Shape, Kept, SignOf, KeyedAt, Identity, Pending,
               BracketKeepsSignChange, CriticalIsFirstInstability
<1> QED  BY <1>1, <1>2, <1>3, <1>4, <1>5, <1>6, <1>7, <1>8, <1>9, <1>10 DEF Next, Find

LEMMA InvAlways == Spec => []Inv
<1> QED  BY InvInit, InvStep, PTL DEF Spec

-----------------------------------------------------------------------------
(* The theorems. *)

\* Cross-over points, brackets and counters keep their types, a search is always
\* made for one cross-over point of the multimap, and it makes no more than
\* max_iters iterations.
THEOREM TypeCorrect == Spec => []TypeOK
<1>1. Inv => TypeOK
  BY DEF Inv
<1> QED  BY <1>1, InvAlways, PTL

\* Every bracket _bisection_search works on has a sign change and lies inside
\* the bracket of its cross-over point.
THEOREM BracketsKeepSignChange == Spec => []BracketKeepsSignChange
<1>1. Inv => BracketKeepsSignChange
  BY DEF Inv
<1> QED  BY <1>1, InvAlways, PTL

\* find_critical_root of the time-domain solver returns a root no other mode
\* becomes unstable before.
THEOREM CriticalIsFirst == Spec => []CriticalIsFirstInstability
<1>1. Inv => CriticalIsFirstInstability
  BY DEF Inv
<1> QED  BY <1>1, InvAlways, PTL

Points      == [mode : Modes, first : ScanPoints, second : ScanPoints]
PendingIds  == {Identity(c) : c \in Pending}
SettledIds  == {Identity(c) : c \in crossovers \ Pending}

\* A scan starts a ledger of distinct cross-over points.
LEMMA ScanIdentifies ==
  ASSUME Inv, Inv', ScanForRoots
  PROVE  Ledger!Identify
<1>1. crossovers = {}
  BY DEF Inv, Shape, ScanForRoots
<1>2. PendingIds = {} /\ SettledIds = {}
  BY <1>1 DEF PendingIds, SettledIds, Pending
<1>3. \A c \in crossovers' : Identity(c) \in Points
  BY DEF Inv, TypeOK, Crossovers, Identity, Points
<1>4. PendingIds' \subseteq Points /\ SettledIds' \subseteq Points
  BY <1>3 DEF PendingIds, SettledIds, Pending, Identity
<1>5. \A c, d \in crossovers' : Identity(c) = Identity(d) => c = d
  BY DEF Inv, Kept, Identity
<1>6. PendingIds' \cap SettledIds' = {}
  BY <1>5 DEF PendingIds, SettledIds, Pending, Identity
<1> QED
  BY <1>2, <1>4, <1>6 DEF Ledger!Identify, PendingIds, SettledIds, Points

\* The end of a search settles its cross-over point and no other.
LEMMA SettleSettles ==
  ASSUME Inv, Settle
  PROVE  Ledger!Settle
<1>1. PICK c \in current, v \in Nat, g \in Int :
        /\ c \in crossovers /\ ~c.found
        /\ crossovers' = (crossovers \ {c})
                           \cup {[c EXCEPT !.found = TRUE, !.key = v, !.g = g]}
  BY Settles
<1> DEFINE d == [c EXCEPT !.found = TRUE, !.key = v, !.g = g]
<1>2. d.found /\ Identity(d) = Identity(c)
  BY <1>1 DEF Inv, TypeOK, Crossovers, Identity
<1>3. crossovers' = (crossovers \ {c}) \cup {d}
  BY <1>1
<1> HIDE DEF d
<1>4. Pending' = Pending \ {c} /\ c \in Pending
  BY <1>1, <1>2, <1>3 DEF Pending
<1>5. crossovers' \ Pending' = (crossovers \ Pending) \cup {d}
  BY <1>1, <1>2, <1>3 DEF Pending
<1>6. \A e, f \in crossovers : Identity(e) = Identity(f) => e = f
  BY DEF Inv, Kept
<1>7. \A e : Identity(e)' = Identity(e)
  BY DEF Identity
<1>8. PendingIds' = PendingIds \ {Identity(c)}
  <2>1. \A e \in Pending : Identity(e) = Identity(c) => e = c
    BY <1>1, <1>6 DEF Pending
  <2> QED  BY <1>4, <2>1 DEF PendingIds, Identity
<1>9. SettledIds' = SettledIds \cup {Identity(c)}
  BY <1>2, <1>5 DEF SettledIds, Identity
<1>10. Identity(c) \in PendingIds
  BY <1>4 DEF PendingIds
<1> QED
  BY <1>8, <1>9, <1>10 DEF Ledger!Settle, PendingIds, SettledIds

\* The searches implement the ledger: whatever is searched, in whatever order of
\* find_next_root and find_critical_root, every cross-over point a scan
\* identifies is settled at most once and never lost.
THEOREM LedgerImplemented == Spec => KeepsLedger
<1>1. Init => Ledger!Init
  BY DEF Init, Ledger!Init, Pending
<1>2. Inv /\ Inv' /\ [Next]_vars => [Ledger!Next]_Ledger!lvars
  <2> SUFFICES ASSUME Inv, Inv', [Next]_vars
               PROVE  [Ledger!Next]_Ledger!lvars
    OBVIOUS
  <2>1. CASE ScanForRoots
    BY <2>1, ScanIdentifies DEF Ledger!Next
  <2>2. CASE Settle
    BY <2>2, SettleSettles DEF Ledger!Next
  <2>3. CASE ClearSolutions
    <3>1. crossovers' = {}
      BY <2>3 DEF ClearSolutions
    <3> QED  BY <3>1 DEF Ledger!Next, Ledger!Forget, Pending
  <2>4. CASE crossovers' = crossovers
    BY <2>4 DEF Ledger!lvars, Pending, Identity
  <2> QED
    BY <2>1, <2>2, <2>3, <2>4 DEF Next, Find, FindNextRoot, FindCriticalRoot,
       CriticalSearch, CriticalReturn, Narrow, FailInsertion, vars
<1> QED  BY <1>1, <1>2, InvAlways, PTL DEF Spec, KeepsLedger, Ledger!Spec
=============================================================================
