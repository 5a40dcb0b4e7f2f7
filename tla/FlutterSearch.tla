----------------------------- MODULE FlutterSearch -----------------------------
(***************************************************************************)
(* The root search of TimeDomainFlutterSolver and UGFlutterSolver: a scan   *)
(* analyzes equally spaced reference values, sign changes of the damping of *)
(* a mode become cross-over points, and find_next_root and                  *)
(* find_critical_root settle them one by one with _bisection_search.        *)
(*                                                                          *)
(* The reference value is the velocity in the time-domain solver, scanned   *)
(* upwards, and the reduced frequency in the UG solver, scanned downwards;  *)
(* both are positions 0, Spacing, 2*Spacing ... in the order of the scan.   *)
(* What the eigenvalue problem gives at a position is a free choice. Two    *)
(* searches are taken to meet at no position between scan points, and equal *)
(* keys of the multimap are taken in any order.                             *)
(***************************************************************************)
EXTENDS Integers, FiniteSets

CONSTANTS
  Solvers,          \* the solvers checked: a subset of AllSolvers
  NDivs,            \* _n_V_divs, _n_kr_divs
  Spacing,          \* positions between two scan points
  Modes,            \* root numbers, those of non-negative frequency
  Dampings,         \* values of the damping of a root
  Speeds,           \* velocities of the roots of the UG solver
  GTol,             \* g_tol
  MaxG,             \* max_allowable_g
  MaxIters,         \* n_bisection_iters
  LowestIsZero      \* kr_lower = 0

AllSolvers == {"time domain", "UG"}

ASSUME SolversAssumption == Solvers \subseteq AllSolvers
ASSUME ScanAssumption ==
  /\ NDivs \in Nat \ {0} /\ Spacing \in Nat \ {0}
  /\ LowestIsZero \in BOOLEAN
ASSUME DampingAssumption ==
  Dampings \subseteq Int /\ GTol \in Nat /\ MaxG \in Nat
ASSUME SpeedsAssumption == Speeds \subseteq Nat \ {0}
\* with no iteration _bisection_search returns a null solution
ASSUME ItersAssumption == MaxIters \in Nat \ {0}

VARIABLES
  solver,       \* the class of the solver object
  pc,           \* new, idle, critical, search, aborted
  call,         \* the search in progress or returned last: none, next, critical
  scan,         \* the roots at the scan points
  crossovers,   \* _flutter_crossovers
  current,      \* the cross-over point being searched
  lower,        \* lower_V or lower_kr, and lower_g
  upper,        \* upper_V or upper_kr, and upper_g
  iters,        \* n_iters
  result        \* the root returned last, or NoRoot

search == <<current, lower, upper, iters>>
vars == <<solver, pc, call, scan, crossovers, current, lower, upper, iters,
          result>>

ScanPoints == 0 .. NDivs
Positions  == 0 .. NDivs * Spacing

\* A root: its damping, its velocity and whether it is physical.
Roots == [g : Int, v : Nat, physical : BOOLEAN]

\* A cross-over point: the scan points that bracket it, the one with negative
\* damping first, the key it is stored under and, once a root is assigned, that
\* root's damping; its velocity is then the key.
Crossovers == [mode : Modes, first : ScanPoints, second : ScanPoints,
               key : Nat, found : BOOLEAN, g : Int]

Ends     == [at : Positions, g : Int]
NoEnd    == [at |-> 0, g |-> 0]
Results  == [found : BOOLEAN, v : Nat, g : Int]
NotFound == [found |-> FALSE, v |-> 0, g |-> 0]

-----------------------------------------------------------------------------
(* Operators the handlers share. A definition commented as a slip is a wrong   *)
(* form of the one after it, kept to see which property would notice it.      *)

Magnitude(n) == IF n < 0 THEN -n ELSE n
Lesser(a, b)  == IF a <= b THEN a ELSE b
Greater(a, b) == IF a >= b THEN a ELSE b

\* What the eigenvalue problem may give for a mode. In the time-domain solver
\* the velocity of a root is the position it was found at.
Outcomes ==
  {o \in [g : Dampings \cup {0}, v : Speeds \cup {0}, physical : BOOLEAN] :
     \/ solver = "time domain" /\ o.g \in Dampings /\ o.v = 0 /\ o.physical
     \/ solver = "UG" /\ o.g \in Dampings /\ o.v # 0 /\ o.physical
     \/ solver = "UG" /\ o.g = 0 /\ o.v = 0 /\ ~o.physical}

RootAt(p, o) == IF solver = "time domain" THEN [o EXCEPT !.v = p] ELSE o

\* A mode that trails along zero damping is no flutter mode.
Neglected(s, m) == \A j \in ScanPoints : s[j][m].g = 0

\* Are the roots at scan points j and j + 1 looked at for a cross-over?
Usable(s, j, m) ==
  /\ ~Neglected(s, m)
  /\ solver = "UG" =>
       \A k \in {j, j + 1} : s[k][m].physical /\ Magnitude(s[k][m].g) < MaxG

SignChange(s, j, m) ==
  /\ Usable(s, j, m)
  /\ (s[j][m].g <= 0) # (s[j + 1][m].g <= 0)

\* Slip: the key is the velocity of the root with positive damping.
SecondKey(root1, root2) == root2.v

\* The key of a new cross-over point is the velocity of its first root.
KeyOf(root1, root2) == root1.v

CrossoverBetween(s, a, b, m) ==
  [mode |-> m, first |-> a, second |-> b,
   key |-> KeyOf(s[a][m], s[b][m]), found |-> FALSE, g |-> 0]

BracketedCrossover(s, j, m) ==
  IF s[j][m].g <= 0 THEN CrossoverBetween(s, j, j + 1, m)
                    ELSE CrossoverBetween(s, j + 1, j, m)

\* _identify_crossover_points: a sign change between neighbours; in the
\* time-domain solver a mode that is unstable where the scan begins, which has no
\* bracket (the UG solver never sets _include_highest_kr_unstable); and in the UG
\* solver an undamped root at zero frequency, whose root is known at once.
Identified(s) ==
  {BracketedCrossover(s, jm[1], jm[2]) :
     jm \in {i \in (0 .. NDivs - 1) \X Modes : SignChange(s, i[1], i[2])}}
  \cup
  {CrossoverBetween(s, 0, 0, m) :
     m \in {n \in Modes : solver = "time domain" /\ Usable(s, 0, n) /\ s[0][n].g > 0}}
  \cup
  {[CrossoverBetween(s, NDivs, NDivs, m) EXCEPT !.found = TRUE] :
     m \in {n \in Modes : /\ solver = "UG" /\ LowestIsZero
                          /\ s[NDivs][n].physical /\ s[NDivs][n].g = 0}}

\* begin() of the multimap, or the first of its entries in a subset.
Lowest(cs) == {c \in cs : \A d \in cs : c.key <= d.key}

Pending == {c \in crossovers : ~c.found}

\* How many positions lie strictly between two others.
Room(a, b) == Greater(a, b) - Lesser(a, b) - 1

\* Where the line through the two ends of the bracket crosses zero: the first
\* end itself when its damping is zero, otherwise a point between them. The
\* point leaves room for the iterations to come: Spacing bounds how often a
\* bracket can be divided.
Interpolated ==
  IF lower.g = 0 THEN {lower.at}
  ELSE {p \in Lesser(lower.at, upper.at) + 1 .. Greater(lower.at, upper.at) - 1 :
          /\ Room(lower.at, p) >= MaxIters - 1 - iters
          /\ Room(p, upper.at) >= MaxIters - 1 - iters}

\* libmesh_assert(if_success) fails, in a build with assertions: a solution is
\* stored at that position, or it is the quotient 0/0 of a bracket whose ends are
\* one solution, which the map takes for a key it has.
InsertionFails(p) == p \in {lower.at, upper.at}

Converged(root) == Magnitude(root.g) <= GTol

\* Slip: the number of iterations is not limited.
NeverLast == FALSE

\* while (n_iters < max_iters) of _bisection_search.
LastIteration == iters + 1 = MaxIters

\* Slip: a cross-over point that did not converge is erased.
KeepIfConverged(c, root) ==
  IF Converged(root) THEN {[c EXCEPT !.found = TRUE, !.key = root.v, !.g = root.g]}
  ELSE {}

\* The root of the last solution is assigned, converged or not, and the entry
\* is reinserted under its velocity.
Settled(c, root) == {[c EXCEPT !.found = TRUE, !.key = root.v, !.g = root.g]}

\* Slip: the ends are taken for each other.
TakesUpperEnd(root) == root.g > 0

\* The end of the bracket a new root replaces.
TakesLowerEnd(root) == root.g < 0

-----------------------------------------------------------------------------
Init ==
  /\ solver \in Solvers
  /\ pc = "new" /\ call = "none"
  /\ scan = <<>> /\ crossovers = {}
  /\ current = {} /\ lower = NoEnd /\ upper = NoEnd /\ iters = 0
  /\ result = NotFound

\* scan_for_roots; it does nothing when solutions are stored.
ScanForRoots ==
  /\ pc = "new"
  /\ pc' = "idle"
  /\ \E o \in [ScanPoints -> [Modes -> Outcomes]] :
       scan' = [j \in ScanPoints |-> [m \in Modes |-> RootAt(j * Spacing, o[j][m])]]
  /\ crossovers' = Identified(scan')
  /\ UNCHANGED <<solver, call, search, result>>

\* clear_solutions.
ClearSolutions ==
  /\ pc = "idle"
  /\ pc' = "new"
  /\ call' = "none"
  /\ scan' = <<>>
  /\ crossovers' = {}
  /\ result' = NotFound
  /\ UNCHANGED <<solver, search>>

\* _bisection_search begins with the solutions that bracket c.
BeginSearch(c) ==
  /\ pc' = "search"
  /\ current' = {c}
  /\ lower' = [at |-> c.first * Spacing,  g |-> scan[c.first][c.mode].g]
  /\ upper' = [at |-> c.second * Spacing, g |-> scan[c.second][c.mode].g]
  /\ iters' = 0

\* find_next_root: the first cross-over point without a root.
FindNextRoot ==
  /\ pc = "idle"
  /\ call' = "next"
  /\ result' = NotFound
  /\ IF Pending = {} THEN UNCHANGED <<pc, search>>
     ELSE \E c \in Lowest(Pending) : BeginSearch(c)
  /\ UNCHANGED <<solver, scan, crossovers>>

\* find_critical_root.
FindCriticalRoot ==
  /\ pc = "idle"
  /\ call' = "critical"
  /\ result' = NotFound
  /\ pc' = IF crossovers = {} THEN "idle" ELSE "critical"
  /\ UNCHANGED <<solver, scan, crossovers, search>>

\* while (!it->second->root): the first entry is searched ...
CriticalSearch ==
  /\ pc = "critical"
  /\ \E c \in Lowest(crossovers) : ~c.found /\ BeginSearch(c)
  /\ UNCHANGED <<solver, call, scan, crossovers, result>>

\* ... until the first entry has a root, which is returned.
CriticalReturn ==
  /\ pc = "critical"
  /\ \E c \in Lowest(crossovers) :
       /\ c.found
       /\ result' = [found |-> TRUE, v |-> c.key, g |-> c.g]
  /\ pc' = "idle"
  /\ UNCHANGED <<solver, call, scan, crossovers, search>>

\* One iteration of _bisection_search that does not end it.
Narrow ==
  /\ pc = "search"
  /\ ~LastIteration
  /\ \E p \in Interpolated, o \in Outcomes :
       LET root == RootAt(p, o) IN
       /\ ~InsertionFails(p)
       /\ ~Converged(root)
       /\ lower' = IF TakesLowerEnd(root) THEN [at |-> p, g |-> root.g] ELSE lower
       /\ upper' = IF TakesLowerEnd(root) THEN upper ELSE [at |-> p, g |-> root.g]
  /\ iters' = iters + 1
  /\ UNCHANGED <<solver, pc, call, scan, crossovers, current, result>>

\* The iteration that ends it: the root is within the tolerance or max_iters is
\* reached. find_next_root returns, find_critical_root looks at begin() again.
Settle ==
  /\ pc = "search"
  /\ \E p \in Interpolated, o \in Outcomes, c \in current :
       LET root == RootAt(p, o) IN
       /\ ~InsertionFails(p)
       /\ Converged(root) \/ LastIteration
       /\ crossovers' = (crossovers \ current) \cup Settled(c, root)
       /\ result' = IF call = "next"
                    THEN [found |-> TRUE, v |-> root.v, g |-> root.g] ELSE result
  /\ pc' = IF call = "next" THEN "idle" ELSE "critical"
  /\ current' = {} /\ lower' = NoEnd /\ upper' = NoEnd /\ iters' = 0
  /\ UNCHANGED <<solver, call, scan>>

\* The assertion on the insertion into _flutter_solutions fails.
FailInsertion ==
  /\ pc = "search"
  /\ lower.at = upper.at \/ \E p \in Interpolated : InsertionFails(p)
  /\ pc' = "aborted"
  /\ UNCHANGED <<solver, call, scan, crossovers, search, result>>

Find == CriticalSearch \/ CriticalReturn \/ Narrow \/ Settle \/ FailInsertion

Next ==
  \/ ScanForRoots
  \/ ClearSolutions
  \/ FindNextRoot
  \/ FindCriticalRoot
  \/ Find

Spec == Init /\ [][Next]_vars

\* The searches run on the caller's thread without waiting for anything.
FairSpec == Spec /\ WF_vars(Find)

-----------------------------------------------------------------------------
(* Properties. *)

\* Cross-over points, brackets and counters have their types; a search is made
\* for one cross-over point, within max_iters iterations.
TypeOK ==
  /\ solver \in Solvers
  /\ pc \in {"new", "idle", "critical", "search", "aborted"}
  /\ call \in {"none", "next", "critical"}
  /\ pc # "new" => scan \in [ScanPoints -> [Modes -> Roots]]
  /\ crossovers \subseteq Crossovers
  /\ current \subseteq crossovers
  /\ pc = "search" => \E c \in current : current = {c}
  /\ lower \in Ends /\ upper \in Ends
  /\ iters \in 0 .. MaxIters - 1
  /\ result \in Results

BracketOf(c) ==
  Lesser(c.first, c.second) * Spacing .. Greater(c.first, c.second) * Spacing

\* Through every division the bracket of a search stays inside the bracket of
\* its cross-over point and keeps the sign change: negative or zero damping at
\* the first end, positive damping at the second.
BracketKeepsSignChange ==
  (pc = "search" /\ lower.at # upper.at) =>
    /\ lower.g <= 0 /\ upper.g > 0
    /\ \A c \in current : {lower.at, upper.at} \subseteq BracketOf(c)

\* When find_critical_root of the time-domain solver returns a root, no root
\* found so far is at a lower velocity, and neither can the root of a mode be
\* that turns unstable at a cross-over point still pending. The multimap is
\* reordered while the search runs, and cross-over points of several modes
\* overlap.
CriticalIsFirstInstability ==
  (pc = "idle" /\ call = "critical" /\ result.found /\ solver = "time domain") =>
    \A c \in crossovers :
      /\ c.found => result.v <= c.key
      /\ (~c.found /\ c.first < c.second) => result.v <= c.first * Spacing

\* The searches implement the ledger: a cross-over point is its mode and its
\* bracket.
Identity(c) == [mode |-> c.mode, first |-> c.first, second |-> c.second]

Ledger == INSTANCE RootLedger WITH
  Points  <- [mode : Modes, first : ScanPoints, second : ScanPoints],
  pending <- {Identity(c) : c \in Pending},
  settled <- {Identity(c) : c \in crossovers \ Pending}

KeepsLedger == Ledger!Spec

\* A call that has begun to search returns to its caller or fails the assertion
\* on a stored solution.
SearchReturns == (pc \in {"search", "critical"}) ~> (pc \in {"idle", "aborted"})
=============================================================================
