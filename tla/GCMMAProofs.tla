----------------------------- MODULE GCMMAProofs -----------------------------
(***************************************************************************)
(* Proofs about GCMMA: types, what a subproblem is built from, which        *)
(* designs are accepted and when an early stop is taken, for every number   *)
(* of designs, iterations and backtracks.                                   *)
(***************************************************************************)
EXTENDS GCMMA, TLAPS

\* What holds in each stage of the two loops.
Stages ==
  /\ pc = "outer" => iter < MaxIters
  /\ pc # "outer" => iter \in 1 .. MaxIters
  /\ pc = "values" => asked = xval
  /\ pc = "trial" => asked = trial
  /\ pc = "judge" => /\ asked = xmma /\ fnew = xmma /\ returned = xmma
                     /\ xmma \notin poor

\* XVAL is the design the search started from, or was accepted.
Accepted ==
  /\ pc = "outer" /\ iter = 0 => xval = Start
  /\ pc \in {"values", "subproblem", "trial", "again", "judge"} /\ iter = 1 => xval = Start
  /\ pc \in {"values", "subproblem", "trial", "again", "judge"} /\ iter > 1 => xval \notin poor

IInv == TypeOK /\ Stages /\ Accepted /\ SubproblemAboutX /\ AcceptedNotPoor

\* Initially nothing has been evaluated.
LEMMA InitInv == Init => IInv
<1> SUFFICES ASSUME Init PROVE IInv
  OBVIOUS
<1> USE DesignAssumption, LimitAssumption, ObjectiveAssumption DEF Init
<1>1. TypeOK
  BY DEF TypeOK, Slots
<1>2. Stages /\ Accepted /\ SubproblemAboutX /\ AcceptedNotPoor
  BY DEF Stages, Accepted, SubproblemAboutX, AcceptedNotPoor
<1> QED BY <1>1, <1>2 DEF IInv

\* A solution that is not poor did not diverge, so its functions are its own.
LEMMA TrialFunctions ==
  ASSUME IInv, TrialEvaluated
  PROVE  /\ asked = trial /\ trial \notin poor /\ trial \in Designs
         /\ fnew' = trial /\ returned' = trial /\ xmma' = trial
<1>1. asked = trial /\ trial \notin poor /\ trial \in Designs
  BY DEF IInv, Stages, TypeOK, TrialEvaluated, IsPoor
<1>2. trial \notin diverges
  BY <1>1 DEF IInv, TypeOK
<1> QED BY <1>1, <1>2 DEF TrialEvaluated, Functions, AcceptedTrial

\* The slot written by an outer iteration is a slot of the ring.
LEMMA SlotInRange == ASSUME IInv, pc = "judge" PROVE SlotOf \in Slots
<1>1. iter - 1 \in Nat /\ RelIters \in Nat /\ RelIters > 0
  BY LimitAssumption DEF IInv, Stages, TypeOK
<1>2. (iter - 1) % RelIters \in 0 .. RelIters - 1
  BY <1>1
<1> QED BY <1>2 DEF SlotOf, Slots

\* Types are kept by every step.
LEMMA TypeStep == ASSUME IInv, [Next]_vars PROVE TypeOK'
<1> USE DesignAssumption, LimitAssumption, ObjectiveAssumption
<1>0. TypeOK /\ Stages
  BY DEF IInv
<1>1. CASE BeginOuter
  BY <1>0, <1>1 DEF TypeOK, Stages, BeginOuter, oracle, history
<1>2. CASE OuterEvaluated
  BY <1>0, <1>2 DEF TypeOK, Stages, OuterEvaluated, oracle, history, Functions, Gradients
<1>3. CASE Subproblem
  BY <1>0, <1>3 DEF TypeOK, Stages, Subproblem, oracle, history
<1>4. CASE Backtrack
  <2>1. Backtracked \subseteq Designs
    BY <1>0 DEF TypeOK, Backtracked
  <2> QED BY <1>0, <1>4, <2>1 DEF TypeOK, Stages, Backtrack, oracle, history, Functions
<1>5. CASE EvaluateAgain
  BY <1>0, <1>5 DEF TypeOK, Stages, EvaluateAgain, oracle, history
<1>6. CASE TrialEvaluated
  BY <1>0, <1>6, TrialFunctions DEF TypeOK, Stages, TrialEvaluated, oracle, history
<1>7. CASE NotConservative
  BY <1>0, <1>7 DEF TypeOK, Stages, NotConservative, InnerLimit, oracle, history
<1>8. CASE EndOuter
  <2>1. fnew \in Designs /\ xmma \in Designs
    BY <1>0, <1>8 DEF TypeOK, Stages, EndOuter
  <2>2. objective[fnew] \in Objectives
    BY <1>0, <2>1 DEF TypeOK
  <2>3. ring' \in [Slots -> Objectives \cup {0}]
    BY <1>0, <1>8, <2>2, SlotInRange DEF TypeOK, EndOuter
  <2>4. trail' \in Seq(Objectives)
    BY <1>0, <1>8, <2>2 DEF TypeOK, EndOuter
  <2> QED BY <1>0, <1>8, <2>1, <2>3, <2>4 DEF TypeOK, Stages, EndOuter, oracle
<1>9. CASE UNCHANGED vars
  BY <1>0, <1>9 DEF TypeOK, vars
<1> QED BY <1>1, <1>2, <1>3, <1>4, <1>5, <1>6, <1>7, <1>8, <1>9
        DEF Next, Optimize, InnerStep, Done

\* The stages and the properties are kept by every step.
LEMMA StageStep ==
  ASSUME IInv, [Next]_vars
  PROVE  Stages' /\ Accepted' /\ SubproblemAboutX' /\ AcceptedNotPoor'
<1> USE DesignAssumption, LimitAssumption
<1>0. TypeOK /\ Stages /\ Accepted /\ SubproblemAboutX /\ AcceptedNotPoor
  BY DEF IInv
<1> USE DEF Stages, Accepted, SubproblemAboutX, AcceptedNotPoor
<1>1. CASE BeginOuter
  BY <1>0, <1>1 DEF TypeOK, BeginOuter, oracle, history
<1>2. CASE OuterEvaluated
  <2>1. iter > 1 \/ Start \notin diverges => xval \notin diverges
    BY <1>0, <1>2 DEF TypeOK, OuterEvaluated
  <2> QED BY <1>0, <1>2, <2>1 DEF TypeOK, OuterEvaluated, oracle, history, Functions, Gradients
<1>3. CASE Subproblem
  BY <1>0, <1>3 DEF TypeOK, Subproblem, oracle, history
<1>4. CASE Backtrack
  BY <1>0, <1>4 DEF TypeOK, Backtrack, oracle, history
<1>5. CASE EvaluateAgain
  BY <1>0, <1>5 DEF TypeOK, EvaluateAgain, oracle, history
<1>6. CASE TrialEvaluated
  BY <1>0, <1>6, TrialFunctions DEF TypeOK, TrialEvaluated, oracle, history
<1>7. CASE NotConservative
  BY <1>0, <1>7 DEF TypeOK, NotConservative, oracle, history
<1>8. CASE EndOuter
  BY <1>0, <1>8 DEF TypeOK, EndOuter, oracle
<1>9. CASE UNCHANGED vars
  BY <1>0, <1>9 DEF vars
<1> QED BY <1>1, <1>2, <1>3, <1>4, <1>5, <1>6, <1>7, <1>8, <1>9
        DEF Next, Optimize, InnerStep, Done

LEMMA InvHolds == Spec => []IInv
<1>1. IInv /\ [Next]_vars => IInv'
  BY TypeStep, StageStep DEF IInv
<1> QED BY InitInv, <1>1, PTL DEF Spec

\* Types hold in every reachable state.
THEOREM TypeCorrect == Spec => []TypeOK
<1>1. IInv => TypeOK
  BY DEF IInv
<1> QED BY InvHolds, <1>1, PTL

\* No subproblem is built from functions or gradients of another design than
\* XVAL, although a diverged evaluation leaves old gradients behind.
THEOREM SubproblemsConsistent == Spec => []SubproblemAboutX
<1>1. IInv => SubproblemAboutX
  BY DEF IInv
<1> QED BY InvHolds, <1>1, PTL

\* No poor design becomes XVAL.
THEOREM NoPoorDesignAccepted == Spec => []AcceptedNotPoor
<1>1. IInv => AcceptedNotPoor
  BY DEF IInv
<1> QED BY InvHolds, <1>1, PTL

\* What is written after an outer iteration was evaluated last.
THEOREM OutputIsCurrent == Spec => OutputOfLastEvaluated
<1>1. IInv /\ [Next]_vars
      => [pc = "judge" /\ pc' \in {"outer", "done"} => xval' = asked /\ returned = xval']_vars
  <2> SUFFICES ASSUME IInv, Next, pc = "judge", pc' \in {"outer", "done"}
               PROVE  xval' = asked /\ returned = xval'
    OBVIOUS
  <2>1. EndOuter
    BY DEF Next, Optimize, InnerStep, Done, BeginOuter, OuterEvaluated, Subproblem,
           Backtrack, EvaluateAgain, TrialEvaluated, NotConservative
  <2> QED BY <2>1 DEF IInv, Stages, EndOuter
<1> QED BY InvHolds, <1>1, PTL DEF Spec, OutputOfLastEvaluated

-----------------------------------------------------------------------------
(* The ring of the last objectives *)

\* Two numbers less than the length of the ring apart have different slots.
LEMMA SlotsDiffer ==
  ASSUME NEW a \in Nat, NEW b \in Nat, a < b, b < a + RelIters
  PROVE  a % RelIters # b % RelIters
<1>1. RelIters \in Nat /\ RelIters > 0
  BY LimitAssumption
<1> DEFINE qa == a \div RelIters
           qb == b \div RelIters
<1>2. /\ qa \in Int /\ qb \in Int
      /\ a = RelIters * qa + (a % RelIters)
      /\ b = RelIters * qb + (b % RelIters)
  BY <1>1
<1> HIDE DEF qa, qb
<1> SUFFICES ASSUME a % RelIters = b % RelIters PROVE FALSE
  OBVIOUS
<1>3. b - a = RelIters * (qb - qa)
  <2>1. a % RelIters \in Int
    BY <1>1
  <2>2. RelIters * (qb - qa) = RelIters * qb - RelIters * qa
    BY <1>1, <1>2
  <2>3. RelIters * qa \in Int /\ RelIters * qb \in Int
    BY <1>1, <1>2
  <2> QED BY <1>2, <2>1, <2>2, <2>3
<1>4. qb - qa < 1
  <2> SUFFICES ASSUME qb - qa >= 1 PROVE FALSE
    BY <1>2
  <2>1. RelIters * (qb - qa) >= RelIters
    BY <1>1, <1>2
  <2> QED BY <1>1, <1>3, <2>1
<1>5. qb - qa > 0
  <2> SUFFICES ASSUME qb - qa <= 0 PROVE FALSE
    BY <1>2
  <2>1. RelIters * (qb - qa) <= 0
    BY <1>1, <1>2
  <2> QED BY <1>1, <1>3, <2>1
<1> QED BY <1>2, <1>4, <1>5

\* The slot of a number less than the length of the ring is the number.
LEMMA SmallSlot ==
  ASSUME NEW a \in Nat, a < RelIters
  PROVE  a % RelIters = a
BY LimitAssumption

\* The ring holds the last RelIters objectives, each in the slot of its outer
\* iteration, and zeros in the slots that no iteration has written.
RingHolds ==
  /\ Len(trail) = IF pc \in {"outer", "done"} THEN iter ELSE iter - 1
  /\ \A n \in 1 .. Len(trail) :
       Len(trail) < n + RelIters => ring[(n - 1) % RelIters] = trail[n]
  /\ \A s \in Slots : s >= Len(trail) => ring[s] = 0
  /\ pc = "done" => iter = MaxIters \/ Settled(ring)

LEMMA RingInit == Init => RingHolds
BY DEF Init, RingHolds, Slots

\* Only the end of an outer iteration touches the ring.
LEMMA RingStep ==
  ASSUME IInv, RingHolds, [Next]_vars
  PROVE  RingHolds'
<1>0. TypeOK /\ Stages
  BY DEF IInv
<1>1. CASE EndOuter
  <2> DEFINE len == Len(trail)
  <2>1. /\ len = iter - 1 /\ iter \in 1 .. MaxIters /\ iter' = iter
        /\ pc' \in {"outer", "done"}
    BY <1>0, <1>1 DEF RingHolds, Stages, EndOuter
  <2>2. /\ trail' = Append(trail, objective[fnew])
        /\ ring' = [ring EXCEPT ![SlotOf] = objective[fnew]]
        /\ trail \in Seq(Objectives) /\ DOMAIN ring = Slots
    BY <1>0, <1>1 DEF TypeOK, EndOuter
  <2>3. /\ Len(trail') = iter
        /\ trail'[iter] = objective[fnew]
        /\ \A n \in 1 .. len : trail'[n] = trail[n]
    BY <2>1, <2>2
  <2>4. SlotOf = (iter - 1) % RelIters /\ SlotOf \in Slots
    BY <1>1, SlotInRange DEF SlotOf, EndOuter
  <2>5. ASSUME NEW n \in 1 .. Len(trail'), Len(trail') < n + RelIters
        PROVE  ring'[(n - 1) % RelIters] = trail'[n]
    <3>1. CASE n = iter
      BY <2>2, <2>3, <2>4, <3>1
    <3>2. CASE n < iter
      <4>1. n - 1 \in Nat /\ iter - 1 \in Nat /\ n - 1 < iter - 1
            /\ iter - 1 < (n - 1) + RelIters
        BY <2>1, <2>3, <2>5, <3>2, LimitAssumption
      <4>2. (n - 1) % RelIters # SlotOf
        BY <2>4, <4>1, SlotsDiffer
      <4>3. (n - 1) % RelIters \in Slots
        BY <4>1, LimitAssumption DEF Slots
      <4>4. ring'[(n - 1) % RelIters] = ring[(n - 1) % RelIters]
        BY <2>2, <4>2, <4>3
      <4>5. n \in 1 .. len /\ len < n + RelIters
        BY <2>1, <2>3, <2>5, <3>2, LimitAssumption
      <4> QED BY <2>3, <4>4, <4>5 DEF RingHolds
    <3> QED BY <2>1, <2>3, <2>5, <3>1, <3>2
  <2>6. ASSUME NEW s \in Slots, s >= Len(trail')
        PROVE  ring'[s] = 0
    <3>1. s \in Nat /\ iter - 1 \in Nat /\ iter - 1 < s /\ s < RelIters
      BY <2>1, <2>3, <2>6, LimitAssumption DEF Slots
    <3>2. SlotOf # s
      <4>1. iter - 1 \in Nat /\ iter - 1 < RelIters
        BY <3>1, LimitAssumption
      <4>2. (iter - 1) % RelIters = iter - 1
        BY <4>1, SmallSlot
      <4> QED BY <2>4, <3>1, <4>2
    <3>3. ring[s] = 0
      BY <2>1, <3>1 DEF RingHolds
    <3> QED BY <2>2, <3>2, <3>3
  <2>7. pc' = "done" => iter' = MaxIters \/ Settled(ring)'
    BY <1>1 DEF EndOuter, Settled, Slots
  <2> QED BY <2>1, <2>3, <2>5, <2>6, <2>7 DEF RingHolds
<1>2. CASE BeginOuter
  BY <1>0, <1>2 DEF TypeOK, BeginOuter, oracle, history, RingHolds, Settled, Slots
<1>3. CASE OuterEvaluated
  BY <1>3 DEF OuterEvaluated, oracle, history, RingHolds, Settled, Slots
<1>4. CASE InnerStep
  BY <1>4 DEF InnerStep, Subproblem, Backtrack, EvaluateAgain, TrialEvaluated, NotConservative,
              oracle, history, RingHolds, Settled, Slots
<1>5. CASE UNCHANGED vars
  BY <1>5 DEF vars, RingHolds, Settled, Slots
<1> QED BY <1>1, <1>2, <1>3, <1>4, <1>5 DEF Next, Optimize, Done

\* A search that the relative change ends has seen equal objectives, whatever
\* slot the last one is in.
THEOREM EarlyStopIsSettled == Spec => []EarlyStopSettled
<1>1. ASSUME IInv, RingHolds PROVE EarlyStopSettled
  <2> SUFFICES ASSUME pc = "done", iter < MaxIters, NEW i \in Slots
               PROVE  (IF i < Len(trail) THEN trail[Len(trail) - i] ELSE 0) = trail[Len(trail)]
    BY DEF EarlyStopSettled
  <2> DEFINE last == ring[RelIters - 1]
  <2>1. /\ Len(trail) = iter /\ iter \in 1 .. MaxIters /\ RelIters \in Nat \ {0}
        /\ i \in 0 .. RelIters - 1
    BY <1>1, LimitAssumption DEF IInv, Stages, RingHolds, Slots
  <2>2. \A s \in Slots : ring[s] = last
    BY <1>1, <2>1 DEF RingHolds, Settled
  <2>3. ASSUME NEW n \in 1 .. Len(trail), Len(trail) < n + RelIters
        PROVE  trail[n] = last
    <3>1. (n - 1) % RelIters \in Slots
      BY <2>1, <2>3 DEF Slots
    <3> QED BY <1>1, <2>2, <2>3, <3>1 DEF RingHolds
  <2>4. trail[Len(trail)] = last
    BY <2>1, <2>3
  <2>5. CASE i < Len(trail)
    <3>1. Len(trail) - i \in 1 .. Len(trail) /\ Len(trail) < (Len(trail) - i) + RelIters
      BY <2>1, <2>5
    <3> QED BY <2>3, <2>4, <2>5, <3>1
  <2>6. CASE ~(i < Len(trail))
    <3>1. RelIters - 1 \in Slots /\ RelIters - 1 >= Len(trail)
      BY <2>1, <2>6 DEF Slots
    <3>2. last = 0
      BY <1>1, <3>1 DEF RingHolds
    <3> QED BY <2>4, <2>6, <3>2
  <2> QED BY <2>5, <2>6
<1>2. RingHolds /\ IInv /\ IInv' /\ [Next]_vars => RingHolds'
  BY RingStep
<1> QED BY InvHolds, RingInit, <1>1, <1>2, PTL DEF Spec
=============================================================================
