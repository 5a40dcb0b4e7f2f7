------------------------------ MODULE RootLedger ------------------------------
(***************************************************************************)
(* What a flutter search promises about its cross-over points: a scan       *)
(* identifies them, every search settles one that was pending, none is lost *)
(* or settled twice, and only clearing the solutions forgets them. A search *)
(* may also fail for good, which leaves the ledger as it is.                *)
(***************************************************************************)

CONSTANT Points     \* the cross-over points a scan may identify

VARIABLES
  pending,   \* identified, no root found yet
  settled    \* a root has been found

lvars == <<pending, settled>>

Init == pending = {} /\ settled = {}

\* A scan starts from an empty ledger.
Identify ==
  /\ pending = {} /\ settled = {}
  /\ pending' \in SUBSET Points
  /\ settled' \in SUBSET (Points \ pending')

Settle ==
  \E c \in pending :
    /\ pending' = pending \ {c}
    /\ settled' = settled \cup {c}

Forget == pending' = {} /\ settled' = {}

Next == Identify \/ Settle \/ Forget

Spec == Init /\ [][Next]_lvars
=============================================================================
