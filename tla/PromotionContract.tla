------------------------- MODULE PromotionContract -------------------------
(***************************************************************************)
(* What a development loop promises about the code it promotes, whoever    *)
(* runs the reconciliation and however often: a version reaches the target *)
(* branch only after it was approved by a verifier whose evidence is       *)
(* stored, committed, and recorded in the loop, in this order; and a human *)
(* closes a loop only after evidence is stored.                            *)
(***************************************************************************)
EXTENDS Naturals

VARIABLES
  approved,    \* versions named by stored, accepted evidence
  committed,   \* version committed in the worktree; 0: none
  recorded,    \* revision the loop record is bound to; 0: none
  pushed,      \* version at the target branch; 0: the baseline
  closed       \* a human acceptance artifact exists

contract == <<approved, committed, recorded, pushed, closed>>

Init ==
  /\ approved = {}
  /\ committed = 0 /\ recorded = 0 /\ pushed = 0
  /\ closed = FALSE

\* Evidence is accepted at most once, for a single version.
Approve ==
  /\ approved = {}
  /\ approved' \subseteq Nat
  /\ \A v, w \in approved' : v = w
  /\ UNCHANGED <<committed, recorded, pushed, closed>>

Commit ==
  /\ committed' \in approved
  /\ UNCHANGED <<approved, recorded, pushed, closed>>

Record ==
  /\ committed # 0
  /\ recorded' = committed
  /\ UNCHANGED <<approved, committed, pushed, closed>>

Push ==
  /\ recorded # 0
  /\ pushed' = recorded
  /\ UNCHANGED <<approved, committed, recorded, closed>>

Close ==
  /\ approved # {}
  /\ closed' = TRUE
  /\ UNCHANGED <<approved, committed, recorded, pushed>>

Next == Approve \/ Commit \/ Record \/ Push \/ Close

Spec == Init /\ [][Next]_contract
=============================================================================
