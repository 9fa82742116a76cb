-------------------------- MODULE DecisionContract --------------------------
(***************************************************************************)
(* What the decision tool promises about the questions of a worker: each   *)
(* question is resolved once, and a worker that is given a choice is given *)
(* the choice its question was resolved to, however often it asks again.   *)
(***************************************************************************)
CONSTANTS Questions, Choices, None

VARIABLES
  resolved,    \* the choice a question was resolved to, or None
  told         \* choices the workers were given for it

decisions == <<resolved, told>>

Init ==
  /\ resolved = [q \in Questions |-> None]
  /\ told = [q \in Questions |-> {}]

Resolve(q) ==
  /\ resolved[q] = None
  /\ \E a \in Choices \ {None} : resolved' = [resolved EXCEPT ![q] = a]

Tell(q) == told' = [told EXCEPT ![q] = @ \cup ({resolved'[q]} \ {None})]

\* A routine question is resolved and told in one step.
Next ==
  \E q \in Questions :
    \/ Resolve(q) /\ UNCHANGED told
    \/ Resolve(q) /\ Tell(q)
    \/ UNCHANGED resolved /\ Tell(q)

Spec == Init /\ [][Next]_decisions
=============================================================================
