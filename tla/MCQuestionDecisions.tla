------------------------ MODULE MCQuestionDecisions ------------------------
(***************************************************************************)
(* Instances of QuestionDecisions for TLC.                                 *)
(***************************************************************************)
EXTENDS QuestionDecisions, TLC

\* Questions of the kinds decide_question tells apart: nothing recommended
\* and a first choice, and a recommendation that is not among the choices.
MCContents ==
  {[recommended |-> None, choices |-> <<"b", "a">>],
   [recommended |-> "a", choices |-> <<"b">>]}

MCChoices == {"a", "b", None} \cup Answers

HumanSymmetry == Permutations(Humans) \cup Permutations(Questions)
=============================================================================
