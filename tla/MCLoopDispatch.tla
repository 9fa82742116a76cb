---------------------------- MODULE MCLoopDispatch ----------------------------
(***************************************************************************)
(* Instances of LoopDispatch for TLC.                                      *)
(***************************************************************************)
EXTENDS LoopDispatch, TLC

DispatchSymmetry == Permutations(Sessions) \cup Permutations(Loops)
=============================================================================
