-------------------------- MODULE MCCheckpointCommit --------------------------
(***************************************************************************)
(* Instances of CheckpointCommit for TLC.                                  *)
(***************************************************************************)
EXTENDS CheckpointCommit, TLC

SessionSymmetry == Permutations(Sessions)
=============================================================================
