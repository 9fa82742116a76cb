------------------------- MODULE MCLoopReconciler -------------------------
(***************************************************************************)
(* Instances of LoopReconciler for TLC.                                    *)
(***************************************************************************)
EXTENDS LoopReconcilerInvariant, TLC

SyncerSymmetry == Permutations(Syncers)
=============================================================================
