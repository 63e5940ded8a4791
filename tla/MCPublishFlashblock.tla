------------------------- MODULE MCPublishFlashblock -------------------------
(* Pool orders are alike to the steps that publish them. *)
EXTENDS PublishFlashblock, TLC

OrderSymmetry == Permutations(Orders)
=============================================================================
