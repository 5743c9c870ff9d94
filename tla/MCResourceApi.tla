---------------------------- MODULE MCResourceApi ----------------------------
(* Instances of ResourceApi for TLC. *)
EXTENDS ResourceApi, TLC

UpdateSymmetry == Permutations(Updates)
=============================================================================
