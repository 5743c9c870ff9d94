------------------------ MODULE MCResourceApi_proofs ------------------------
(* The instances with the invariants that the proofs use. *)
EXTENDS MCResourceApi, ResourceApi_proofs
=============================================================================
