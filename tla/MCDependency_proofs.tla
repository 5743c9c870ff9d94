------------------------ MODULE MCDependency_proofs ------------------------
(* The instances with the invariants that the proofs use. *)
EXTENDS MCDependency, Dependency_proofs
=============================================================================
