---------------------------- MODULE MCRop_proofs ----------------------------
(* The inductive invariant of Rop_proofs, checked before it is proved. *)
EXTENDS MCRop, Rop_proofs
=============================================================================
