-------------------------- MODULE MCReversal_proofs --------------------------
(* The inductive invariants of the proof modules, checked before they are     *)
(* proved.                                                                    *)
EXTENDS MCReversal, History_proofs
=============================================================================
