-------------------------- MODULE MCInquiry_proofs --------------------------
(* What Inquiry_proofs says of readers, checked before it is proved.        *)
EXTENDS MCInquiry, Inquiry_proofs
=============================================================================
