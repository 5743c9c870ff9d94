----------------------------- MODULE MCInquiry -----------------------------
(* Instances of Inquiry for TLC. *)
EXTENDS Inquiry, TLC

CONSTANTS r1, r2, i1, a1, a2, k1

\* a1's window ends at time 1, a2 has none within the bound.
Windows == [a \in Actions |-> IF a = a1 THEN 1 ELSE MaxTime + 1]

NoEdges == {}
A2OnA1 == {<<a1, a2>>}

InquirySymmetry == Permutations(Attempts)

ReaderAnswers ==
  {"PARTIALLY_REVERSED", "CONFLICT"}
=============================================================================
