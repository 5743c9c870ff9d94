----------------------------- MODULE MCReversal -----------------------------
(* Instances of Reversal for TLC. *)
EXTENDS Reversal, TLC

CONSTANTS r1, r2, r3, a1, a2, k1

Two   == {r1, r2}
Three == {r1, r2, r3}

ReqSymmetry == Permutations(Attempts)

\* a1's window ends at time 1, a2 has none within the bound.
Windows == [a \in Actions |-> IF a = a1 THEN 1 ELSE MaxTime + 1]
NoWindows == [a \in Actions |-> MaxTime + 1]

NoEdges == {}
A2OnA1 == {<<a1, a2>>}

KnownAnswers == AllAnswers \ {"UNRECOGNIZED"}
\* CONFLICT and RETRYABLE both give the Action back, OUTCOME_UNKNOWN and a timeout
\* are treated alike: no run needs both of each.
CoreAnswers == AllAnswers \ {"RETRYABLE", "OUTCOME_UNKNOWN"}
SomeAnswers == {"REVERSED", "RETRYABLE", "NON_RETRYABLE", "UNRECOGNIZED"}
=============================================================================
