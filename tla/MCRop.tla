----------------------------- MODULE MCRop -----------------------------
(* Instances of Rop for TLC. *)
EXTENDS Rop, TLC

CONSTANTS r1, r2, r3, c1, c2, a1, a2, k1

Two   == {r1, r2}
Three == {r1, r2, r3}

RopSymmetry == Permutations(Attempts) \cup Permutations(Rounds)

\* a1's window ends at time 1, a2 has none within the bound.
Windows == [a \in Actions |-> IF a = a1 THEN 1 ELSE MaxTime + 1]
NoWindows == [a \in Actions |-> MaxTime + 1]

NoEdges == {}
A2OnA1 == {<<a1, a2>>}

KnownAnswers == AllAnswers \ {"UNRECOGNIZED"}
MainAnswers == {"REVERSED", "PARTIALLY_REVERSED", "CONFLICT", "OUTCOME_UNKNOWN"}
SettledAnswers == {"REVERSED", "CONFLICT"}

-----------------------------------------------------------------------------
(* The instance for liveness: at most MaxCalls calls, of both kinds, whatever *)
(* their order.  Two rounds race over what a request left, before or after a  *)
(* crash; two requests race beside a round, or alone around a crash.          *)

MaxCalls == 3

Requested  == {r \in Requests : pc[r] # "idle"}
Reconciled == {c \in Rounds : rpc[c] # "idle"}

FewCalls == /\ Cardinality(Requested) + Cardinality(Reconciled) <= MaxCalls
            /\ crashes > 0 => Cardinality(Requested) <= 1 \/ Reconciled = {}

\* Requests are interchangeable, and so are rounds: the first of each kind to
\* be called is named 1.  The properties are about all of them.
NamedInTurn == /\ r2 \in Requested => r1 \in Requested
               /\ c2 \in Reconciled => c1 \in Reconciled

\* The bound admits no further call, and none is in flight.
CallsOver == Quiet /\ UNCHANGED ropVars

FewNext == \/ RopNext /\ FewCalls' /\ NamedInTurn'
           \/ CallsOver

FewSpec == RopInit /\ [][FewNext]_ropVars /\ Fairness
=============================================================================
