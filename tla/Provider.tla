------------------------------ MODULE Provider ------------------------------
(***************************************************************************)
(* The provider behind an Operation's ReverseFunc and ReconcileFunc, known  *)
(* only through the contract the services rely on.  It acts on a call once, *)
(* possibly long after the caller stopped waiting for it or crashed.        *)
(***************************************************************************)
EXTENDS Store

CONSTANT Answers      \* what ReverseFunc may return, see AllAnswers

VARIABLES
  calls,      \* attempts whose call the provider holds and has not acted on
  answer,     \* what it answered to an attempt's call
  effect      \* what it really did for an attempt

provider == <<calls, answer, effect>>

\* Outcomes and classified failures.  Every other failure, classified or not,
\* leaves the outcome unobserved, as OUTCOME_UNKNOWN does.
Conclusive == ObservedResults \cup {"RETRYABLE", "NON_RETRYABLE"}
Outcomes   == Conclusive \cup {"OUTCOME_UNKNOWN"}
AllAnswers == Outcomes \cup {"UNRECOGNIZED"}

ASSUME AnswersAssumption == Answers \subseteq AllAnswers /\ None \notin AllAnswers

Effects == {"none", "full", "partial"}

\* What the provider may have done when it gives an answer.
EffectsOf(ans) == CASE ans = "REVERSED" -> {"full"}
                    [] ans = "PARTIALLY_REVERSED" -> {"partial"}
                    [] ans \in {"OUTCOME_UNKNOWN", "UNRECOGNIZED"} -> Effects
                    [] OTHER -> {"none"}

ProviderTypeOK ==
  /\ calls \subseteq Attempts
  /\ answer \in [Attempts -> Answers \cup {None}]
  /\ effect \in [Attempts -> Effects]

ProviderInit ==
  /\ calls = {}
  /\ answer = [t \in Attempts |-> None]
  /\ effect = [t \in Attempts |-> "none"]

Call(t) == calls' = calls \cup {t} /\ UNCHANGED <<answer, effect>>

ActOnCall(t) ==
  /\ t \in calls
  /\ calls' = calls \ {t}
  /\ \E ans \in Answers :
       /\ answer' = [answer EXCEPT ![t] = ans]
       /\ \E e \in EffectsOf(ans) : effect' = [effect EXCEPT ![t] = e]

\* What a read-only lookup by the attempt's provider reference may answer:
\* it is proven only if true, and "not reversed" only if it stays so.
Evidence == {"PROVEN_REVERSED", "PROVEN_NOT_REVERSED", "INCONCLUSIVE"}

EvidenceOn(t) ==
  {"INCONCLUSIVE"}
    \cup {e \in {"PROVEN_REVERSED"} : effect[t] = "full"}
    \cup {e \in {"PROVEN_NOT_REVERSED"} : effect[t] = "none" /\ t \notin calls}

-----------------------------------------------------------------------------
\* What has been done to an Action by the calls of all its attempts, and
\* whether the provider still holds one of them.
Done(a)    == {t \in Attempts : attempts[t].action = a /\ effect[t] # "none"}
Pending(a) == \E t \in calls : attempts[t].action = a

TrueEffect ==
  [a \in Actions |-> IF Done(a) = {} THEN "none"
                     ELSE effect[CHOOSE t \in Done(a) : TRUE]]
=============================================================================
