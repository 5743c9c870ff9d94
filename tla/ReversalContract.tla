-------------------------- MODULE ReversalContract --------------------------
(***************************************************************************)
(* What ROP promises about one Action, with no requests, attempts, keys or *)
(* tables: the status it publishes never contradicts what the provider     *)
(* really did, and the provider acts at most once per Action.              *)
(*                                                                         *)
(* effect[a] is the truth, kept by the provider; status[a] is what ROP     *)
(* says of it.  A status that claims an outcome is taken only when it is   *)
(* the true one; otherwise the Action stays OUTCOME_UNKNOWN.               *)
(***************************************************************************)
EXTENDS ActionStates

CONSTANT Actions
VARIABLES status, effect

vars == <<status, effect>>

Effects == {"none", "full", "partial"}

\* The effects a settled status admits to.
Justifies(e) == CASE e = "full"    -> {"REVERSED"}
                  [] e = "partial" -> {"PARTIALLY_REVERSED"}
                  [] e = "none"    -> {"REVERSE_FAILED", "APPLIED"}

Init == /\ status \in [Actions -> {"APPLIED", "IRREVERSIBLE"}]
        /\ effect = [a \in Actions |-> "none"]

Move(a, from, to) == /\ status[a] = from
                     /\ status' = [status EXCEPT ![a] = to]
                     /\ UNCHANGED effect

Expire(a) == Move(a, "APPLIED", "EXPIRED")

Begin(a) == Move(a, "APPLIED", "REVERSING")

\* The provider reverses the Action's business effect, once, while a reversal
\* is in flight or its outcome is unknown.
Act(a) == /\ status[a] \in {"REVERSING", "OUTCOME_UNKNOWN"}
          /\ effect[a] = "none"
          /\ \E e \in {"full", "partial"} : effect' = [effect EXCEPT ![a] = e]
          /\ UNCHANGED status

Settle(a) == \/ \E s \in Justifies(effect[a]) : Move(a, "REVERSING", s)
             \/ Move(a, "REVERSING", "OUTCOME_UNKNOWN")

\* Evidence resolves uncertainty; it never makes the Action APPLIED again.
Resolve(a) == \E s \in Justifies(effect[a]) \ {"APPLIED"} :
                 Move(a, "OUTCOME_UNKNOWN", s)

Next == \E a \in Actions :
           Expire(a) \/ Begin(a) \/ Act(a) \/ Settle(a) \/ Resolve(a)

Spec == Init /\ [][Next]_vars
=============================================================================
