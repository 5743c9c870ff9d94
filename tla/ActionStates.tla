---------------------------- MODULE ActionStates ----------------------------
(***************************************************************************)
(* The Action state machine: the eight statuses and the single table of    *)
(* permitted transitions that every status change is validated against.    *)
(***************************************************************************)

Statuses == {"APPLIED", "REVERSING", "REVERSED", "PARTIALLY_REVERSED",
             "REVERSE_FAILED", "OUTCOME_UNKNOWN", "EXPIRED", "IRREVERSIBLE"}

Transitions ==
       {<<"APPLIED", to>> : to \in {"REVERSING", "EXPIRED"}}
  \cup {<<"REVERSING", to>> : to \in {"REVERSED", "PARTIALLY_REVERSED",
           "REVERSE_FAILED", "OUTCOME_UNKNOWN", "APPLIED"}}
  \cup {<<"OUTCOME_UNKNOWN", to>> : to \in {"REVERSED", "PARTIALLY_REVERSED",
           "REVERSE_FAILED", "REVERSING"}}

CanTransition(from, to) == <<from, to>> \in Transitions
=============================================================================
