------------------------------- MODULE Store -------------------------------
(***************************************************************************)
(* The durable tables of the SQLite store and the statements the services  *)
(* run on them.  The pool holds one connection, so a statement outside a   *)
(* transaction is one atomic step, and so is a whole transaction.          *)
(*                                                                         *)
(* A Reverse call creates at most one attempt, so the random attempt id is *)
(* represented by the call that drew it: Attempts is the set of calls.     *)
(* There is one scope; times are naturals; a key stands for its hash.      *)
(***************************************************************************)
EXTENDS ActionStates, Naturals, Sequences

CONSTANTS Actions, Attempts, Keys, None,
          ExpiresAt          \* ExpiresAt[a]: end of the eligibility window

ASSUME ExpiresAtAssumption == ExpiresAt \in [Actions -> Nat]
VARIABLES
  status,     \* actions.status
  history,    \* action_status_history: per Action, the rows in order
  attempts,   \* reversal_attempts
  idem,       \* idempotency_keys: per key, the attempt it is bound to
  residue     \* attempts whose DISCOVERED residue rows are recorded

tables == <<status, history, attempts, idem, residue>>

ExecutionStates == {"RUNNING", "AWAITING_RECONCILIATION", "CONCLUDED"}
ObservedResults ==
  {"REVERSED", "PARTIALLY_REVERSED", "REVERSE_FAILED", "CONFLICT"}

AttemptRows == [action      : Actions \cup {None},
                state       : ExecutionStates \cup {"NONE"},
                observed    : ObservedResults \cup {None},
                requestedAt : Nat]
NoAttempt == [action |-> None, state |-> "NONE", observed |-> None,
              requestedAt |-> 0]

IdempotencyRows == [action : Actions, attempt : Attempts]

\* None is SQL's NULL, and no value of a column or row that may be missing.
ASSUME NoneAssumption ==
  None \notin Actions \cup Attempts \cup Keys \cup Statuses
              \cup ObservedResults \cup IdempotencyRows

StoreTypeOK ==
  /\ status \in [Actions -> Statuses]
  /\ history \in [Actions -> Seq(Statuses \X Statuses)]
  /\ attempts \in [Attempts -> AttemptRows]
  /\ idem \in [Keys -> IdempotencyRows \cup {None}]
  /\ residue \subseteq Attempts

StoreInit ==
  /\ status \in [Actions -> {"APPLIED", "IRREVERSIBLE"}]
  /\ history = [a \in Actions |-> <<>>]
  /\ attempts = [t \in Attempts |-> NoAttempt]
  /\ idem = [k \in Keys |-> None]
  /\ residue = {}

-----------------------------------------------------------------------------
\* Mutant: the UPDATE forgets AND status = ?.
UpdateRowBlindly(a, from, to) ==
  CanTransition(from, to) /\ status' = [status EXCEPT ![a] = to]

\* UpdateStatus is two statements; a transaction runs both in one step.
UpdateRow(a, from, to) ==
  /\ CanTransition(from, to)
  /\ status[a] = from
  /\ status' = [status EXCEPT ![a] = to]

AppendHistory(a, from, to) ==
  history' = [history EXCEPT ![a] = Append(@, <<from, to>>)]

\* Mutant: the boundary instant is still eligible.
DueAfterwards(at) ==
  {a \in Actions : status[a] = "APPLIED" /\ ExpiresAt[a] < at}

\* What SweepExpiry selects: the boundary itself is expired.
Due(at) == {a \in Actions : status[a] = "APPLIED" /\ ExpiresAt[a] <= at}

\* The partial unique index idx_open_attempt rejects a second one.
Open(t) == attempts[t].state \in {"RUNNING", "AWAITING_RECONCILIATION"}
HasOpenAttempt(a) == \E t \in Attempts : attempts[t].action = a /\ Open(t)

CreateAttempt(t, a, at) ==
  /\ ~ HasOpenAttempt(a)
  /\ attempts' = [attempts EXCEPT ![t] =
       [action |-> a, state |-> "RUNNING", observed |-> None,
        requestedAt |-> at]]

\* Neither statement reports that it matched no row.
ConcludeAttempt(t, result) ==
  attempts' = IF attempts[t].state = "CONCLUDED" THEN attempts
              ELSE [attempts EXCEPT ![t] =
                      [@ EXCEPT !.state = "CONCLUDED", !.observed = result]]

MarkAwaitingReconciliation(t) ==
  attempts' = IF attempts[t].state # "RUNNING" THEN attempts
              ELSE [attempts EXCEPT ![t] =
                      [@ EXCEPT !.state = "AWAITING_RECONCILIATION"]]

RunningAttempts == {t \in Attempts : attempts[t].state = "RUNNING"}

\* Mutant: an attempt without a result is shown as failed.
UnobservedIsFailed(t) == IF attempts[t].observed = None THEN "REVERSE_FAILED"
                         ELSE attempts[t].observed

\* The outcome ReconstructResult reads off a stored attempt.
RecordedOutcome(t) == IF attempts[t].observed = None THEN "OUTCOME_UNKNOWN"
                      ELSE attempts[t].observed

\* Mutant: no unique index on (scope, key_hash).
ReplaceIdempotency(k, a, t) ==
  idem' = [idem EXCEPT ![k] = [action |-> a, attempt |-> t]]

CreateIdempotency(k, a, t) ==
  /\ idem[k] = None
  /\ idem' = [idem EXCEPT ![k] = [action |-> a, attempt |-> t]]
=============================================================================
