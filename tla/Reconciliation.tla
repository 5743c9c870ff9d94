--------------------------- MODULE Reconciliation ---------------------------
(***************************************************************************)
(* The reconciliation service: rounds that try to resolve an uncertain     *)
(* attempt by a read-only provider lookup.  Rounds run concurrently and    *)
(* each is a thread of statements, like a Reverse request.  The module has *)
(* the steps of a round; module Rop runs them beside the rest.             *)
(***************************************************************************)
EXTENDS Provider

CONSTANT Rounds       \* the Reconcile calls

VARIABLES
  rpc,            \* per round: control
  round,          \* per round: the Action, what was read, the evidence
  told,           \* per round: the result returned
  observations    \* reconciliation_observations: evidence kinds per attempt

rounds == <<rpc, round, told>>
\* What a round does not write except where it says so.
roundsOnly == <<tables, observations>>

RoundPCs == {"idle", "action", "open", "latest", "lookup", "observe", "conclude",
             "status", "history", "reread", "reply", "done"}

RoundRows == [action   : Actions \cup {None},
              seen     : Statuses \cup {None},      \* status when first read
              attempt  : Attempts \cup {None},
              evidence : Evidence \cup {None},
              outcome  : ObservedResults \cup {"OUTCOME_UNKNOWN", None}]
EmptyRound == [action |-> None, seen |-> None, attempt |-> None,
               evidence |-> None, outcome |-> None]

ToldKinds == {"NONE", "RESULT", "PRECONDITION", "INTERNAL", "LOST"}
ToldRows == [kind    : ToldKinds,
             attempt : Attempts \cup {None},
             outcome : ObservedResults \cup {"OUTCOME_UNKNOWN", None},
             status  : Statuses \cup {None}]
Refused(kind) ==
  [kind |-> kind, attempt |-> None, outcome |-> None, status |-> None]

ReconcileTypeOK ==
  /\ rpc \in [Rounds -> RoundPCs]
  /\ round \in [Rounds -> RoundRows]
  /\ told \in [Rounds -> ToldRows]
  /\ observations \in [Attempts -> SUBSET Evidence]

ReconcileInit ==
  /\ rpc = [c \in Rounds |-> "idle"]
  /\ round = [c \in Rounds |-> EmptyRound]
  /\ told = [c \in Rounds |-> Refused("NONE")]
  /\ observations = [t \in Attempts |-> {}]

-----------------------------------------------------------------------------
Continue(c, label, locals) ==
  /\ rpc' = [rpc EXCEPT ![c] = label]
  /\ round' = [round EXCEPT ![c] = locals]
  /\ UNCHANGED told

Tell(c, result) ==
  /\ rpc' = [rpc EXCEPT ![c] = "done"]
  /\ told' = [told EXCEPT ![c] = result]
  /\ UNCHANGED round

StartRound(c) ==
  /\ rpc[c] = "idle"
  /\ \E a \in Actions : Continue(c, "action", [round[c] EXCEPT !.action = a])
  /\ UNCHANGED roundsOnly

RoundReadsAction(c) ==
  /\ rpc[c] = "action"
  /\ Continue(c, "open", [round[c] EXCEPT !.seen = status[round[c].action]])
  /\ UNCHANGED roundsOnly

\* GetOpenAttempt, after the Action was read.
RoundReadsOpenAttempt(c) ==
  /\ rpc[c] = "open"
  /\ \/ \E t \in Attempts :
          /\ attempts[t].action = round[c].action
          /\ attempts[t].state = "AWAITING_RECONCILIATION"
          /\ IF round[c].seen = "OUTCOME_UNKNOWN"
             THEN Continue(c, "lookup", [round[c] EXCEPT !.attempt = t])
             ELSE Tell(c, Refused("INTERNAL"))
     \/ /\ \A t \in Attempts : attempts[t].action = round[c].action
             => attempts[t].state # "AWAITING_RECONCILIATION"
        /\ Continue(c, "latest", round[c])
  /\ UNCHANGED roundsOnly

\* GetLatestAttempt: by requested_at, ties by a random id.
Latest(a) ==
  {t \in Attempts : /\ attempts[t].action = a
                    /\ \A u \in Attempts : attempts[u].action = a
                         => attempts[u].requestedAt <= attempts[t].requestedAt}

RoundReplaysLatest(c) ==
  /\ rpc[c] = "latest"
  /\ IF Latest(round[c].action) = {} THEN Tell(c, Refused("PRECONDITION"))
     ELSE \E t \in Latest(round[c].action) :
            Tell(c, [kind |-> "RESULT", attempt |-> t, status |-> round[c].seen,
                     outcome |-> RecordedOutcome(t)])
  /\ UNCHANGED roundsOnly

\* Mutant: a lookup that finds nothing counts as proof.
LookupGuesses(c) ==
  /\ rpc[c] = "lookup"
  /\ \E e \in EvidenceOn(round[c].attempt) \cup {"PROVEN_NOT_REVERSED"} :
       Continue(c, "observe", [round[c] EXCEPT !.evidence = e])
  /\ UNCHANGED roundsOnly

\* ReconcileFunc: an error or an unproven answer is inconclusive.
Lookup(c) ==
  /\ rpc[c] = "lookup"
  /\ \E e \in EvidenceOn(round[c].attempt) :
       Continue(c, "observe", [round[c] EXCEPT !.evidence = e])
  /\ UNCHANGED roundsOnly

\* Mutant: the observation is not recorded before the transition.
ForgetObservation(c) ==
  /\ rpc[c] = "observe"
  /\ Continue(c, IF round[c].evidence = "INCONCLUSIVE" THEN "reread"
                 ELSE "conclude", round[c])
  /\ UNCHANGED roundsOnly

RecordObservation(c) ==
  /\ rpc[c] = "observe"
  /\ observations' = [observations EXCEPT
                        ![round[c].attempt] = @ \cup {round[c].evidence}]
  /\ Continue(c, IF round[c].evidence = "INCONCLUSIVE" THEN "reread"
                 ELSE "conclude", round[c])
  /\ UNCHANGED tables

Proves(e) == IF e = "PROVEN_REVERSED" THEN "REVERSED" ELSE "REVERSE_FAILED"

\* Mutant: the evidence is stored as the result.
ConcludeWithEvidence(c) ==
  /\ rpc[c] = "conclude"
  /\ ConcludeAttempt(round[c].attempt, round[c].evidence)
  /\ Continue(c, "status", round[c])
  /\ UNCHANGED <<status, history, idem, residue, observations>>

\* Mutant: a round leaves the attempt to another one that it sees at work on it.
LeaveToOther(c) ==
  /\ rpc[c] = "conclude"
  /\ IF \E d \in Rounds \ {c} : /\ round[d].attempt = round[c].attempt
                                /\ rpc[d] \notin {"idle", "done"}
     THEN UNCHANGED attempts /\ Continue(c, "reread", round[c])
     ELSE /\ ConcludeAttempt(round[c].attempt, Proves(round[c].evidence))
          /\ Continue(c, "status", round[c])
  /\ UNCHANGED <<status, history, idem, residue, observations>>

RoundConcludes(c) ==
  /\ rpc[c] = "conclude"
  /\ ConcludeAttempt(round[c].attempt, Proves(round[c].evidence))
  /\ Continue(c, "status", round[c])
  /\ UNCHANGED <<status, history, idem, residue, observations>>

\* Mutant: an update that matches no row is tried again until it does.
UpdateUntilMatched(c) ==
  /\ rpc[c] = "status"
  /\ \/ /\ UpdateRow(round[c].action, "OUTCOME_UNKNOWN", Proves(round[c].evidence))
        /\ Continue(c, "history", round[c])
     \/ /\ status[round[c].action] # "OUTCOME_UNKNOWN"
        /\ Continue(c, "conclude", round[c])
        /\ UNCHANGED status
  /\ UNCHANGED <<history, attempts, idem, residue, observations>>

RoundUpdatesStatus(c) ==
  /\ rpc[c] = "status"
  /\ \/ /\ UpdateRow(round[c].action, "OUTCOME_UNKNOWN", Proves(round[c].evidence))
        /\ Continue(c, "history", round[c])
     \/ /\ status[round[c].action] # "OUTCOME_UNKNOWN"
        /\ Tell(c, Refused("INTERNAL"))
        /\ UNCHANGED status
  /\ UNCHANGED <<history, attempts, idem, residue, observations>>

RoundAppendsHistory(c) ==
  /\ rpc[c] = "history"
  /\ AppendHistory(round[c].action, "OUTCOME_UNKNOWN", Proves(round[c].evidence))
  /\ Continue(c, "reread", round[c])
  /\ UNCHANGED <<status, attempts, idem, residue, observations>>

RoundRereadsAttempt(c) ==
  /\ rpc[c] = "reread"
  /\ Continue(c, "reply", [round[c] EXCEPT
                             !.outcome = RecordedOutcome(round[c].attempt)])
  /\ UNCHANGED roundsOnly

RoundReplies(c) ==
  /\ rpc[c] = "reply"
  /\ Tell(c, [kind |-> "RESULT", attempt |-> round[c].attempt,
              outcome |-> round[c].outcome, status |-> status[round[c].action]])
  /\ UNCHANGED roundsOnly

RoundAborts(c) ==
  /\ rpc[c] \notin {"idle", "done"}
  /\ Tell(c, Refused("LOST"))
  /\ UNCHANGED roundsOnly

\* A process crash ends every round that runs.
RoundsCrash ==
  /\ rpc' = [c \in Rounds |-> IF rpc[c] = "idle" THEN "idle" ELSE "done"]
  /\ told' = [c \in Rounds |-> IF rpc[c] \in {"idle", "done"} THEN told[c]
                               ELSE Refused("LOST")]
  /\ UNCHANGED <<round, observations>>

RoundStep(c) ==
  \/ RoundReadsAction(c) \/ RoundReadsOpenAttempt(c) \/ RoundReplaysLatest(c)
  \/ Lookup(c) \/ RecordObservation(c) \/ RoundConcludes(c)
  \/ RoundUpdatesStatus(c) \/ RoundAppendsHistory(c)
  \/ RoundRereadsAttempt(c) \/ RoundReplies(c)
=============================================================================
