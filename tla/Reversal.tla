------------------------------ MODULE Reversal ------------------------------
(***************************************************************************)
(* The reversal service: concurrent Reverse requests over the store, the   *)
(* provider they call, server time, aborted handlers (the client's context *)
(* is cancelled or a statement fails), process crashes and the recovery    *)
(* that runs before the server accepts requests again.                     *)
(*                                                                         *)
(* A request is a thread of database statements: every statement outside   *)
(* Transaction A is a step of its own, in the order of the code, and the   *)
(* steps of other requests may come between any two of them.               *)
(***************************************************************************)
EXTENDS Provider, FiniteSets

CONSTANTS
  KnownEdges,   \* <<parent, dependent>>: dependencies recorded beforehand
  LateEdges,    \* those that someone may record while requests run
  MaxTime, MaxCrashes, MaxAborts   \* bounds of the checked instances

ASSUME EdgesAssumption ==
  KnownEdges \cup LateEdges \subseteq Actions \X Actions
ASSUME BoundsAssumption ==
  MaxTime \in Nat /\ MaxCrashes \in Nat /\ MaxAborts \in Nat

VARIABLES
  pc, req, frame, reply,      \* per request: control, arguments, locals, answer
  deps,                       \* action_dependencies
  now, boot, parking, crashes, aborts

Requests == Attempts
handlers == <<pc, req, frame, reply>>
server   == <<boot, parking, crashes, aborts>>
vars     == <<tables, handlers, provider, deps, now, server>>

\* Mutants: the failure class is stored as the result; an unobserved outcome
\* gives the Action back, or counts as a failure.
ObservedAsClass(o) == o
UnknownIsApplied(o) == IF o \in {"CONFLICT", "RETRYABLE", "OUTCOME_UNKNOWN"}
                       THEN "APPLIED"
                       ELSE IF o = "NON_RETRYABLE" THEN "REVERSE_FAILED" ELSE o
UnknownIsFailed(o) == IF o \in {"CONFLICT", "RETRYABLE"} THEN "APPLIED"
                      ELSE IF o \in {"NON_RETRYABLE", "OUTCOME_UNKNOWN"}
                      THEN "REVERSE_FAILED" ELSE o

\* What execute records on the attempt, and the status it moves the Action to.
ObservedAs(o) == IF o \in ObservedResults THEN o ELSE "REVERSE_FAILED"
StatusAfter(o) == CASE o \in {"CONFLICT", "RETRYABLE"} -> "APPLIED"
                    [] o = "NON_RETRYABLE" -> "REVERSE_FAILED"
                    [] OTHER -> o

\* dependency.ResolvedStatuses: a dependent in one of these no longer blocks.
Resolved == {"REVERSED", "PARTIALLY_REVERSED"}
Dependents(a) == {d \in Actions : <<a, d>> \in deps}

ReplyKinds == {"NONE", "RESULT", "IRREVERSIBLE", "EXPIRED", "IN_PROGRESS",
               "PRECONDITION", "DEPENDENCY", "KEY_CONFLICT", "INTERNAL", "LOST"}
Replies == [kind    : ReplyKinds,
            attempt : Attempts \cup {None},
            outcome : ObservedResults \cup {"OUTCOME_UNKNOWN", None},
            status  : Statuses \cup {None}]
Problem(kind) ==
  [kind |-> kind, attempt |-> None, outcome |-> None, status |-> None]

Frames == [todo    : SUBSET Actions,           \* rows left to expire or check
           edges   : SUBSET Actions,           \* dependents that were read
           cur     : Actions \cup {None},      \* row being expired
           target  : Attempts \cup {None},     \* attempt being replayed
           outcome : Outcomes \cup {None}]     \* of the call or the replay
EmptyFrame ==
  [todo |-> {}, edges |-> {}, cur |-> None, target |-> None, outcome |-> None]

PCs == {"idle", "sweep", "expire", "expired", "key", "read", "edges", "block",
        "begin", "converge", "call", "wait", "residue", "record", "status",
        "history", "poll", "project", "done"}

Init ==
  /\ StoreInit
  /\ pc = [r \in Requests |-> "idle"]
  /\ req = [r \in Requests |-> [action |-> None, key |-> None, now |-> 0]]
  /\ frame = [r \in Requests |-> EmptyFrame]
  /\ reply = [r \in Requests |-> Problem("NONE")]
  /\ ProviderInit
  /\ deps = KnownEdges
  /\ now = 0
  /\ boot = "up" /\ parking = {} /\ crashes = 0 /\ aborts = 0

-----------------------------------------------------------------------------
Goto(r, label) == pc' = [pc EXCEPT ![r] = label]

Respond(r, answered) ==
  /\ Goto(r, "done")
  /\ reply' = [reply EXCEPT ![r] = answered]
  /\ frame' = [frame EXCEPT ![r] = EmptyFrame]

\* The handler goes on: control moves, its locals may change, no reply yet.
Step(r, label, locals) ==
  /\ Goto(r, label)
  /\ frame' = [frame EXCEPT ![r] = locals]
  /\ UNCHANGED reply

A(r) == req[r].action

\* Reverse reads the clock once, on arrival.
Arrive(r) ==
  /\ pc[r] = "idle" /\ boot = "up"
  /\ \E a \in Actions, k \in Keys \cup {None} :
       req' = [req EXCEPT ![r] = [action |-> a, key |-> k, now |-> now]]
  /\ Step(r, "sweep", frame[r])
  /\ UNCHANGED <<tables, provider, deps, now, server>>

\* SweepExpiry: one SELECT, then per row the two statements of UpdateStatus.
AfterSweep(r) == IF req[r].key = None THEN "read" ELSE "key"

SweepSelect(r) ==
  /\ pc[r] = "sweep"
  /\ LET due == Due(req[r].now) IN
       Step(r, IF due = {} THEN AfterSweep(r) ELSE "expire",
            [frame[r] EXCEPT !.todo = due])
  /\ UNCHANGED <<tables, req, provider, deps, now, server>>

SweepExpire(r) ==
  /\ pc[r] = "expire"
  /\ \E a \in frame[r].todo :
       \/ /\ UpdateRow(a, "APPLIED", "EXPIRED")
          /\ Step(r, "expired", [frame[r] EXCEPT !.cur = a])
       \/ /\ status[a] # "APPLIED"
          /\ Respond(r, Problem("INTERNAL"))
          /\ UNCHANGED status
  /\ UNCHANGED <<history, attempts, idem, residue, req, provider, deps, now, server>>

\* Mutant: the sweep writes no history row.
SweepNoHistory(r) ==
  /\ pc[r] = "expired"
  /\ LET rest == frame[r].todo \ {frame[r].cur} IN
       Step(r, IF rest = {} THEN AfterSweep(r) ELSE "expire",
            [frame[r] EXCEPT !.todo = rest, !.cur = None])
  /\ UNCHANGED <<tables, req, provider, deps, now, server>>

SweepHistory(r) ==
  /\ pc[r] = "expired"
  /\ AppendHistory(frame[r].cur, "APPLIED", "EXPIRED")
  /\ LET rest == frame[r].todo \ {frame[r].cur} IN
       Step(r, IF rest = {} THEN AfterSweep(r) ELSE "expire",
            [frame[r] EXCEPT !.todo = rest, !.cur = None])
  /\ UNCHANGED <<status, attempts, idem, residue, req, provider, deps, now, server>>

\* Mutant: the fingerprint of the recorded request is not compared.
UseAnyKeyRecord(r) ==
  Step(r, "poll", [frame[r] EXCEPT !.target = idem[req[r].key].attempt])

\* GetIdempotency, and what a record found for the key leads to.
UseKeyRecord(r) ==
  LET rec == idem[req[r].key] IN
  IF rec.action # A(r) THEN Respond(r, Problem("KEY_CONFLICT"))
  ELSE Step(r, "poll", [frame[r] EXCEPT !.target = rec.attempt])

LookupKey(r) ==
  /\ pc[r] = "key"
  /\ IF idem[req[r].key] = None THEN Step(r, "read", frame[r])
     ELSE UseKeyRecord(r)
  /\ UNCHANGED <<tables, req, provider, deps, now, server>>

\* Mutant: with no record yet, try the transaction again.
ConvergeRetries(r) ==
  /\ pc[r] = "converge"
  /\ IF idem[req[r].key] = None THEN Step(r, "begin", frame[r])
     ELSE UseKeyRecord(r)
  /\ UNCHANGED <<tables, req, provider, deps, now, server>>

\* replayOrConflict, after this request lost an insert race.
Converge(r) ==
  /\ pc[r] = "converge"
  /\ IF idem[req[r].key] = None THEN Respond(r, Problem("IN_PROGRESS"))
     ELSE UseKeyRecord(r)
  /\ UNCHANGED <<tables, req, provider, deps, now, server>>

Refusal(s) == CASE s = "IRREVERSIBLE" -> "IRREVERSIBLE"
                [] s = "EXPIRED" -> "EXPIRED"
                [] s \in {"REVERSING", "OUTCOME_UNKNOWN"} -> "IN_PROGRESS"
                [] OTHER -> "PRECONDITION"

\* GetAction and the status switch: only an APPLIED Action goes on.
ReadAction(r) ==
  /\ pc[r] = "read"
  /\ IF status[A(r)] = "APPLIED" THEN Step(r, "edges", frame[r])
     ELSE Respond(r, Problem(Refusal(status[A(r)])))
  /\ UNCHANGED <<tables, req, provider, deps, now, server>>

\* Dependencies.Blocking: the edges in one query, then each dependent's status.
ReadEdges(r) ==
  /\ pc[r] = "edges"
  /\ Step(r, IF Dependents(A(r)) = {} THEN "begin" ELSE "block",
          [frame[r] EXCEPT !.todo = Dependents(A(r)), !.edges = Dependents(A(r))])
  /\ UNCHANGED <<tables, req, provider, deps, now, server>>

\* Mutant: only APPLIED dependents block, not those being reversed.
CheckAppliedDependent(r) ==
  /\ pc[r] = "block"
  /\ \E d \in frame[r].todo :
       IF status[d] = "APPLIED" THEN Respond(r, Problem("DEPENDENCY"))
       ELSE LET rest == frame[r].todo \ {d} IN
            Step(r, IF rest = {} THEN "begin" ELSE "block",
                 [frame[r] EXCEPT !.todo = rest])
  /\ UNCHANGED <<tables, req, provider, deps, now, server>>

CheckDependent(r) ==
  /\ pc[r] = "block"
  /\ \E d \in frame[r].todo :
       IF status[d] \notin Resolved THEN Respond(r, Problem("DEPENDENCY"))
       ELSE LET rest == frame[r].todo \ {d} IN
            Step(r, IF rest = {} THEN "begin" ELSE "block",
                 [frame[r] EXCEPT !.todo = rest])
  /\ UNCHANGED <<tables, req, provider, deps, now, server>>

-----------------------------------------------------------------------------
\* Transaction A: attempt, status and key commit together or not at all.
KeyTaken(r) == req[r].key # None /\ idem[req[r].key] # None

Begin(r) ==
  /\ pc[r] = "begin"
  /\ CreateAttempt(r, A(r), req[r].now)
  /\ UpdateRow(A(r), "APPLIED", "REVERSING")
  /\ AppendHistory(A(r), "APPLIED", "REVERSING")
  /\ IF req[r].key = None THEN UNCHANGED idem
     ELSE CreateIdempotency(req[r].key, A(r), r)
  /\ Step(r, "call", [frame[r] EXCEPT !.edges = {}])
  /\ UNCHANGED <<residue, req, provider, deps, now, server>>

\* Mutant: the attempt is not created in the transaction, and stays.
BeginLeavesAttempt(r) ==
  /\ pc[r] = "begin"
  /\ \/ /\ HasOpenAttempt(A(r))
        /\ Respond(r, Problem("IN_PROGRESS"))
        /\ UNCHANGED attempts
     \/ /\ CreateAttempt(r, A(r), req[r].now)
        /\ status[A(r)] # "APPLIED"
        /\ Respond(r, Problem("INTERNAL"))
     \/ /\ CreateAttempt(r, A(r), req[r].now)
        /\ status[A(r)] = "APPLIED"
        /\ KeyTaken(r)
        /\ Step(r, "converge", frame[r])
  /\ UNCHANGED <<status, history, idem, residue, req, provider, deps, now, server>>

\* It is rolled back by the first statement that is refused.
BeginRefused(r) ==
  /\ pc[r] = "begin"
  /\ \/ /\ HasOpenAttempt(A(r))
        /\ IF req[r].key = None THEN Respond(r, Problem("IN_PROGRESS"))
           ELSE Step(r, "converge", frame[r])
     \/ /\ ~ HasOpenAttempt(A(r))
        /\ status[A(r)] # "APPLIED"
        /\ Respond(r, Problem("INTERNAL"))
     \/ /\ ~ HasOpenAttempt(A(r))
        /\ status[A(r)] = "APPLIED"
        /\ KeyTaken(r)
        /\ Step(r, "converge", frame[r])
  /\ UNCHANGED <<tables, req, provider, deps, now, server>>

\* execute: read the material, call the provider, record what it answered.
CallProvider(r) ==
  /\ pc[r] = "call"
  /\ Call(r)
  /\ Step(r, "wait", frame[r])
  /\ UNCHANGED <<tables, req, deps, now, server>>

\* The provider acts on a call it holds, whether or not anyone still waits.
ProviderActs(r) == ActOnCall(r)
                   /\ UNCHANGED <<tables, handlers, deps, now, server>>

AfterAnswer(o) ==
  IF o \in {"REVERSED", "PARTIALLY_REVERSED"} THEN "residue" ELSE "record"

ReceiveAnswer(r) ==
  /\ pc[r] = "wait"
  /\ \/ /\ answer[r] \in Outcomes
        /\ Step(r, AfterAnswer(answer[r]), [frame[r] EXCEPT !.outcome = answer[r]])
     \/ /\ answer[r] = "UNRECOGNIZED"
        /\ Respond(r, Problem("INTERNAL"))
  /\ UNCHANGED <<tables, req, provider, deps, now, server>>

\* Mutant: a transport timeout is taken for a failure before execution.
TimeoutIsRetryable(r) ==
  /\ pc[r] = "wait"
  /\ Step(r, "record", [frame[r] EXCEPT !.outcome = "RETRYABLE"])
  /\ UNCHANGED <<tables, req, provider, deps, now, server>>

\* The adapter stops waiting (transport timeout): an unclassified error.
ProviderTimeout(r) ==
  /\ pc[r] = "wait"
  /\ Step(r, "record", [frame[r] EXCEPT !.outcome = "OUTCOME_UNKNOWN"])
  /\ UNCHANGED <<tables, req, provider, deps, now, server>>

\* A partial reversal leaves residue; a full one may.
RecordResidue(r) ==
  /\ pc[r] = "residue"
  /\ \/ residue' = residue \cup {r}
     \/ frame[r].outcome = "REVERSED" /\ UNCHANGED residue
  /\ Step(r, "record", frame[r])
  /\ UNCHANGED <<status, history, attempts, idem, req, provider, deps, now, server>>

\* Mutant: an unobserved outcome is not parked.
RecordOnlyConclusive(r) ==
  /\ pc[r] = "record"
  /\ IF frame[r].outcome \in Conclusive
     THEN ConcludeAttempt(r, ObservedAs(frame[r].outcome))
     ELSE UNCHANGED attempts
  /\ Step(r, "status", frame[r])
  /\ UNCHANGED <<status, history, idem, residue, req, provider, deps, now, server>>

RecordAttempt(r) ==
  /\ pc[r] = "record"
  /\ IF frame[r].outcome \in Conclusive
     THEN ConcludeAttempt(r, ObservedAs(frame[r].outcome))
     ELSE MarkAwaitingReconciliation(r)
  /\ Step(r, "status", frame[r])
  /\ UNCHANGED <<status, history, idem, residue, req, provider, deps, now, server>>

RecordStatus(r) ==
  /\ pc[r] = "status"
  /\ \/ /\ UpdateRow(A(r), "REVERSING", StatusAfter(frame[r].outcome))
        /\ Step(r, "history", frame[r])
     \/ /\ status[A(r)] # "REVERSING"
        /\ Respond(r, Problem("INTERNAL"))
        /\ UNCHANGED status
  /\ UNCHANGED <<history, attempts, idem, residue, req, provider, deps, now, server>>

RecordHistory(r) ==
  /\ pc[r] = "history"
  /\ LET o == frame[r].outcome IN
       /\ AppendHistory(A(r), "REVERSING", StatusAfter(o))
       /\ Respond(r, [kind |-> "RESULT", attempt |-> r, status |-> StatusAfter(o),
                      outcome |-> IF o \in Conclusive THEN ObservedAs(o) ELSE o])
  /\ UNCHANGED <<status, attempts, idem, residue, req, provider, deps, now, server>>

\* replay: poll the attempt while it is RUNNING, at most two seconds, then read
\* the Action.  Reading a RUNNING attempt here is the deadline having passed.
PollAttempt(r) ==
  /\ pc[r] = "poll"
  /\ Step(r, "project",
          [frame[r] EXCEPT !.outcome = RecordedOutcome(frame[r].target)])
  /\ UNCHANGED <<tables, req, provider, deps, now, server>>

ProjectAction(r) ==
  /\ pc[r] = "project"
  /\ Respond(r, [kind |-> "RESULT", attempt |-> frame[r].target,
                 outcome |-> frame[r].outcome, status |-> status[A(r)]])
  /\ UNCHANGED <<tables, req, provider, deps, now, server>>

-----------------------------------------------------------------------------
InFlight(r) == pc[r] \notin {"idle", "done"}

\* The request's context is cancelled or a statement fails: the handler stops
\* where it is.  A transaction that is not committed leaves nothing behind.
Abort(r) ==
  /\ InFlight(r) /\ aborts < MaxAborts
  /\ aborts' = aborts + 1
  /\ Respond(r, Problem("LOST"))
  /\ UNCHANGED <<tables, req, provider, deps, now, boot, parking, crashes>>

\* The process dies with every handler, also while it recovers.
Crash ==
  /\ crashes < MaxCrashes
  /\ crashes' = crashes + 1
  /\ boot' = "scan" /\ parking' = {}
  /\ pc' = [r \in Requests |-> IF InFlight(r) THEN "done" ELSE pc[r]]
  /\ reply' = [r \in Requests |->
                 IF InFlight(r) THEN Problem("LOST") ELSE reply[r]]
  /\ frame' = [r \in Requests |-> EmptyFrame]
  /\ UNCHANGED <<tables, req, provider, deps, now, aborts>>

\* Mutant: the server comes up without recovery.
SkipRecovery ==
  /\ boot = "scan"
  /\ parking' = {} /\ boot' = "up"
  /\ UNCHANGED <<tables, handlers, provider, deps, now, crashes, aborts>>

\* RecoverAll, before the server listens: park every RUNNING attempt.  The
\* attempts still to park are in parking; boot is the next statement.
RecoverScan ==
  /\ boot = "scan"
  /\ parking' = RunningAttempts
  /\ boot' = IF parking' = {} THEN "up" ELSE "mark"
  /\ UNCHANGED <<tables, handlers, provider, deps, now, crashes, aborts>>

RecoverMark(t) ==
  /\ boot = "mark" /\ t \in parking
  /\ MarkAwaitingReconciliation(t)
  /\ boot' = "status"
  /\ UNCHANGED <<status, history, idem, residue, handlers, provider, deps, now,
                 parking, crashes, aborts>>

\* Mutant: recovery takes an interrupted call for a failed one.
RecoverAsFailed(t) ==
  /\ boot = "status" /\ t \in parking \ RunningAttempts
  /\ UpdateRow(attempts[t].action, "REVERSING", "REVERSE_FAILED")
  /\ boot' = "history"
  /\ UNCHANGED <<history, attempts, idem, residue, handlers, provider, deps, now,
                 parking, crashes, aborts>>

\* The attempt just marked is the one of the parking list no longer RUNNING.
\* Were its Action not REVERSING, the process would exit and start over.
RecoverStatus(t) ==
  /\ boot = "status" /\ t \in parking \ RunningAttempts
  /\ IF status[attempts[t].action] = "REVERSING"
     THEN /\ UpdateRow(attempts[t].action, "REVERSING", "OUTCOME_UNKNOWN")
          /\ boot' = "history"
     ELSE boot' = "scan" /\ UNCHANGED status
  /\ UNCHANGED <<history, attempts, idem, residue, handlers, provider, deps, now,
                 parking, crashes, aborts>>

RecoverHistory(t) ==
  /\ boot = "history" /\ t \in parking \ RunningAttempts
  /\ AppendHistory(attempts[t].action, "REVERSING", "OUTCOME_UNKNOWN")
  /\ parking' = parking \ {t}
  /\ boot' = IF parking' = {} THEN "up" ELSE "mark"
  /\ UNCHANGED <<status, attempts, idem, residue, handlers, provider, deps, now,
                 crashes, aborts>>

Recover == \/ RecoverScan
           \/ \E t \in Attempts :
                RecoverMark(t) \/ RecoverStatus(t) \/ RecoverHistory(t)

\* The wall clock moves on, and is sometimes set back.
Tick == /\ now' \in 0..MaxTime \ {now}
        /\ UNCHANGED <<tables, handlers, provider, deps, server>>

\* Someone records a dependency: an application call or a later Update.
AddDependency ==
  /\ \E e \in LateEdges \ deps : deps' = deps \cup {e}
  /\ UNCHANGED <<tables, handlers, provider, now, server>>

Handle(r) ==
  \/ SweepSelect(r) \/ SweepExpire(r) \/ SweepHistory(r)
  \/ LookupKey(r) \/ Converge(r) \/ ReadAction(r) \/ ReadEdges(r)
  \/ CheckDependent(r) \/ Begin(r) \/ BeginRefused(r) \/ CallProvider(r)
  \/ ReceiveAnswer(r) \/ ProviderTimeout(r) \/ RecordResidue(r)
  \/ RecordAttempt(r) \/ RecordStatus(r) \/ RecordHistory(r)
  \/ PollAttempt(r) \/ ProjectAction(r)

\* Every request is answered and the server is up: nothing is left to do.
AllAnswered == /\ boot = "up" /\ \A r \in Requests : pc[r] = "done"
               /\ UNCHANGED vars

Next == \/ \E r \in Requests :
             Arrive(r) \/ Handle(r) \/ ProviderActs(r) \/ Abort(r)
        \/ Crash \/ Recover \/ Tick \/ AddDependency \/ AllAnswered

Spec == Init /\ [][Next]_vars

\* The HTTP binding's status line for an answer that reaches the client.
StatusFor(kind) == CASE kind = "RESULT" -> 200
                     [] kind = "EXPIRED" -> 410
                     [] kind \in {"IRREVERSIBLE", "PRECONDITION"} -> 422
                     [] kind \in {"IN_PROGRESS", "KEY_CONFLICT", "DEPENDENCY"} -> 409
                     [] OTHER -> 500

-----------------------------------------------------------------------------
(* Properties *)

HandlerTypeOK ==
  /\ pc \in [Requests -> PCs]
  /\ req \in [Requests -> [action : Actions \cup {None},
                           key : Keys \cup {None}, now : Nat]]
  /\ frame \in [Requests -> Frames]
  /\ reply \in [Requests -> Replies]

ServerTypeOK ==
  /\ deps \subseteq KnownEdges \cup LateEdges
  /\ now \in Nat /\ crashes \in Nat /\ aborts \in Nat
  /\ boot \in {"up", "scan", "mark", "status", "history"}
  /\ parking \subseteq Attempts

\* Every variable holds a value of its column's or local's type: what the code
\* writes to a table passes the table's CHECK constraints.
TypeOK == StoreTypeOK /\ ProviderTypeOK /\ HandlerTypeOK /\ ServerTypeOK

\* A RUNNING attempt's Action is REVERSING: the transition by which recovery
\* parks it can never be refused, so a restart always gets the server up.
RunningIsReversing ==
  \A t \in Attempts :
    attempts[t].state = "RUNNING" => status[attempts[t].action] = "REVERSING"

\* An Action with an attempt that is not concluded has just that one and is in
\* no status from which another reversal, or its expiry, could start (I-22).
OpenAttemptOwnsAction ==
  \A t \in Attempts : Open(t) =>
    /\ status[attempts[t].action] \in {"REVERSING", "OUTCOME_UNKNOWN"}
    /\ \A u \in Attempts :
         Open(u) /\ attempts[u].action = attempts[t].action => u = t

\* The published status never contradicts the provider (I-5): an outcome is
\* claimed only when it is the true one, and APPLIED, REVERSE_FAILED and
\* EXPIRED mean that no call reversed the Action or still could.
StatusHonest ==
  \A a \in Actions :
    /\ status[a] = "REVERSED" => \E t \in Done(a) : effect[t] = "full"
    /\ status[a] = "PARTIALLY_REVERSED" =>
         \E t \in Done(a) : effect[t] = "partial" /\ t \in residue
    /\ status[a] \in {"APPLIED", "REVERSE_FAILED", "EXPIRED", "IRREVERSIBLE"}
         => Done(a) = {} /\ ~ Pending(a)

\* The provider reverses an Action at most once, over all its attempts, all
\* requests and retries, crashes and late calls.
EffectOnce ==
  \A a \in Actions : \A t, u \in Done(a) : t = u

\* Requests that carry the same key never get an attempt each (I-21), also
\* when the first ended in CONFLICT and the Action is APPLIED again.
KeyBindsOneAttempt ==
  \A r, s \in Requests :
    /\ attempts[r].state # "NONE" /\ attempts[s].state # "NONE"
    /\ req[r].key # None /\ req[r].key = req[s].key
    => r = s

\* A conclusive outcome told to a client is the durable one of an attempt on
\* the Action it asked about: its own, or the one its key is bound to.
RepliesRecorded ==
  \A r \in Requests : reply[r].outcome \in ObservedResults =>
    LET t == reply[r].attempt IN
      /\ attempts[t].observed = reply[r].outcome
      /\ attempts[t].action = A(r)
      /\ t = r \/ (req[r].key # None /\ req[r].key = req[t].key)

\* An attempt requested after the window ended exists only where an earlier
\* attempt was refused and gave the Action back: a sweep cannot be outrun.
LateOnlyAfterReturn ==
  \A t \in Attempts :
    /\ attempts[t].state # "NONE"
    /\ attempts[t].requestedAt >= ExpiresAt[attempts[t].action]
    => \E u \in Attempts \ {t} :
         /\ attempts[u].action = attempts[t].action
         /\ attempts[u].observed \in {"CONFLICT", "REVERSE_FAILED"}

\* While nothing crashes or aborts, the history is a complete ledger: counting
\* the rows still to be inserted, rows into and out of a status balance with
\* the status the Action started and is in.
Rows(a, from, to) ==
  Cardinality({i \in 1..Len(history[a]) : history[a][i] = <<from, to>>})
    + Cardinality({r \in Requests :
        \/ pc[r] = "history" /\ A(r) = a
             /\ <<from, to>> = <<"REVERSING", StatusAfter(frame[r].outcome)>>
        \/ pc[r] = "expired" /\ frame[r].cur = a
             /\ <<from, to>> = <<"APPLIED", "EXPIRED">>})
HistoryBalanced ==
  crashes + aborts = 0 =>
  \A a \in Actions :
    LET begun == Rows(a, "APPLIED", "REVERSING")
        ended(s) == Rows(a, "REVERSING", s) IN
    /\ status[a] = "APPLIED" => begun = ended("APPLIED")
    /\ status[a] = "REVERSING" => begun = ended("APPLIED") + 1
    /\ status[a] \in {"REVERSED", "PARTIALLY_REVERSED", "REVERSE_FAILED",
                      "OUTCOME_UNKNOWN"}
         => ended(status[a]) = 1 /\ begun = ended("APPLIED") + 1
    /\ status[a] = "EXPIRED" =>
         Rows(a, "APPLIED", "EXPIRED") = 1 /\ begun = ended("APPLIED")

\* History rows are inserted after their updates, so two may change places, but
\* only the row that gives an Action back can be late: a row out of REVERSING
\* follows an unmatched row into it, and after a row into any other status
\* come at most rows that gave the Action back before.
HistoryOrder ==
  \A a \in Actions :
    LET h == history[a]
        count(n, row) == Cardinality({m \in 1..n : h[m] = row})
        givenBack == <<"REVERSING", "APPLIED">>
    IN \A n \in 1..Len(h) :
         /\ h[n][1] = "REVERSING" =>
              count(n - 1, givenBack) < count(n, <<"APPLIED", "REVERSING">>)
         /\ h[n][2] \notin {"APPLIED", "REVERSING"} =>
              \A m \in n + 1..Len(h) : h[m] = givenBack

\* A reversal never begins over an active dependent that its request has read
\* (I-12, I-19): what was resolved when its turn came to be read is resolved
\* still when Transaction A commits.
NoBeginWhileBlocked ==
  [][\A r \in Requests :
       pc[r] = "begin" /\ pc'[r] = "call" =>
         \A d \in frame[r].edges : status[d] \in Resolved]_vars

\* Every exit path concludes or parks the attempt: once a request is answered
\* and the server is up, its attempt is not RUNNING.
HandlersConclude ==
  \A r \in Requests :
    boot = "up" /\ pc[r] = "done" => attempts[r].state # "RUNNING"

\* What the exit paths guarantee while no request is cut off: an attempt is left
\* RUNNING only by a provider's answer that execute does not know, and it then
\* keeps its Action, so that no other attempt begins before a restart.
OnlyUnrecognizedStays ==
  aborts = 0 =>
    \A r \in Requests :
      boot = "up" /\ pc[r] = "done" /\ attempts[r].state = "RUNNING" =>
        /\ answer[r] = "UNRECOGNIZED"
        /\ status[A(r)] = "REVERSING"
        /\ \A s \in Requests \ {r} : A(s) = A(r) => pc[s] \notin {"call", "wait"}

\* When nothing is in flight, REVERSING means that some attempt is open.
ReversingHasOpenAttempt ==
  boot = "up" /\ (\A r \in Requests : ~ InFlight(r)) =>
    \A a \in Actions : status[a] = "REVERSING" => HasOpenAttempt(a)

\* A status line that blames the client means that the request has left
\* nothing behind: no attempt, and no use of its key.
ClientErrorMeansUntouched ==
  \A r \in Requests :
    reply[r].kind \notin {"NONE", "LOST"} /\ StatusFor(reply[r].kind) \in 400..499
    => /\ attempts[r].state = "NONE"
       /\ \A k \in Keys : idem[k] # None => idem[k].attempt # r

\* A reversal is accepted only before the end of the window (I-8).
WindowRespected ==
  \A t \in Attempts : attempts[t].state # "NONE" =>
    attempts[t].requestedAt < ExpiresAt[attempts[t].action]

\* Every request is answered: no lost race leaves a handler waiting forever.
EveryRequestAnswered ==
  \A r \in Requests : InFlight(r) ~> pc[r] = "done"

\* An attempt does not stay RUNNING: its handler concludes or parks it, or the
\* recovery after a crash parks it.
EveryAttemptSettles ==
  \A t \in Attempts :
    attempts[t].state = "RUNNING" ~> attempts[t].state # "RUNNING"

-----------------------------------------------------------------------------
(* Refinement: the service implements the contract. *)

Contract == INSTANCE ReversalContract WITH effect <- TrueEffect

\* Over all requests, calls, crashes and recoveries, status and true effect of
\* every Action move only as the contract allows.
ImplementsContract == Contract!Spec
=============================================================================
