-------------------------- MODULE Reversal_proofs --------------------------
(***************************************************************************)
(* Theorems about Reversal, for any sets of Actions, calls and keys, any   *)
(* windows, any bounds and any provider that keeps its contract.           *)
(***************************************************************************)
EXTENDS Reversal, TLAPS

USE DEF Requests

\* What a handler's arguments and locals hold at the labels that read them.
LocalsFit(label, args, locals) ==
  /\ label \notin {"idle", "done"} => args.action \in Actions
  /\ label \in {"key", "converge"} => args.key \in Keys
  /\ label = "expired" => locals.cur \in Actions
  /\ label \in {"poll", "project"} => locals.target \in Attempts
  /\ label = "project" =>
       locals.outcome \in ObservedResults \cup {"OUTCOME_UNKNOWN"}
  /\ label \in {"residue", "record", "status", "history"} =>
       locals.outcome \in Outcomes

HandlersOK ==
  HandlerTypeOK /\ \A r \in Requests : LocalsFit(pc[r], req[r], frame[r])

\* A stored attempt names an Action.
StoreOK ==
  /\ StoreTypeOK
  /\ \A t \in Attempts :
       attempts[t].state # "NONE" => attempts[t].action \in Actions

TypeInv == StoreOK /\ ProviderTypeOK /\ HandlersOK /\ ServerTypeOK

\* A handler between Transaction A and its status transition works on the
\* attempt it created: first RUNNING, then concluded or parked while the
\* Action is still REVERSING.
OwnsAttempt(r) ==
  /\ pc[r] \in {"call", "wait", "residue", "record"} =>
       attempts[r].state = "RUNNING"
  /\ pc[r] = "status" =>
       /\ status[A(r)] = "REVERSING"
       /\ attempts[r].state = IF frame[r].outcome \in Conclusive
                              THEN "CONCLUDED" ELSE "AWAITING_RECONCILIATION"
  /\ pc[r] \in {"call", "wait", "residue", "record", "status"} =>
       attempts[r].action = A(r)

\* An attempt keeps its Action busy while it is open and, once concluded, until
\* its handler has moved the Action on.
Busy(t) == Open(t) \/ pc[t] = "status"

BusyInv ==
  \A t \in Attempts : Busy(t) =>
    /\ status[attempts[t].action] \in {"REVERSING", "OUTCOME_UNKNOWN"}
    /\ \A u \in Attempts :
         Busy(u) /\ attempts[u].action = attempts[t].action => u = t

\* Recovery runs alone, and what it has still to park is open.
RecoveryInv ==
  /\ boot # "up" => \A r \in Requests : ~ InFlight(r)
  /\ boot = "up" => parking = {}
  /\ \A t \in parking : Open(t)

IInv == /\ TypeInv
        /\ \A r \in Requests : OwnsAttempt(r)
        /\ BusyInv
        /\ RunningIsReversing
        /\ RecoveryInv

\* Every table, local and reply starts with a value of its type.
LEMMA TypeInit == Init => TypeInv
  BY DEF Init, StoreInit, ProviderInit, TypeInv, StoreOK, StoreTypeOK,
         ProviderTypeOK, HandlersOK, HandlerTypeOK, ServerTypeOK, LocalsFit,
         Statuses, AttemptRows, NoAttempt, Frames, EmptyFrame, Replies,
         ReplyKinds, Problem, PCs, Effects

-----------------------------------------------------------------------------
(* What one handler step, and one statement, preserve. *)

\* A handler that goes on with Step keeps the handlers well typed when its new
\* locals fit the label it goes to.
LEMMA HandlerStep ==
  ASSUME HandlersOK, NEW r \in Requests, NEW label \in PCs, NEW locals \in Frames,
         Step(r, label, locals), req' = req, LocalsFit(label, req[r], locals)
  PROVE  HandlersOK'
  BY DEF HandlersOK, HandlerTypeOK, Step, Goto, LocalsFit

\* A handler that answers is done, keeps no locals, and leaves the others alone.
LEMMA HandlerResponds ==
  ASSUME HandlersOK, NEW r \in Requests, NEW answered \in Replies,
         Respond(r, answered), req' = req
  PROVE  HandlersOK'
<1>1. EmptyFrame \in Frames /\ "done" \in PCs
  BY DEF EmptyFrame, Frames, PCs
<1> QED
  BY <1>1 DEF HandlersOK, HandlerTypeOK, Respond, Goto, LocalsFit

\* A refusal is a reply the service may give.
LEMMA ProblemIsReply ==
  ASSUME NEW kind \in ReplyKinds PROVE Problem(kind) \in Replies
  BY DEF Problem, Replies

\* What a step leaves alone keeps its type.
LEMMA OthersKept ==
  ASSUME StoreOK, ProviderTypeOK, ServerTypeOK,
         UNCHANGED <<tables, provider, deps, now, server>>
  PROVE  StoreOK' /\ ProviderTypeOK' /\ ServerTypeOK'
  BY DEF StoreOK, StoreTypeOK, ProviderTypeOK, ServerTypeOK, tables, provider,
         server

\* UpdateStatus writes a status of the CHECK constraint of actions.status.
LEMMA UpdateRowType ==
  ASSUME NEW a \in Actions, NEW from, NEW to, status \in [Actions -> Statuses],
         UpdateRow(a, from, to)
  PROVE  status' \in [Actions -> Statuses]
<1>1. to \in Statuses
  BY DEF UpdateRow, CanTransition, Transitions, Statuses
<1> QED
  BY <1>1 DEF UpdateRow

\* The history INSERT keeps each Action's history a sequence of transitions.
LEMMA AppendHistoryType ==
  ASSUME NEW a \in Actions, NEW from \in Statuses, NEW to \in Statuses,
         history \in [Actions -> Seq(Statuses \X Statuses)],
         AppendHistory(a, from, to)
  PROVE  history' \in [Actions -> Seq(Statuses \X Statuses)]
  BY DEF AppendHistory

\* Rows that keep their Action and their type keep the table well typed.
AttemptsOK ==
  /\ attempts \in [Attempts -> AttemptRows]
  /\ \A t \in Attempts :
       attempts[t].state # "NONE" => attempts[t].action \in Actions

\* ConcludeAttempt writes a well-typed row and keeps the Action it names.
LEMMA ConcludeType ==
  ASSUME AttemptsOK, NEW t \in Attempts, NEW result \in ObservedResults,
         attempts[t].state # "NONE", ConcludeAttempt(t, result)
  PROVE  AttemptsOK'
  BY DEF AttemptsOK, ConcludeAttempt, AttemptRows, ExecutionStates

\* MarkAwaitingReconciliation writes a well-typed row and keeps its Action.
LEMMA MarkType ==
  ASSUME AttemptsOK, NEW t \in Attempts, MarkAwaitingReconciliation(t)
  PROVE  AttemptsOK'
  BY DEF AttemptsOK, MarkAwaitingReconciliation, AttemptRows, ExecutionStates

\* CreateAttempt writes a well-typed row that names an Action.
LEMMA CreateType ==
  ASSUME AttemptsOK, NEW t \in Attempts, NEW a \in Actions, NEW at \in Nat,
         CreateAttempt(t, a, at)
  PROVE  AttemptsOK'
  BY DEF AttemptsOK, CreateAttempt, AttemptRows, ExecutionStates

\* What execute derives from an outcome: the result it stores is one of the
\* column's values and the status it moves the Action to is a status.
LEMMA OutcomeTypes ==
  ASSUME NEW o \in Outcomes
  PROVE  /\ o \in Conclusive => ObservedAs(o) \in ObservedResults
         /\ o \notin Conclusive => o = "OUTCOME_UNKNOWN"
         /\ StatusAfter(o) \in Statuses
  BY DEF Outcomes, Conclusive, ObservedAs, ObservedResults, StatusAfter, Statuses

\* The arguments and locals a handler reads at a label have their types.
LEMMA LocalsTyped ==
  ASSUME HandlersOK, NEW r \in Requests
  PROVE  /\ pc[r] \in PCs
         /\ req[r].action \in Actions \cup {None}
         /\ req[r].key \in Keys \cup {None} /\ req[r].now \in Nat
         /\ frame[r] \in Frames
         /\ LocalsFit(pc[r], req[r], frame[r])
  BY DEF HandlersOK, HandlerTypeOK

\* The updates of single locals that the steps make stay within Frames.
LEMMA FrameUpdates ==
  ASSUME NEW f \in Frames
  PROVE  /\ \A S \in SUBSET Actions : [f EXCEPT !.todo = S] \in Frames
         /\ \A S \in SUBSET Actions : [f EXCEPT !.todo = S, !.edges = S] \in Frames
         /\ [f EXCEPT !.edges = {}] \in Frames
         /\ \A a \in Actions : [f EXCEPT !.cur = a] \in Frames
         /\ \A S \in SUBSET Actions : [f EXCEPT !.todo = S, !.cur = None] \in Frames
         /\ \A t \in Attempts : [f EXCEPT !.target = t] \in Frames
         /\ \A o \in Outcomes : [f EXCEPT !.outcome = o] \in Frames
  BY DEF Frames

\* Steps that only read the tables.
LEMMA ReadersTyped ==
  ASSUME IInv, NEW r \in Requests,
         \/ SweepSelect(r) \/ LookupKey(r) \/ Converge(r) \/ ReadAction(r)
         \/ ReadEdges(r) \/ CheckDependent(r) \/ BeginRefused(r)
         \/ ReceiveAnswer(r) \/ ProviderTimeout(r) \/ PollAttempt(r)
         \/ ProjectAction(r)
  PROVE  TypeInv'
<1> USE DEF IInv
<1>1. HandlersOK
  BY DEF TypeInv
<1>2. UNCHANGED <<tables, provider, deps, now, server>> /\ req' = req
  BY DEF SweepSelect, LookupKey, Converge, ReadAction, ReadEdges, CheckDependent, BeginRefused, ReceiveAnswer, ProviderTimeout, PollAttempt, ProjectAction
<1>3. StoreOK' /\ ProviderTypeOK' /\ ServerTypeOK'
  BY <1>2, OthersKept DEF TypeInv
<1> SUFFICES HandlersOK'
  BY <1>3 DEF TypeInv
<1> DEFINE f == frame[r]
<1>4. /\ f \in Frames /\ LocalsFit(pc[r], req[r], f)
      /\ req[r].key \in Keys \cup {None}
  BY <1>1, LocalsTyped
<1>5. /\ {"edges", "read", "expire", "key", "block", "begin", "poll", "project",
          "converge", "residue", "record"} \subseteq PCs
      /\ {"KEY_CONFLICT", "IN_PROGRESS", "DEPENDENCY", "INTERNAL"}
           \subseteq ReplyKinds
  BY DEF PCs, ReplyKinds
<1>6. ASSUME UseKeyRecord(r), req[r].key \in Keys, idem[req[r].key] # None,
             A(r) \in Actions
      PROVE  HandlersOK'
  <2>1. idem[req[r].key].attempt \in Attempts
    BY <1>6 DEF TypeInv, StoreOK, StoreTypeOK, IdempotencyRows
  <2>2. CASE idem[req[r].key].action # A(r)
    BY <1>1, <1>2, <1>5, <1>6, <2>2, ProblemIsReply, HandlerResponds
    DEF UseKeyRecord
  <2>3. CASE idem[req[r].key].action = A(r)
    <3> DEFINE g == [f EXCEPT !.target = idem[req[r].key].attempt]
    <3>1. g \in Frames
      BY <1>4, <2>1, FrameUpdates
    <3>2. LocalsFit("poll", req[r], g)
      BY <1>4, <1>6, <2>1 DEF LocalsFit, Frames, A
    <3> QED
      BY <1>1, <1>2, <1>5, <1>6, <2>3, <3>1, <3>2, HandlerStep DEF UseKeyRecord
  <2> QED
    BY <2>2, <2>3
<1>7. CASE SweepSelect(r)
  <2> DEFINE g == [f EXCEPT !.todo = Due(req[r].now)]
             l == IF Due(req[r].now) = {} THEN AfterSweep(r) ELSE "expire"
  <2>1. g \in Frames /\ l \in PCs
    BY <1>4, <1>5, FrameUpdates DEF Due, AfterSweep
  <2>2. LocalsFit(l, req[r], g)
    BY <1>4, <1>7 DEF LocalsFit, SweepSelect, AfterSweep
  <2>3. Step(r, l, g)
    BY <1>7 DEF SweepSelect
  <2> QED
    BY <1>1, <1>2, <2>1, <2>2, <2>3, HandlerStep
<1>8. CASE LookupKey(r) \/ Converge(r)
  <2>1. req[r].key \in Keys /\ A(r) \in Actions
    BY <1>4, <1>8 DEF LocalsFit, LookupKey, Converge, A
  <2>2. CASE idem[req[r].key] # None
    BY <1>6, <1>8, <2>1, <2>2 DEF LookupKey, Converge
  <2>3. CASE idem[req[r].key] = None
    <3>1. CASE LookupKey(r)
      <4>1. LocalsFit("read", req[r], f)
        BY <2>1 DEF LocalsFit, A
      <4> QED
        BY <1>1, <1>2, <1>4, <1>5, <2>3, <3>1, <4>1, HandlerStep DEF LookupKey
    <3>2. CASE Converge(r)
      BY <1>1, <1>2, <1>5, <2>3, <3>2, ProblemIsReply, HandlerResponds DEF Converge
    <3> QED
      BY <1>8, <3>1, <3>2
  <2> QED
    BY <2>2, <2>3
<1>9. CASE ReadAction(r)
  <2>1. LocalsFit("edges", req[r], f)
    BY <1>4, <1>9 DEF LocalsFit, ReadAction
  <2>2. Refusal(status[A(r)]) \in ReplyKinds
    BY DEF Refusal, ReplyKinds
  <2>3. CASE status[A(r)] = "APPLIED"
    BY <1>1, <1>2, <1>4, <1>5, <1>9, <2>1, <2>3, HandlerStep DEF ReadAction
  <2>4. CASE status[A(r)] # "APPLIED"
    BY <1>1, <1>2, <1>9, <2>2, <2>4, ProblemIsReply, HandlerResponds DEF ReadAction
  <2> QED
    BY <2>3, <2>4
<1>10. CASE ReadEdges(r)
  <2> DEFINE g == [f EXCEPT !.todo = Dependents(A(r)), !.edges = Dependents(A(r))]
             l == IF Dependents(A(r)) = {} THEN "begin" ELSE "block"
  <2>1. g \in Frames /\ l \in PCs
    BY <1>4, <1>5, FrameUpdates DEF Dependents
  <2>2. LocalsFit(l, req[r], g) /\ Step(r, l, g)
    BY <1>4, <1>10 DEF LocalsFit, ReadEdges
  <2> QED
    BY <1>1, <1>2, <2>1, <2>2, HandlerStep
<1>11. CASE CheckDependent(r)
  <2>1. PICK d \in f.todo :
           IF status[d] \notin Resolved THEN Respond(r, Problem("DEPENDENCY"))
           ELSE LET rest == f.todo \ {d} IN
                Step(r, IF rest = {} THEN "begin" ELSE "block",
                     [f EXCEPT !.todo = rest])
    BY <1>11 DEF CheckDependent
  <2>2. CASE status[d] \notin Resolved
    BY <1>1, <1>2, <1>5, <2>1, <2>2, ProblemIsReply, HandlerResponds
  <2>3. CASE status[d] \in Resolved
    <3> DEFINE g == [f EXCEPT !.todo = f.todo \ {d}]
               l == IF f.todo \ {d} = {} THEN "begin" ELSE "block"
    <3>1. f.todo \ {d} \in SUBSET Actions
      BY <1>4 DEF Frames
    <3>2. g \in Frames /\ l \in PCs
      BY <1>4, <1>5, <3>1, FrameUpdates
    <3>3. LocalsFit(l, req[r], g)
      BY <1>4, <1>11 DEF LocalsFit, CheckDependent
    <3>4. Step(r, l, g)
      BY <2>1, <2>3
    <3> QED
      BY <1>1, <1>2, <3>2, <3>3, <3>4, HandlerStep
  <2> QED
    BY <2>2, <2>3
<1>12. CASE BeginRefused(r)
  <2>1. CASE Step(r, "converge", f) /\ req[r].key # None
    <3>1. LocalsFit("converge", req[r], f)
      BY <1>4, <1>12, <2>1 DEF LocalsFit, BeginRefused
    <3> QED
      BY <1>1, <1>2, <1>4, <1>5, <2>1, <3>1, HandlerStep
  <2>2. CASE \E kind \in {"IN_PROGRESS", "INTERNAL"} : Respond(r, Problem(kind))
    BY <1>1, <1>2, <1>5, <2>2, ProblemIsReply, HandlerResponds
  <2> QED
    BY <1>12, <2>1, <2>2 DEF BeginRefused, KeyTaken
<1>13. CASE ReceiveAnswer(r) \/ ProviderTimeout(r)
  <2>1. CASE Respond(r, Problem("INTERNAL"))
    BY <1>1, <1>2, <1>5, <2>1, ProblemIsReply, HandlerResponds
  <2>2. ASSUME NEW o \in Outcomes, NEW l \in {"residue", "record"},
               Step(r, l, [f EXCEPT !.outcome = o])
        PROVE  HandlersOK'
    <3> DEFINE g == [f EXCEPT !.outcome = o]
    <3>1. g \in Frames /\ l \in PCs
      BY <1>4, <1>5, FrameUpdates
    <3>2. LocalsFit(l, req[r], g)
      BY <1>4, <1>13 DEF LocalsFit, Frames, ReceiveAnswer, ProviderTimeout
    <3> QED
      BY <1>1, <1>2, <2>2, <3>1, <3>2, HandlerStep
  <2>3. "OUTCOME_UNKNOWN" \in Outcomes
    BY DEF Outcomes
  <2>4. ASSUME ReceiveAnswer(r), answer[r] \in Outcomes,
               Step(r, AfterAnswer(answer[r]), [f EXCEPT !.outcome = answer[r]])
        PROVE  HandlersOK'
    BY <2>2, <2>4 DEF AfterAnswer
  <2> QED
    BY <1>13, <2>1, <2>2, <2>3, <2>4 DEF ReceiveAnswer, ProviderTimeout
<1>14. CASE PollAttempt(r)
  <2> DEFINE g == [f EXCEPT !.outcome = RecordedOutcome(f.target)]
  <2>1. f.target \in Attempts
    BY <1>4, <1>14 DEF LocalsFit, PollAttempt
  <2>2. RecordedOutcome(f.target) \in ObservedResults \cup {"OUTCOME_UNKNOWN"}
    BY <2>1 DEF RecordedOutcome, TypeInv, StoreOK, StoreTypeOK, AttemptRows
  <2>3. g \in Frames
    BY <1>4, <2>2, FrameUpdates DEF Outcomes, Conclusive
  <2>4. LocalsFit("project", req[r], g) /\ Step(r, "project", g)
    BY <1>4, <1>14, <2>1, <2>2 DEF LocalsFit, Frames, PollAttempt
  <2> QED
    BY <1>1, <1>2, <1>5, <2>3, <2>4, HandlerStep
<1>15. CASE ProjectAction(r)
  <2> DEFINE told == [kind |-> "RESULT", attempt |-> f.target,
                      outcome |-> f.outcome, status |-> status[A(r)]]
  <2>1. told \in Replies
    BY <1>4, <1>15 DEF LocalsFit, ProjectAction, Replies, ReplyKinds, A, TypeInv,
                       StoreOK, StoreTypeOK
  <2> QED
    BY <1>1, <1>2, <1>15, <2>1, HandlerResponds DEF ProjectAction
<1> QED
  BY <1>7, <1>8, <1>9, <1>10, <1>11, <1>12, <1>13, <1>14, <1>15

\* Steps of a handler that write.
LEMMA WritersTyped ==
  ASSUME IInv, NEW r \in Requests,
         \/ Arrive(r) \/ SweepExpire(r) \/ SweepHistory(r) \/ Begin(r)
         \/ CallProvider(r) \/ RecordResidue(r) \/ RecordAttempt(r)
         \/ RecordStatus(r) \/ RecordHistory(r)
  PROVE  TypeInv'
<1> USE DEF IInv
<1> DEFINE f == frame[r]
<1>1. HandlersOK /\ AttemptsOK
  BY DEF TypeInv, StoreOK, StoreTypeOK, AttemptsOK
<1>2. /\ f \in Frames /\ LocalsFit(pc[r], req[r], f)
      /\ req[r].key \in Keys \cup {None} /\ req[r].now \in Nat
  BY <1>1, LocalsTyped
<1>3. /\ {"sweep", "expire", "expired", "read", "key", "call", "wait", "record",
          "status", "history"} \subseteq PCs
      /\ {"INTERNAL", "RESULT"} \subseteq ReplyKinds
      /\ {"APPLIED", "EXPIRED", "REVERSING"} \subseteq Statuses
  BY DEF PCs, ReplyKinds, Statuses
<1> USE DEF TypeInv, StoreOK, StoreTypeOK, tables, provider, server
<1>4. CASE Arrive(r)
  <2>1. PICK a \in Actions, k \in Keys \cup {None} :
          req' = [req EXCEPT ![r] = [action |-> a, key |-> k, now |-> now]]
    BY <1>4 DEF Arrive
  <2>2. StoreOK' /\ ProviderTypeOK' /\ ServerTypeOK'
    BY <1>4, OthersKept DEF Arrive
  <2>3. HandlersOK'
    BY <1>1, <1>3, <1>4, <2>1
    DEF Arrive, HandlersOK, HandlerTypeOK, ServerTypeOK, LocalsFit, Step, Goto
  <2> QED
    BY <2>2, <2>3
<1>5. CASE SweepExpire(r)
  <2>1. PICK a \in f.todo :
          \/ UpdateRow(a, "APPLIED", "EXPIRED")
             /\ Step(r, "expired", [f EXCEPT !.cur = a])
          \/ Respond(r, Problem("INTERNAL")) /\ UNCHANGED status
    BY <1>5 DEF SweepExpire
  <2>2. a \in Actions
    BY <1>2 DEF Frames
  <2>3. status' \in [Actions -> Statuses]
    BY <2>1, <2>2, UpdateRowType
  <2>4. StoreOK' /\ ProviderTypeOK' /\ ServerTypeOK' /\ req' = req
    BY <1>5, <2>3 DEF SweepExpire, ProviderTypeOK, ServerTypeOK
  <2>5. CASE Step(r, "expired", [f EXCEPT !.cur = a])
    <3>1. [f EXCEPT !.cur = a] \in Frames
      BY <1>2, <2>2, FrameUpdates
    <3>2. LocalsFit("expired", req[r], [f EXCEPT !.cur = a])
      BY <1>2, <1>5, <2>2 DEF LocalsFit, Frames, SweepExpire
    <3> QED
      BY <1>1, <1>3, <2>4, <2>5, <3>1, <3>2, HandlerStep
  <2>6. CASE Respond(r, Problem("INTERNAL"))
    BY <1>1, <1>3, <2>4, <2>6, ProblemIsReply, HandlerResponds
  <2> QED
    BY <2>1, <2>5, <2>6
<1>6. CASE SweepHistory(r)
  <2> DEFINE rest == f.todo \ {f.cur}
             g == [f EXCEPT !.todo = rest, !.cur = None]
             l == IF rest = {} THEN AfterSweep(r) ELSE "expire"
  <2>1. f.cur \in Actions /\ rest \in SUBSET Actions
    BY <1>2, <1>6 DEF LocalsFit, SweepHistory, Frames
  <2>2. history' \in [Actions -> Seq(Statuses \X Statuses)]
    BY <1>3, <1>6, <2>1, AppendHistoryType DEF SweepHistory
  <2>3. StoreOK' /\ ProviderTypeOK' /\ ServerTypeOK' /\ req' = req
    BY <1>6, <2>2 DEF SweepHistory, ProviderTypeOK, ServerTypeOK
  <2>4. g \in Frames /\ l \in PCs
    BY <1>2, <1>3, <2>1, FrameUpdates DEF AfterSweep
  <2>5. LocalsFit(l, req[r], g) /\ Step(r, l, g)
    BY <1>2, <1>6 DEF LocalsFit, SweepHistory, AfterSweep
  <2> QED
    BY <1>1, <2>3, <2>4, <2>5, HandlerStep
<1>7. CASE Begin(r)
  <2>1. A(r) \in Actions
    BY <1>2, <1>7 DEF LocalsFit, Begin, A
  <2>2. AttemptsOK'
    BY <1>1, <1>2, <1>7, <2>1, CreateType DEF Begin
  <2>3. status' \in [Actions -> Statuses]
    BY <1>7, <2>1, UpdateRowType DEF Begin
  <2>4. history' \in [Actions -> Seq(Statuses \X Statuses)]
    BY <1>3, <1>7, <2>1, AppendHistoryType DEF Begin
  <2>5. idem' \in [Keys -> IdempotencyRows \cup {None}]
    <3>1. [action |-> A(r), attempt |-> r] \in IdempotencyRows
      BY <2>1 DEF IdempotencyRows
    <3> QED
      BY <1>2, <1>7, <3>1 DEF Begin, CreateIdempotency
  <2>6. StoreOK'
    BY <1>7, <2>2, <2>3, <2>4, <2>5 DEF Begin, AttemptsOK
  <2>7. ProviderTypeOK' /\ ServerTypeOK' /\ req' = req
    BY <1>7 DEF Begin, ProviderTypeOK, ServerTypeOK
  <2> DEFINE g == [f EXCEPT !.edges = {}]
  <2>8. LocalsFit("call", req[r], g) /\ Step(r, "call", g)
    BY <1>7, <2>1 DEF LocalsFit, Begin, A
  <2>9. g \in Frames
    BY <1>2, FrameUpdates
  <2> QED
    BY <1>1, <1>3, <2>6, <2>7, <2>8, <2>9, HandlerStep
<1>8. CASE CallProvider(r)
  <2>1. StoreOK' /\ ProviderTypeOK' /\ ServerTypeOK' /\ req' = req
    BY <1>8 DEF CallProvider, Call, ProviderTypeOK, ServerTypeOK
  <2>2. LocalsFit("wait", req[r], f) /\ Step(r, "wait", f)
    BY <1>2, <1>8 DEF LocalsFit, CallProvider
  <2> QED
    BY <1>1, <1>2, <1>3, <2>1, <2>2, HandlerStep
<1>9. CASE RecordResidue(r)
  <2>1. StoreOK' /\ ProviderTypeOK' /\ ServerTypeOK' /\ req' = req
    BY <1>9 DEF RecordResidue, ProviderTypeOK, ServerTypeOK
  <2>2. LocalsFit("record", req[r], f) /\ Step(r, "record", f)
    BY <1>2, <1>9 DEF LocalsFit, RecordResidue
  <2> QED
    BY <1>1, <1>2, <1>3, <2>1, <2>2, HandlerStep
<1>10. CASE RecordAttempt(r)
  <2>1. f.outcome \in Outcomes /\ attempts[r].state = "RUNNING"
    BY <1>2, <1>10 DEF LocalsFit, RecordAttempt, OwnsAttempt
  <2>2. AttemptsOK'
    BY <1>1, <1>10, <2>1, OutcomeTypes, ConcludeType, MarkType DEF RecordAttempt
  <2>3. StoreOK' /\ ProviderTypeOK' /\ ServerTypeOK' /\ req' = req
    BY <1>10, <2>2 DEF RecordAttempt, ProviderTypeOK, ServerTypeOK, AttemptsOK
  <2>4. LocalsFit("status", req[r], f) /\ Step(r, "status", f)
    BY <1>2, <1>10 DEF LocalsFit, RecordAttempt
  <2> QED
    BY <1>1, <1>2, <1>3, <2>3, <2>4, HandlerStep
<1>11. CASE RecordStatus(r)
  <2>1. A(r) \in Actions
    BY <1>2, <1>11 DEF LocalsFit, RecordStatus, A
  <2>2. status' \in [Actions -> Statuses]
    BY <1>11, <2>1, UpdateRowType DEF RecordStatus
  <2>3. StoreOK' /\ ProviderTypeOK' /\ ServerTypeOK' /\ req' = req
    BY <1>11, <2>2 DEF RecordStatus, ProviderTypeOK, ServerTypeOK
  <2>4. CASE Step(r, "history", f)
    <3>1. LocalsFit("history", req[r], f)
      BY <1>2, <1>11 DEF LocalsFit, RecordStatus
    <3> QED
      BY <1>1, <1>2, <1>3, <2>3, <2>4, <3>1, HandlerStep
  <2>5. CASE Respond(r, Problem("INTERNAL"))
    BY <1>1, <1>3, <2>3, <2>5, ProblemIsReply, HandlerResponds
  <2> QED
    BY <1>11, <2>4, <2>5 DEF RecordStatus
<1>12. CASE RecordHistory(r)
  <2> DEFINE o == f.outcome
             told == [kind |-> "RESULT", attempt |-> r, status |-> StatusAfter(o),
                      outcome |-> IF o \in Conclusive THEN ObservedAs(o) ELSE o]
  <2>1. A(r) \in Actions /\ o \in Outcomes
    BY <1>2, <1>12 DEF LocalsFit, RecordHistory, A
  <2>2. told \in Replies
    BY <1>3, <2>1, OutcomeTypes DEF Replies
  <2>3. history' \in [Actions -> Seq(Statuses \X Statuses)]
    BY <1>3, <1>12, <2>1, OutcomeTypes, AppendHistoryType DEF RecordHistory
  <2>4. StoreOK' /\ ProviderTypeOK' /\ ServerTypeOK' /\ req' = req
    BY <1>12, <2>3 DEF RecordHistory, ProviderTypeOK, ServerTypeOK
  <2>5. Respond(r, told)
    BY <1>12 DEF RecordHistory
  <2> QED
    BY <1>1, <2>2, <2>4, <2>5, HandlerResponds
<1> QED
  BY <1>4, <1>5, <1>6, <1>7, <1>8, <1>9, <1>10, <1>11, <1>12

\* Steps that are not a handler's own.
LEMMA SystemTyped ==
  ASSUME IInv,
         \/ \E r \in Requests : ProviderActs(r) \/ Abort(r)
         \/ Crash \/ Recover \/ Tick \/ AddDependency \/ UNCHANGED vars
  PROVE  TypeInv'
<1> USE DEF IInv, TypeInv, tables, handlers, provider, server
<1>1. HandlersOK /\ AttemptsOK
  BY DEF StoreOK, StoreTypeOK, AttemptsOK
<1>2. ASSUME NEW r \in Requests, ProviderActs(r) PROVE TypeInv'
  BY <1>2 DEF ProviderActs, ActOnCall, ProviderTypeOK, EffectsOf, Effects,
     StoreOK, StoreTypeOK, HandlersOK, HandlerTypeOK, ServerTypeOK
<1>3. ASSUME NEW r \in Requests, Abort(r) PROVE TypeInv'
  <2>1. HandlersOK'
    BY <1>1, <1>3, ProblemIsReply, HandlerResponds DEF Abort, ReplyKinds
  <2> QED
    BY <1>3, <2>1 DEF Abort, StoreOK, StoreTypeOK, ProviderTypeOK, ServerTypeOK
<1>4. CASE Crash
  <2>1. EmptyFrame \in Frames /\ Problem("LOST") \in Replies /\ "done" \in PCs
    BY ProblemIsReply DEF EmptyFrame, Frames, PCs, ReplyKinds
  <2>2. HandlersOK'
    BY <1>1, <1>4, <2>1 DEF Crash, HandlersOK, HandlerTypeOK, LocalsFit, InFlight
  <2> QED
    BY <1>4, <2>2 DEF Crash, StoreOK, StoreTypeOK, ProviderTypeOK, ServerTypeOK
<1>5. CASE RecoverScan
  BY <1>5 DEF RecoverScan, RunningAttempts, StoreOK, StoreTypeOK, ProviderTypeOK,
     HandlersOK, HandlerTypeOK, ServerTypeOK
<1>6. ASSUME NEW t \in Attempts, RecoverMark(t) PROVE TypeInv'
  <2>1. AttemptsOK'
    BY <1>1, <1>6, MarkType DEF RecoverMark
  <2> QED
    BY <1>6, <2>1 DEF RecoverMark, AttemptsOK, StoreOK, StoreTypeOK,
       ProviderTypeOK, HandlersOK, HandlerTypeOK, ServerTypeOK
<1>7. ASSUME NEW t \in Attempts, RecoverStatus(t) \/ RecoverHistory(t)
      PROVE  TypeInv'
  <2>1. attempts[t].action \in Actions
    BY <1>7 DEF RecoverStatus, RecoverHistory, RecoveryInv, Open, StoreOK
  <2>2. /\ status' \in [Actions -> Statuses]
        /\ history' \in [Actions -> Seq(Statuses \X Statuses)]
    <3>1. {"REVERSING", "OUTCOME_UNKNOWN"} \subseteq Statuses
      BY DEF Statuses
    <3> QED
      BY <1>7, <2>1, <3>1, UpdateRowType, AppendHistoryType
      DEF RecoverStatus, RecoverHistory, StoreOK, StoreTypeOK
  <2> QED
    BY <1>7, <2>2 DEF RecoverStatus, RecoverHistory, StoreOK, StoreTypeOK,
       ProviderTypeOK, HandlersOK, HandlerTypeOK, ServerTypeOK
<1>8. CASE Tick \/ AddDependency \/ UNCHANGED vars
  BY <1>8 DEF Tick, AddDependency, vars, StoreOK, StoreTypeOK, ProviderTypeOK,
     HandlersOK, HandlerTypeOK, ServerTypeOK
<1> QED
  BY <1>2, <1>3, <1>4, <1>5, <1>6, <1>7, <1>8 DEF Recover

\* Every step of the service keeps every variable in its type.
LEMMA TypeStep ==
  IInv /\ [Next]_vars => TypeInv'
  BY ReadersTyped, WritersTyped, SystemTyped DEF Next, Handle, AllAnswered

-----------------------------------------------------------------------------
(* Every step keeps the ownership of attempts and Actions. *)

Ownership == /\ \A r \in Requests : OwnsAttempt(r)
             /\ BusyInv
             /\ RunningIsReversing
             /\ RecoveryInv

\* The labels between Transaction A and the status transition.
Working == {"call", "wait", "residue", "record", "status"}

\* A busy attempt names an Action, which is REVERSING or OUTCOME_UNKNOWN.
LEMMA BusyAction ==
  ASSUME IInv, NEW t \in Attempts, Busy(t)
  PROVE  /\ attempts[t].action \in Actions
         /\ status[attempts[t].action] \in {"REVERSING", "OUTCOME_UNKNOWN"}
<1>1. pc[t] = "status" => attempts[t].state # "NONE"
  BY DEF IInv, OwnsAttempt
<1> QED
  BY <1>1 DEF IInv, TypeInv, StoreOK, BusyInv, Busy, Open

\* A handler that changes neither an attempt nor a status and does not enter
\* the labels after Transaction A, which it may leave.
LEMMA BystanderKeeps ==
  ASSUME IInv, NEW r \in Requests, NEW label \in PCs \ Working, NEW locals,
         pc[r] # "idle" \/ boot = "up", pc[r] # "done", label # "idle",
         Goto(r, label), frame' = [frame EXCEPT ![r] = locals],
         UNCHANGED <<status, attempts, boot, parking>>,
         \A s \in Requests \ {r} : req'[s] = req[s]
  PROVE  Ownership'
<1>1. /\ pc \in [Requests -> PCs] /\ pc' = [pc EXCEPT ![r] = label]
      /\ \A s \in Requests \ {r} : frame'[s] = frame[s]
  BY DEF IInv, TypeInv, HandlersOK, HandlerTypeOK, Goto
<1>2. \A s \in Requests : OwnsAttempt(s)'
  BY <1>1 DEF IInv, OwnsAttempt, Working, A
<1>3. BusyInv'
  BY <1>1 DEF IInv, BusyInv, Busy, Open, Working
<1>4. RunningIsReversing' /\ RecoveryInv'
  BY <1>1 DEF IInv, RunningIsReversing, RecoveryInv, InFlight, Open
<1> QED
  BY <1>2, <1>3, <1>4 DEF Ownership

\* Steps that only read the tables leave the ownership of Actions alone.
LEMMA ReadersKeep ==
  ASSUME IInv, NEW r \in Requests,
         \/ SweepSelect(r) \/ LookupKey(r) \/ Converge(r) \/ ReadAction(r)
         \/ ReadEdges(r) \/ CheckDependent(r) \/ BeginRefused(r)
         \/ PollAttempt(r) \/ ProjectAction(r) \/ Arrive(r)
         \/ SweepHistory(r) \/ RecordHistory(r) \/ Abort(r)
  PROVE  Ownership'
<1>1. /\ UNCHANGED <<status, attempts, boot, parking>>
      /\ \A s \in Requests \ {r} : req'[s] = req[s]
  BY DEF SweepSelect, LookupKey, Converge, ReadAction, ReadEdges, CheckDependent,
         BeginRefused, PollAttempt, ProjectAction, Arrive, SweepHistory,
         RecordHistory, Abort, tables, server, IInv, TypeInv, HandlersOK,
         HandlerTypeOK
<1>2. pc[r] # "done" /\ (pc[r] # "idle" \/ boot = "up")
  BY DEF SweepSelect, LookupKey, Converge, ReadAction, ReadEdges, CheckDependent,
         BeginRefused, PollAttempt, ProjectAction, Arrive, SweepHistory,
         RecordHistory, Abort, InFlight
<1>3. \/ \E answered : Respond(r, answered)
      \/ \E label \in {"sweep", "expire", "read", "key", "edges", "block",
                       "begin", "converge", "poll", "project"} :
           \E locals : Step(r, label, locals)
  BY DEF SweepSelect, LookupKey, Converge, UseKeyRecord, ReadAction, ReadEdges,
         CheckDependent, BeginRefused, PollAttempt, ProjectAction, Arrive,
         SweepHistory, RecordHistory, Abort, AfterSweep
<1>4. {"sweep", "expire", "read", "key", "edges", "block", "begin", "converge",
       "poll", "project", "done"} \subseteq PCs \ Working
  BY DEF PCs, Working
<1> QED
  BY <1>1, <1>2, <1>3, <1>4, BystanderKeeps DEF Respond, Step

\* A handler between Transaction A and the record of the attempt.
LEMMA CallersKeep ==
  ASSUME IInv, NEW r \in Requests,
         \/ CallProvider(r) \/ ReceiveAnswer(r) \/ ProviderTimeout(r)
         \/ RecordResidue(r)
  PROVE  Ownership'
<1>1. /\ UNCHANGED <<status, attempts, req, boot, parking>>
      /\ pc[r] \in {"call", "wait", "residue"}
  BY DEF CallProvider, ReceiveAnswer, ProviderTimeout, RecordResidue, tables, server
<1>2. pc \in [Requests -> PCs] /\ frame \in [Requests -> Frames]
  BY DEF IInv, TypeInv, HandlersOK, HandlerTypeOK
<1>3. CASE \E answered : Respond(r, answered)
  <2>1. "done" \in PCs \ Working
    BY DEF PCs, Working
  <2> QED
    BY <1>1, <1>3, <2>1, BystanderKeeps DEF Respond
<1>4. ASSUME NEW label \in {"wait", "residue", "record"}, NEW locals,
             Step(r, label, locals)
      PROVE  Ownership'
  <2>1. /\ pc' = [pc EXCEPT ![r] = label]
        /\ \A s \in Requests \ {r} : frame'[s] = frame[s]
    BY <1>2, <1>4 DEF Step, Goto
  <2>2. \A s \in Requests : OwnsAttempt(s)'
    BY <1>1, <1>2, <2>1 DEF IInv, OwnsAttempt, A
  <2>3. BusyInv' /\ RunningIsReversing'
    BY <1>1, <1>2, <2>1 DEF IInv, BusyInv, RunningIsReversing, Busy, Open
  <2>4. RecoveryInv'
    BY <1>1, <1>2, <2>1 DEF IInv, RecoveryInv, InFlight, Open
  <2> QED
    BY <2>2, <2>3, <2>4 DEF Ownership
<1> QED
  BY <1>3, <1>4 DEF CallProvider, ReceiveAnswer, ProviderTimeout, RecordResidue,
                    AfterAnswer

\* An Action that is APPLIED has no busy attempt, so its expiry disturbs none.
LEMMA SweepExpireKeeps ==
  ASSUME IInv, NEW r \in Requests, SweepExpire(r)
  PROVE  Ownership'
<1>1. /\ UNCHANGED <<attempts, req, boot, parking>> /\ pc[r] = "expire"
      /\ pc \in [Requests -> PCs] /\ frame \in [Requests -> Frames]
      /\ status \in [Actions -> Statuses]
  BY DEF SweepExpire, server, IInv, TypeInv, HandlersOK, HandlerTypeOK, StoreOK,
         StoreTypeOK
<1>2. PICK a \in frame[r].todo :
        \/ UpdateRow(a, "APPLIED", "EXPIRED")
           /\ Step(r, "expired", [frame[r] EXCEPT !.cur = a])
        \/ Respond(r, Problem("INTERNAL")) /\ UNCHANGED status
  BY DEF SweepExpire
<1>3. a \in Actions
  BY <1>1 DEF Frames
<1>4. CASE Respond(r, Problem("INTERNAL")) /\ UNCHANGED status
  <2>1. "done" \in PCs \ Working
    BY DEF PCs, Working
  <2> QED
    BY <1>1, <1>4, <2>1, BystanderKeeps DEF Respond
<1>5. CASE UpdateRow(a, "APPLIED", "EXPIRED")
           /\ Step(r, "expired", [frame[r] EXCEPT !.cur = a])
  <2>1. /\ pc' = [pc EXCEPT ![r] = "expired"]
        /\ \A s \in Requests \ {r} : frame'[s] = frame[s]
        /\ status[a] = "APPLIED" /\ status' = [status EXCEPT ![a] = "EXPIRED"]
    BY <1>1, <1>5 DEF Step, Goto, UpdateRow
  <2>2. \A t \in Attempts : Busy(t) => attempts[t].action # a
    BY <2>1, BusyAction
  <2>3. \A s \in Requests : OwnsAttempt(s)'
    <3> SUFFICES ASSUME NEW s \in Requests PROVE OwnsAttempt(s)'
      OBVIOUS
    <3>1. pc[s] = "status" => A(s) # a
      BY <2>2 DEF IInv, OwnsAttempt, Busy
    <3> QED
      BY <1>1, <2>1, <3>1 DEF IInv, OwnsAttempt, A
  <2>4. BusyInv'
    <3>1. \A t \in Attempts : Busy(t)' <=> Busy(t)
      BY <1>1, <2>1 DEF Busy, Open
    <3>2. \A t \in Attempts :
            Busy(t) => status'[attempts[t].action] = status[attempts[t].action]
      BY <1>1, <2>1, <2>2, BusyAction
    <3> QED
      BY <1>1, <3>1, <3>2 DEF IInv, BusyInv
  <2>5. RunningIsReversing'
    <3>1. \A t \in Attempts : attempts[t].state = "RUNNING" => Busy(t)
      BY DEF Busy, Open
    <3>2. \A t \in Attempts : Busy(t) => attempts[t].action \in Actions
      BY BusyAction
    <3> QED
      BY <1>1, <2>1, <2>2, <3>1, <3>2 DEF IInv, RunningIsReversing
  <2>6. RecoveryInv'
    BY <1>1, <2>1 DEF IInv, RecoveryInv, InFlight, Open
  <2> QED
    BY <2>3, <2>4, <2>5, <2>6 DEF Ownership
<1> QED
  BY <1>2, <1>4, <1>5

\* Transaction A finds the Action APPLIED, so no attempt keeps it busy.
LEMMA BeginKeeps ==
  ASSUME IInv, NEW r \in Requests, Begin(r)
  PROVE  Ownership'
<1>1. /\ pc \in [Requests -> PCs] /\ frame \in [Requests -> Frames]
      /\ status \in [Actions -> Statuses] /\ attempts \in [Attempts -> AttemptRows]
      /\ pc[r] = "begin" /\ A(r) \in Actions
      /\ UNCHANGED <<req, boot, parking>>
  BY LocalsTyped DEF Begin, server, IInv, TypeInv, HandlersOK, HandlerTypeOK,
     StoreOK, StoreTypeOK, LocalsFit, A
<1>2. /\ pc' = [pc EXCEPT ![r] = "call"]
      /\ \A s \in Requests \ {r} : frame'[s] = frame[s]
      /\ status[A(r)] = "APPLIED"
      /\ status' = [status EXCEPT ![A(r)] = "REVERSING"]
  BY <1>1 DEF Begin, Step, Goto, UpdateRow
<1>3. /\ attempts'[r].state = "RUNNING" /\ attempts'[r].action = A(r)
      /\ \A t \in Attempts \ {r} : attempts'[t] = attempts[t]
  BY <1>1 DEF Begin, CreateAttempt
<1>4. \A t \in Attempts : Busy(t) =>
        attempts[t].action # A(r) /\ attempts[t].action \in Actions
  BY <1>2, BusyAction
<1>5. \A t \in Attempts \ {r} : Busy(t)' <=> Busy(t)
  BY <1>1, <1>2, <1>3 DEF Busy, Open
<1>6. \A s \in Requests : OwnsAttempt(s)'
  <2>1. ASSUME NEW s \in Requests \ {r} PROVE OwnsAttempt(s)'
    <3>1. pc[s] = "status" => A(s) # A(r)
      BY <1>4 DEF IInv, OwnsAttempt, Busy
    <3> QED
      BY <1>1, <1>2, <1>3, <3>1 DEF IInv, OwnsAttempt, A
  <2>2. OwnsAttempt(r)'
    BY <1>1, <1>2, <1>3 DEF OwnsAttempt, A
  <2> QED
    BY <2>1, <2>2
<1>7. BusyInv'
  <2> SUFFICES ASSUME NEW t \in Attempts, Busy(t)'
               PROVE  /\ status'[attempts'[t].action]
                           \in {"REVERSING", "OUTCOME_UNKNOWN"}
                      /\ \A u \in Attempts :
                           Busy(u)' /\ attempts'[u].action = attempts'[t].action
                           => u = t
    BY DEF BusyInv
  <2>1. CASE t = r
    BY <1>1, <1>2, <1>3, <1>4, <1>5, <2>1
  <2>2. CASE t # r
    BY <1>1, <1>2, <1>3, <1>4, <1>5, <2>2 DEF IInv, BusyInv
  <2> QED
    BY <2>1, <2>2
<1>8. RunningIsReversing'
  <2>1. \A t \in Attempts : attempts[t].state = "RUNNING" => Busy(t)
    BY DEF Busy, Open
  <2> QED
    BY <1>1, <1>2, <1>3, <1>4, <2>1 DEF IInv, RunningIsReversing
<1>9. RecoveryInv'
  BY <1>1, <1>2, <1>3 DEF IInv, RecoveryInv, InFlight, Open
<1> QED
  BY <1>6, <1>7, <1>8, <1>9 DEF Ownership

\* The attempt is concluded or parked; its Action stays busy for the handler.
LEMMA RecordAttemptKeeps ==
  ASSUME IInv, NEW r \in Requests, RecordAttempt(r)
  PROVE  Ownership'
<1>1. /\ pc \in [Requests -> PCs] /\ frame \in [Requests -> Frames]
      /\ attempts \in [Attempts -> AttemptRows] /\ pc[r] = "record"
      /\ UNCHANGED <<status, req, boot, parking>>
  BY DEF RecordAttempt, server, IInv, TypeInv, HandlersOK, HandlerTypeOK,
     StoreOK, StoreTypeOK
<1>2. /\ pc' = [pc EXCEPT ![r] = "status"] /\ frame'[r] = frame[r]
      /\ \A s \in Requests \ {r} : frame'[s] = frame[s]
  BY <1>1 DEF RecordAttempt, Step, Goto
<1>3. attempts[r].state = "RUNNING" /\ attempts[r].action = A(r)
      /\ status[A(r)] = "REVERSING"
  BY <1>1 DEF IInv, OwnsAttempt, RunningIsReversing
<1>4. /\ attempts'[r].state = IF frame[r].outcome \in Conclusive
                              THEN "CONCLUDED" ELSE "AWAITING_RECONCILIATION"
      /\ attempts'[r].action = A(r)
      /\ \A t \in Attempts \ {r} : attempts'[t] = attempts[t]
  BY <1>1, <1>3 DEF RecordAttempt, ConcludeAttempt, MarkAwaitingReconciliation,
                    AttemptRows
<1>5. \A t \in Attempts : (Busy(t)' <=> Busy(t))
                          /\ attempts'[t].action = attempts[t].action
  BY <1>1, <1>2, <1>3, <1>4 DEF Busy, Open
<1>6. \A s \in Requests : OwnsAttempt(s)'
  BY <1>1, <1>2, <1>3, <1>4 DEF IInv, OwnsAttempt, A
<1>7. BusyInv'
  BY <1>1, <1>5 DEF IInv, BusyInv
<1>8. RunningIsReversing'
  BY <1>1, <1>4 DEF IInv, RunningIsReversing
<1>9. RecoveryInv'
  BY <1>1, <1>2, <1>4 DEF IInv, RecoveryInv, InFlight, Open
<1> QED
  BY <1>6, <1>7, <1>8, <1>9 DEF Ownership

\* The status transition releases the Action, or leaves it OUTCOME_UNKNOWN
\* under the parked attempt; no other attempt was on it.
LEMMA RecordStatusKeeps ==
  ASSUME IInv, NEW r \in Requests, RecordStatus(r)
  PROVE  Ownership'
<1>1. /\ pc \in [Requests -> PCs] /\ frame \in [Requests -> Frames]
      /\ status \in [Actions -> Statuses] /\ attempts \in [Attempts -> AttemptRows]
      /\ pc[r] = "status" /\ A(r) \in Actions /\ frame[r].outcome \in Outcomes
      /\ UNCHANGED <<attempts, req, boot, parking>>
  BY LocalsTyped DEF RecordStatus, server, IInv, TypeInv, HandlersOK,
     HandlerTypeOK, StoreOK, StoreTypeOK, LocalsFit, A
<1>2. status[A(r)] = "REVERSING"
  BY <1>1 DEF IInv, OwnsAttempt
<1>3. /\ pc' = [pc EXCEPT ![r] = "history"]
      /\ \A s \in Requests \ {r} : frame'[s] = frame[s]
      /\ status' = [status EXCEPT ![A(r)] = StatusAfter(frame[r].outcome)]
  BY <1>1, <1>2 DEF RecordStatus, Step, Goto, UpdateRow
<1>4. \A t \in Attempts \ {r} : Busy(t) =>
        attempts[t].action # A(r) /\ attempts[t].action \in Actions
  BY <1>1, BusyAction DEF IInv, BusyInv, OwnsAttempt, Busy
<1>5. \A t \in Attempts : Busy(t)' => Busy(t)
  BY <1>1, <1>3 DEF Busy, Open
<1>6. Busy(r)' => status'[A(r)] = "OUTCOME_UNKNOWN"
  <2>1. Busy(r)' => attempts[r].state # "CONCLUDED"
    BY <1>1, <1>3 DEF Busy, Open
  <2>2. Busy(r)' => frame[r].outcome = "OUTCOME_UNKNOWN"
    BY <1>1, <2>1 DEF IInv, OwnsAttempt, Outcomes
  <2> QED
    BY <1>1, <1>3, <2>2 DEF StatusAfter
<1>7. attempts[r].action = A(r) /\ attempts[r].state # "RUNNING"
  BY <1>1 DEF IInv, OwnsAttempt
<1>8. \A s \in Requests : OwnsAttempt(s)'
  <2>1. ASSUME NEW s \in Requests \ {r} PROVE OwnsAttempt(s)'
    <3>1. pc[s] = "status" => A(s) # A(r)
      BY <1>4 DEF IInv, OwnsAttempt, Busy
    <3> QED
      BY <1>1, <1>3, <3>1 DEF IInv, OwnsAttempt, A
  <2>2. OwnsAttempt(r)'
    BY <1>1, <1>3 DEF OwnsAttempt
  <2> QED
    BY <2>1, <2>2
<1>9. BusyInv'
  <2> SUFFICES ASSUME NEW t \in Attempts, Busy(t)'
               PROVE  status'[attempts[t].action] \in {"REVERSING", "OUTCOME_UNKNOWN"}
    BY <1>1, <1>5 DEF IInv, BusyInv
  <2>1. CASE t = r
    BY <1>6, <1>7, <2>1
  <2>2. CASE t # r
    BY <1>3, <1>4, <1>5, <2>2 DEF IInv, BusyInv
  <2> QED
    BY <2>1, <2>2
<1>10. RunningIsReversing'
  <2>1. \A t \in Attempts : attempts[t].state = "RUNNING" => Busy(t)
    BY DEF Busy, Open
  <2> QED
    BY <1>1, <1>3, <1>4, <1>7, <2>1 DEF IInv, RunningIsReversing
<1>11. RecoveryInv'
  BY <1>1, <1>3 DEF IInv, RecoveryInv, InFlight, Open
<1> QED
  BY <1>8, <1>9, <1>10, <1>11 DEF Ownership

\* Recovery works while no handler does.
LEMMA RecoverMarkKeeps ==
  ASSUME IInv, NEW t \in Attempts, RecoverMark(t)
  PROVE  Ownership'
<1>1. /\ attempts \in [Attempts -> AttemptRows]
      /\ UNCHANGED <<pc, req, frame, status, parking>>
      /\ boot = "mark" /\ boot' = "status"
  BY DEF RecoverMark, handlers, IInv, TypeInv, StoreOK, StoreTypeOK
<1>2. \A u \in Attempts : /\ attempts'[u].action = attempts[u].action
                          /\ Open(u)' <=> Open(u)
                          /\ attempts'[u].state = "RUNNING"
                               => attempts[u].state = "RUNNING"
  BY <1>1 DEF RecoverMark, MarkAwaitingReconciliation, AttemptRows, Open
<1>3. \A s \in Requests : pc[s] \in {"idle", "done"}
  BY <1>1 DEF IInv, RecoveryInv, InFlight
<1>4. \A s \in Requests : OwnsAttempt(s)'
  BY <1>1, <1>3 DEF OwnsAttempt
<1>5. BusyInv' /\ RunningIsReversing'
  BY <1>1, <1>2, <1>3 DEF IInv, BusyInv, RunningIsReversing, Busy
<1>6. RecoveryInv'
  BY <1>1, <1>2, <1>3 DEF IInv, RecoveryInv, InFlight, TypeInv, ServerTypeOK
<1> QED
  BY <1>4, <1>5, <1>6 DEF Ownership

\* Recovery moves the Action of an attempt it parked to OUTCOME_UNKNOWN, which
\* the parked attempt may keep busy.
LEMMA RecoverStatusKeeps ==
  ASSUME IInv, NEW t \in Attempts, RecoverStatus(t)
  PROVE  Ownership'
<1> DEFINE a == attempts[t].action
<1>1. /\ attempts \in [Attempts -> AttemptRows] /\ status \in [Actions -> Statuses]
      /\ UNCHANGED <<pc, req, frame, attempts, parking>>
      /\ boot = "status" /\ boot' # "up"
  BY DEF RecoverStatus, handlers, IInv, TypeInv, StoreOK, StoreTypeOK
<1>2. \A s \in Requests : pc[s] \in {"idle", "done"}
  BY <1>1 DEF IInv, RecoveryInv, InFlight
<1>3. Busy(t) /\ a \in Actions /\ attempts[t].state # "RUNNING"
  <2>1. Open(t) /\ attempts[t].state # "RUNNING"
    BY DEF RecoverStatus, RunningAttempts, IInv, RecoveryInv
  <2> QED
    BY <2>1, BusyAction DEF Busy
<1>4. status' = status \/ status' = [status EXCEPT ![a] = "OUTCOME_UNKNOWN"]
  BY DEF RecoverStatus, UpdateRow
<1>5. \A u \in Attempts : attempts[u].state = "RUNNING" =>
        attempts[u].action # a /\ attempts[u].action \in Actions
  <2>1. \A u \in Attempts : attempts[u].state = "RUNNING" => Busy(u)
    BY DEF Busy, Open
  <2> QED
    BY <1>3, <2>1, BusyAction DEF IInv, BusyInv
<1>6. \A s \in Requests : OwnsAttempt(s)'
  BY <1>1, <1>2 DEF OwnsAttempt
<1>7. BusyInv'
  <2>1. \A u \in Attempts : (Busy(u)' <=> Busy(u))
                            /\ (Busy(u) => attempts[u].action \in Actions)
    BY <1>1, BusyAction DEF Busy, Open
  <2> QED
    BY <1>1, <1>3, <1>4, <2>1 DEF IInv, BusyInv
<1>8. RunningIsReversing'
  BY <1>1, <1>3, <1>4, <1>5 DEF IInv, RunningIsReversing
<1>9. RecoveryInv'
  BY <1>1, <1>2 DEF IInv, RecoveryInv, InFlight, Open
<1> QED
  BY <1>6, <1>7, <1>8, <1>9 DEF Ownership

\* The other steps that are not a handler's own.
LEMMA SystemKeeps ==
  ASSUME IInv,
         \/ \E r \in Requests : ProviderActs(r)
         \/ Crash \/ RecoverScan \/ (\E t \in Attempts : RecoverHistory(t))
         \/ Tick \/ AddDependency \/ UNCHANGED vars
  PROVE  Ownership'
<1>1. UNCHANGED <<status, attempts, req>>
  BY DEF ProviderActs, Crash, RecoverScan, RecoverHistory, Tick, AddDependency,
         vars, tables, handlers
<1>2. pc \in [Requests -> PCs]
  BY DEF IInv, TypeInv, HandlersOK, HandlerTypeOK
<1>3. CASE Crash
  <2>1. \A s \in Requests : pc'[s] \in {"idle", "done"}
    BY <1>2, <1>3 DEF Crash, InFlight
  <2>2. \A s \in Requests : OwnsAttempt(s)'
    BY <2>1 DEF OwnsAttempt
  <2>3. BusyInv' /\ RunningIsReversing'
    BY <1>1, <2>1 DEF IInv, BusyInv, RunningIsReversing, Busy, Open
  <2>4. RecoveryInv'
    BY <1>3, <2>1 DEF Crash, RecoveryInv, InFlight
  <2> QED
    BY <2>2, <2>3, <2>4 DEF Ownership
<1>4. CASE ~ Crash
  <2>1. UNCHANGED <<pc, frame>>
    BY <1>4 DEF ProviderActs, RecoverScan, RecoverHistory, Tick, AddDependency,
                vars, handlers
  <2>2. \A s \in Requests : OwnsAttempt(s)'
    BY <1>1, <2>1 DEF IInv, OwnsAttempt, A
  <2>3. BusyInv' /\ RunningIsReversing'
    BY <1>1, <2>1 DEF IInv, BusyInv, RunningIsReversing, Busy, Open
  <2>4. RecoveryInv'
    <3>1. /\ boot' = "up" => parking' = {}
          /\ boot' # "up" => boot # "up" \/ parking' # {}
      BY <1>4 DEF ProviderActs, RecoverScan, RecoverHistory, Tick, AddDependency,
                  vars, server, IInv, RecoveryInv
    <3>2. boot' # "up" => boot # "up"
      BY <1>4 DEF ProviderActs, RecoverScan, RecoverHistory, Tick, AddDependency,
                  vars, server
    <3>3. \A t \in parking' : Open(t)
      BY <1>4 DEF ProviderActs, RecoverScan, RecoverHistory, Tick, AddDependency,
                  vars, server, IInv, RecoveryInv, RunningAttempts, Open
    <3> QED
      BY <1>1, <2>1, <3>1, <3>2, <3>3 DEF IInv, RecoveryInv, InFlight, Open
  <2> QED
    BY <2>2, <2>3, <2>4 DEF Ownership
<1> QED
  BY <1>3, <1>4

\* Every step of the service keeps attempts the owners of their Actions.
LEMMA OwnershipStep ==
  IInv /\ [Next]_vars => Ownership'
  BY ReadersKeep, CallersKeep, SweepExpireKeeps, BeginKeeps, RecordAttemptKeeps,
     RecordStatusKeeps, RecoverMarkKeeps, RecoverStatusKeeps, SystemKeeps
  DEF Next, Handle, AllAnswered, Recover

\* No attempt exists at the start, so that none owns an Action.
LEMMA OwnershipInit ==
  Init => Ownership
  BY DEF Init, StoreInit, Ownership, OwnsAttempt, BusyInv, Busy, Open, NoAttempt,
         RunningIsReversing, RecoveryInv, InFlight

-----------------------------------------------------------------------------
(* The theorems. *)

\* The invariant is inductive: attempts own their Actions in every state of
\* every run of the service.
THEOREM Inductive == Spec => []IInv
<1>1. Init => IInv
  BY TypeInit, OwnershipInit DEF IInv, Ownership
<1>2. IInv /\ [Next]_vars => IInv'
  BY TypeStep, OwnershipStep DEF IInv, Ownership
<1> QED
  BY <1>1, <1>2, PTL DEF Spec

\* Every variable keeps a value of its type: whatever the handlers, crashes and
\* recoveries write to a table is a value its CHECK constraints accept.
THEOREM TypeCorrect == Spec => []TypeOK
<1>1. IInv => TypeOK
  BY DEF IInv, TypeInv, TypeOK, StoreOK, HandlersOK
<1> QED
  BY <1>1, Inductive, PTL

\* A restart always gets the server up: whenever the process dies, the Action
\* of every RUNNING attempt is REVERSING, so recovery can park it.
THEOREM RunningParkable == Spec => []RunningIsReversing
<1>1. IInv => RunningIsReversing
  BY DEF IInv
<1> QED
  BY <1>1, Inductive, PTL

\* An Action has at most one attempt that is not concluded, and while it has
\* one, neither another reversal nor its expiry can start.
THEOREM OneOpenAttempt == Spec => []OpenAttemptOwnsAction
<1>1. IInv => OpenAttemptOwnsAction
  BY DEF IInv, BusyInv, Busy, OpenAttemptOwnsAction
<1> QED
  BY <1>1, Inductive, PTL
=============================================================================
