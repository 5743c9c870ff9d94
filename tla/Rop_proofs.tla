----------------------------- MODULE Rop_proofs -----------------------------
(***************************************************************************)
(* Theorems about Reverse requests and reconciliation rounds together:     *)
(* uncertainty is resolved on recorded evidence only, it stays resolvable, *)
(* what rounds tell is true, and the contract is kept.                     *)
(***************************************************************************)
EXTENDS Rop, Service_proofs

USE DEF Requests

\* The labels of a round that works on an uncertain attempt, and those after
\* its lookup proved what the attempt did.
Resolving == {"lookup", "observe", "conclude", "status", "history", "reread", "reply"}
Concluding == {"conclude", "status", "history"}
Settled == {"REVERSED", "PARTIALLY_REVERSED", "REVERSE_FAILED"}

\* What a round's locals hold at the labels that read them; rounds run only
\* while the server is up.
RoundFits(c) ==
  /\ rpc[c] \notin {"idle", "done"} => round[c].action \in Actions /\ boot = "up"
  /\ rpc[c] \in {"open", "latest"} => round[c].seen \in Statuses
  /\ rpc[c] \in Resolving =>
       round[c].attempt \in Attempts /\ round[c].seen = "OUTCOME_UNKNOWN"
  /\ rpc[c] = "observe" => round[c].evidence \in Evidence
  /\ rpc[c] \in Concluding => round[c].evidence \in Evidence \ {"INCONCLUSIVE"}
  /\ rpc[c] = "reply" => round[c].outcome \in ObservedResults \cup {"OUTCOME_UNKNOWN"}

\* A status a round has read has since moved, at most, out of uncertainty.
SeenInv(c) ==
  rpc[c] \in {"open", "latest"} \cup Resolving =>
    /\ round[c].seen = "OUTCOME_UNKNOWN" =>
         status[round[c].action] \in {"OUTCOME_UNKNOWN", "REVERSED", "REVERSE_FAILED"}
    /\ round[c].seen \in Settled => status[round[c].action] = round[c].seen

\* What proving evidence says of an attempt, for good.
Shows(t, e) ==
  /\ e = "PROVEN_REVERSED" => effect[t] = "full"
  /\ e = "PROVEN_NOT_REVERSED" => effect[t] = "none" /\ t \notin calls

\* The attempt a round works on is the only one that may still act on its Action
\* until the uncertainty is resolved, and then it is resolved by that attempt.
TargetInv(c) ==
  LET t == round[c].attempt
      a == round[c].action
      e == round[c].evidence
  IN  rpc[c] \in Resolving =>
        /\ attempts[t].action = a
        /\ \/ attempts[t].state = "AWAITING_RECONCILIATION"
           \/ attempts[t].state = "CONCLUDED" /\ Proven(t)
        /\ status[a] = "OUTCOME_UNKNOWN" =>
             \A u \in Attempts : MayAct(u) /\ attempts[u].action = a => u = t
        /\ status[a] # "OUTCOME_UNKNOWN" => attempts[t].observed = status[a]
        /\ rpc[c] \in {"observe"} \cup Concluding => Shows(t, e)
        /\ rpc[c] \in Concluding => e \in observations[t]
        /\ rpc[c] \in {"status", "history"} => attempts[t].observed = Proves(e)
        /\ rpc[c] = "reply" /\ round[c].outcome \in ObservedResults =>
             attempts[t].observed = round[c].outcome

\* Rounds that work on one Action work on one attempt.
SameTarget ==
  \A c, d \in Rounds :
    /\ rpc[c] \in Resolving /\ rpc[d] \in Resolving
    /\ round[c].action = round[d].action
    => round[c].attempt = round[d].attempt

RoundInv == (\A c \in Rounds : RoundFits(c) /\ SeenInv(c) /\ TargetInv(c)) /\ SameTarget

\* A settled status is the recorded result of an attempt.
SettledInv ==
  \A a \in Actions : status[a] \in Settled =>
    \E u \in Attempts : attempts[u].action = a /\ attempts[u].observed = status[a]

\* The proof of what an attempt did is its recorded result, and a round will
\* settle the Action, unless one was cut off.
Settling(t) ==
  /\ attempts[t].state = "CONCLUDED"
  /\ attempts[t].observed \in {Proves(e) : e \in Proving(t)}
  /\ \/ crashes + aborts > 0
     \/ \E c \in Rounds : rpc[c] = "status" /\ round[c].attempt = t

UncertainInv ==
  \A a \in Actions : status[a] = "OUTCOME_UNKNOWN" =>
    \E t \in Attempts : /\ attempts[t].action = a
                        /\ \/ attempts[t].state = "AWAITING_RECONCILIATION"
                           \/ Settling(t)

\* A result told of an attempt is the recorded one, and differs from a settled
\* status told with it only where another attempt settled the Action, or this
\* one did later.
ToldInv(c) ==
  LET t == told[c].attempt IN
  told[c].kind = "RESULT" =>
    /\ t \in Attempts /\ attempts[t].state # "NONE"
    /\ told[c].outcome \in ObservedResults \cup {"OUTCOME_UNKNOWN"}
    /\ told[c].outcome \in ObservedResults => attempts[t].observed = told[c].outcome
    /\ told[c].status \in Settled /\ told[c].outcome # told[c].status =>
         \E u \in Attempts : /\ attempts[u].action = attempts[t].action
                             /\ attempts[u].observed = told[c].status
                             /\ u = t <=> told[c].outcome = "OUTCOME_UNKNOWN"

RecordInv ==
  /\ \A t \in Attempts : attempts[t].state = "NONE" => attempts[t].action = None
  /\ SettledInv
  /\ UncertainInv
  /\ \A c \in Rounds : ToldInv(c)

RopInv == ReconcileTypeOK /\ IInv /\ EffectInv /\ RoundInv /\ RecordInv

-----------------------------------------------------------------------------
(* What a request's, the provider's and recovery's steps do to an attempt that *)
(* is parked or concluded, and to the statuses.                                *)

\* The provider gets its calls from handlers and acts on them itself.
LEMMA WhoCalls ==
  ASSUME [Next]_vars
  PROVE  \/ UNCHANGED <<calls, effect>>
         \/ \E r \in Requests : CallProvider(r) \/ ProviderActs(r)
<1>1. UNCHANGED vars => UNCHANGED <<calls, effect>>
  BY DEF vars, provider
<1>2. ASSUME NEW r \in Requests, Handle(r), ~ CallProvider(r)
      PROVE  UNCHANGED <<calls, effect>>
  BY <1>2 DEF Handle, SweepSelect, SweepExpire, SweepHistory, LookupKey,
     Converge, ReadAction, ReadEdges, CheckDependent, Begin, BeginRefused,
     ReceiveAnswer, ProviderTimeout, RecordResidue, RecordAttempt, RecordStatus,
     RecordHistory, PollAttempt, ProjectAction, provider
<1>3. ASSUME (\E r \in Requests : Arrive(r) \/ Abort(r)) \/ Crash \/ Recover \/ Tick
               \/ AddDependency \/ AllAnswered
      PROVE  UNCHANGED <<calls, effect>>
  BY <1>1, <1>3 DEF Arrive, Abort, Crash, Recover, RecoverScan, RecoverMark,
     RecoverStatus, RecoverHistory, Tick, AddDependency, AllAnswered, provider
<1> QED
  BY <1>1, <1>2, <1>3 DEF Next

\* Only a request that is still RUNNING is concluded or parked, and an effect
\* comes only from a call that is held.
LEMMA ParkedStays ==
  ASSUME IInv, EffectInv, [Next]_vars, NEW t \in Attempts,
         attempts[t].state \in {"AWAITING_RECONCILIATION", "CONCLUDED"}
  PROVE  /\ attempts'[t] = attempts[t]
         /\ t \notin calls => t \notin calls' /\ effect'[t] = effect[t]
<1>1. attempts \in [Attempts -> AttemptRows] /\ effect \in [Attempts -> Effects]
  BY DEF IInv, TypeInv, StoreOK, StoreTypeOK, ProviderTypeOK
<1>2. attempts'[t] = attempts[t]
  <2>1. ASSUME NEW r \in Requests, Begin(r) PROVE attempts'[t] = attempts[t]
    <3>1. attempts[r].state = "NONE"
      BY <2>1 DEF Begin, EffectInv, LocalInv, RowInv, Fresh, PCs, Working
    <3> QED
      BY <1>1, <2>1, <3>1 DEF Begin, CreateAttempt
  <2>2. ASSUME NEW r \in Requests, RecordAttempt(r) PROVE attempts'[t] = attempts[t]
    <3>1. attempts[r].state = "RUNNING"
      BY <2>2 DEF RecordAttempt, IInv, OwnsAttempt
    <3> QED
      BY <1>1, <2>2, <3>1 DEF RecordAttempt, ConcludeAttempt, MarkAwaitingReconciliation
  <2>3. ASSUME NEW r \in Requests, RecoverMark(r) PROVE attempts'[t] = attempts[t]
    BY <1>1, <2>3 DEF RecoverMark, MarkAwaitingReconciliation
  <2>4. \/ attempts' = attempts
        \/ \E r \in Requests : Begin(r) \/ RecordAttempt(r) \/ RecoverMark(r)
    BY RowWriters
  <2> QED
    BY <2>1, <2>2, <2>3, <2>4
<1>3. \/ UNCHANGED <<calls, effect>>
      \/ \E r \in Requests : CallProvider(r) \/ ProviderActs(r)
  BY WhoCalls
<1>4. ASSUME NEW r \in Requests, CallProvider(r), t \notin calls
      PROVE  t \notin calls' /\ effect'[t] = effect[t]
  <2>1. attempts[r].state = "RUNNING"
    BY <1>4 DEF CallProvider, IInv, OwnsAttempt
  <2> QED
    BY <1>4, <2>1 DEF CallProvider, Call
<1>5. ASSUME NEW r \in Requests, ProviderActs(r), t \notin calls
      PROVE  t \notin calls' /\ effect'[t] = effect[t]
  BY <1>1, <1>5 DEF ProviderActs, ActOnCall
<1> QED
  BY <1>2, <1>3, <1>4, <1>5

\* An attempt that may act did so before, unless Transaction A creates it now.
LEMMA ActorsBegin ==
  ASSUME IInv, EffectInv, [Next]_vars, NEW u \in Attempts, MayAct(u)'
  PROVE  MayAct(u) \/ status[attempts'[u].action] = "APPLIED"
<1>1. attempts \in [Attempts -> AttemptRows] /\ effect \in [Attempts -> Effects]
      /\ pc \in [Requests -> PCs]
  BY DEF IInv, TypeInv, StoreOK, StoreTypeOK, ProviderTypeOK, HandlersOK, HandlerTypeOK
<1>2. Begin(u) => status[attempts'[u].action] = "APPLIED"
  BY <1>1 DEF Begin, CreateAttempt, UpdateRow
<1>3. Open(u)' => MayAct(u) \/ Begin(u)
  <2>1. attempts[u].state = "NONE" /\ ~ Begin(u) => attempts'[u] = attempts[u]
    BY RowsStable
  <2>2. attempts[u].state = "CONCLUDED" => attempts'[u] = attempts[u]
    BY ParkedStays
  <2>3. attempts[u].state \in ExecutionStates \cup {"NONE"}
    BY <1>1 DEF AttemptRows
  <2> QED
    BY <2>1, <2>2, <2>3 DEF Open, MayAct, Busy, ExecutionStates
<1>4. pc'[u] = "status" => MayAct(u)
  <2> SUFFICES ASSUME pc'[u] = "status", pc[u] # "status" PROVE MayAct(u)
    BY DEF MayAct, Busy
  <2>1. Arrive(u) \/ Handle(u) \/ Abort(u)
    BY <1>1, OtherSteps, OneHandlerMoves DEF IInv, TypeInv, handlers, Crash
  <2>2. pc[u] = "record"
    BY <1>1, <2>1
    DEF Handle, Arrive, SweepSelect, SweepExpire, SweepHistory, LookupKey, Converge,
        UseKeyRecord, ReadAction, ReadEdges, CheckDependent, Begin, BeginRefused,
        CallProvider, ReceiveAnswer, ProviderTimeout, RecordResidue, RecordAttempt,
        RecordStatus, RecordHistory, PollAttempt, ProjectAction, Abort, Respond,
        Step, Goto, AfterSweep, AfterAnswer
  <2> QED
    BY <2>2 DEF IInv, OwnsAttempt, MayAct, Busy, Open
<1>5. u \in calls' \/ effect'[u] # "none" => MayAct(u)
  <2>1. \/ UNCHANGED <<calls, effect>>
        \/ \E r \in Requests : CallProvider(r) \/ ProviderActs(r)
    BY WhoCalls
  <2>2. ASSUME NEW r \in Requests, CallProvider(r), u \in calls' \/ effect'[u] # "none"
        PROVE  MayAct(u)
    BY <2>2 DEF CallProvider, Call, IInv, OwnsAttempt, MayAct, Busy, Open
  <2>3. ASSUME NEW r \in Requests, ProviderActs(r), u \in calls' \/ effect'[u] # "none"
        PROVE  MayAct(u)
    BY <1>1, <2>3 DEF ProviderActs, ActOnCall, MayAct
  <2> QED
    BY <2>1, <2>2, <2>3 DEF MayAct
<1> QED
  BY <1>2, <1>3, <1>4, <1>5 DEF MayAct, Busy

\* A request or recovery settles a status by a recorded result, and leaves it
\* uncertain under a parked attempt.
LEMMA StatusSettles ==
  ASSUME IInv, EffectInv, [Next]_vars, NEW a \in Actions, status'[a] # status[a]
  PROVE  /\ status[a] \in {"APPLIED", "REVERSING"}
         /\ status'[a] \in Settled =>
              \E u \in Attempts : attempts'[u].action = a
                                  /\ attempts'[u].observed = status'[a]
         /\ status'[a] = "OUTCOME_UNKNOWN" =>
              \E t \in Attempts : attempts'[t].action = a
                                  /\ attempts'[t].state = "AWAITING_RECONCILIATION"
<1>1. status \in [Actions -> Statuses] /\ frame \in [Requests -> Frames]
  BY DEF IInv, TypeInv, StoreOK, StoreTypeOK, HandlersOK, HandlerTypeOK
<1>2. ASSUME NEW r \in Requests, SweepExpire(r) \/ Begin(r)
      PROVE  status[a] = "APPLIED" /\ status'[a] \in {"EXPIRED", "REVERSING"}
  <2>1. \/ status' = status
        \/ \E b \in Actions \cup {None} : \E to \in {"EXPIRED", "REVERSING"} :
             UpdateRow(b, "APPLIED", to)
    BY <1>1, <1>2, LocalsTyped
    DEF SweepExpire, Begin, Frames, IInv, TypeInv, A
  <2> QED
    BY <1>1, <2>1 DEF UpdateRow
<1>3. ASSUME NEW t \in Attempts, RecoverStatus(t)
      PROVE  /\ status[a] = "REVERSING" /\ status'[a] = "OUTCOME_UNKNOWN"
             /\ attempts'[t].action = a
             /\ attempts'[t].state = "AWAITING_RECONCILIATION"
  <2>1. attempts' = attempts /\ attempts[t].state = "AWAITING_RECONCILIATION"
    BY <1>3 DEF RecoverStatus, RunningAttempts, IInv, RecoveryInv, Open
  <2> QED
    BY <1>1, <1>3, <2>1 DEF RecoverStatus, UpdateRow
<1>4. ASSUME NEW r \in Requests, RecordStatus(r)
      PROVE  /\ status[a] = "REVERSING" /\ attempts'[r].action = a
             /\ status'[a] \in Settled => attempts'[r].observed = status'[a]
             /\ status'[a] = "OUTCOME_UNKNOWN" =>
                  attempts'[r].state = "AWAITING_RECONCILIATION"
  <2> DEFINE o == frame[r].outcome
  <2>1. /\ pc[r] = "status" /\ o \in Outcomes /\ attempts' = attempts
        /\ status' = status \/ UpdateRow(A(r), "REVERSING", StatusAfter(o))
    BY <1>4, LocalsTyped DEF RecordStatus, IInv, TypeInv, LocalsFit
  <2>2. status[a] = "REVERSING" /\ a = A(r) /\ status'[a] = StatusAfter(o)
    BY <1>1, <2>1 DEF UpdateRow
  <2>3. attempts[r].action = A(r)
    BY <2>1 DEF IInv, OwnsAttempt
  <2>4. o \in Conclusive => attempts[r].observed = ObservedAs(o)
    BY <2>1 DEF EffectInv, LocalInv, OutcomeInv
  <2>5. o \notin Conclusive => attempts[r].state = "AWAITING_RECONCILIATION"
    BY <2>1 DEF IInv, OwnsAttempt
  <2>6. StatusAfter(o) \in Settled => o \in Conclusive /\ ObservedAs(o) = StatusAfter(o)
    BY <2>1 DEF StatusAfter, ObservedAs, Settled, Outcomes, Conclusive, ObservedResults
  <2>7. StatusAfter(o) = "OUTCOME_UNKNOWN" => o \notin Conclusive
    BY <2>1 DEF StatusAfter, Outcomes, Conclusive, ObservedResults
  <2> QED
    BY <2>1, <2>2, <2>3, <2>4, <2>5, <2>6, <2>7
<1>5. \/ status' = status
      \/ \E r \in Requests : SweepExpire(r) \/ Begin(r) \/ RecordStatus(r)
      \/ \E t \in Attempts : RecoverStatus(t)
  BY WhoMoves
<1> QED
  BY <1>2, <1>3, <1>4, <1>5 DEF Settled

-----------------------------------------------------------------------------
(* What a step that is not a round's own leaves of what is said of the round. *)

\* Rows keep their Action; a concluded one is final, a parked one is concluded by
\* what is proved of it; a new actor comes only with a new reversal.
RowsAge ==
  \A t \in Attempts :
    /\ attempts[t].state # "NONE" =>
         attempts'[t].state # "NONE" /\ attempts'[t].action = attempts[t].action
    /\ attempts[t].state = "CONCLUDED" => attempts'[t] = attempts[t]
    /\ attempts[t].state = "AWAITING_RECONCILIATION" =>
         \/ attempts'[t] = attempts[t]
         \/ attempts'[t].state = "CONCLUDED" /\ Proven(t)'
    /\ attempts[t].state \in {"AWAITING_RECONCILIATION", "CONCLUDED"} /\ t \notin calls =>
         t \notin calls' /\ effect'[t] = effect[t]
    /\ observations[t] \subseteq observations'[t]
    /\ MayAct(t)' => MayAct(t) \/ status[attempts'[t].action] = "APPLIED"

\* A status leaves uncertainty for the result of the attempt the round works on.
StatusAges(d) ==
  \A a \in Actions :
    \/ status'[a] = status[a]
    \/ status[a] \in {"APPLIED", "REVERSING"}
    \/ /\ status[a] = "OUTCOME_UNKNOWN" /\ status'[a] \in {"REVERSED", "REVERSE_FAILED"}
       /\ rpc[d] \in Resolving /\ round[d].action = a =>
            attempts'[round[d].attempt].observed = status'[a]

\* What is proved of an attempt stays true.
LEMMA ProofStays ==
  ASSUME IInv, EffectInv, RowsAge, NEW t \in Attempts,
         attempts[t].state \in {"AWAITING_RECONCILIATION", "CONCLUDED"}
  PROVE  /\ attempts[t].state = "CONCLUDED" /\ Proven(t) => Proven(t)'
         /\ \A e : Shows(t, e) => Shows(t, e)'
<1>1. effect[t] # "none" => t \notin calls
  BY HeldCall
<1>2. t \notin calls => t \notin calls' /\ effect'[t] = effect[t]
  BY DEF RowsAge
<1>3. attempts[t].state = "CONCLUDED" => attempts'[t] = attempts[t]
  BY DEF RowsAge
<1> QED
  BY <1>1, <1>2, <1>3 DEF Proven, Shows

\* What is said of a round holds while it does not move.
LEMMA RoundKept ==
  ASSUME IInv, EffectInv, RowsAge, NEW d \in Rounds, StatusAges(d),
         RoundFits(d), SeenInv(d), TargetInv(d),
         rpc'[d] = rpc[d], round'[d] = round[d],
         rpc[d] \notin {"idle", "done"} => boot' = boot
  PROVE  RoundFits(d)' /\ SeenInv(d)' /\ TargetInv(d)'
<1>1. RoundFits(d)'
  BY DEF RoundFits
<1>2. SeenInv(d)'
  <2> SUFFICES ASSUME rpc[d] \in {"open", "latest"} \cup Resolving PROVE SeenInv(d)'
    BY DEF SeenInv
  <2>1. round[d].action \in Actions
    BY DEF RoundFits, Resolving
  <2> QED
    BY <2>1 DEF SeenInv, StatusAges, Settled
<1>3. TargetInv(d)'
  <2> SUFFICES ASSUME rpc[d] \in Resolving PROVE TargetInv(d)'
    BY DEF TargetInv
  <2> DEFINE t == round[d].attempt
             a == round[d].action
             e == round[d].evidence
  <2>1. a \in Actions /\ t \in Attempts
    BY DEF RoundFits, Resolving
  <2>2. /\ attempts[t].action = a
        /\ \/ attempts[t].state = "AWAITING_RECONCILIATION"
           \/ attempts[t].state = "CONCLUDED" /\ Proven(t)
    BY DEF TargetInv
  <2>3. status[a] \in {"OUTCOME_UNKNOWN", "REVERSED", "REVERSE_FAILED"}
    BY DEF RoundFits, SeenInv, Resolving
  <2>4. /\ attempts'[t].action = a
        /\ \/ attempts'[t].state = "AWAITING_RECONCILIATION"
           \/ attempts'[t].state = "CONCLUDED" /\ Proven(t)'
    BY <2>1, <2>2, ProofStays DEF RowsAge
  <2>5. attempts[t].observed # None => attempts'[t].observed = attempts[t].observed
    BY <2>1, <2>2 DEF RowsAge, EffectInv, LocalInv, RowInv
  <2>6. status'[a] = "OUTCOME_UNKNOWN" =>
          \A u \in Attempts : MayAct(u)' /\ attempts'[u].action = a => u = t
    <3> SUFFICES ASSUME status'[a] = "OUTCOME_UNKNOWN", NEW u \in Attempts,
                        MayAct(u)', attempts'[u].action = a
                 PROVE  u = t
      OBVIOUS
    <3>1. status[a] = "OUTCOME_UNKNOWN"
      BY <2>1, <2>3 DEF StatusAges
    <3>2. MayAct(u)
      BY <3>1 DEF RowsAge
    <3>3. attempts[u].state # "NONE"
      BY <3>2 DEF MayAct, Busy, Open, EffectInv, LocalInv, RowInv, CallInv, Fresh,
                  IInv, OwnsAttempt
    <3> QED
      BY <3>1, <3>2, <3>3 DEF RowsAge, TargetInv
  <2>7. status'[a] # "OUTCOME_UNKNOWN" => attempts'[t].observed = status'[a]
    <3>1. CASE status'[a] = status[a]
      <4>1. status[a] # "OUTCOME_UNKNOWN" =>
              attempts[t].observed = status[a] /\ status[a] \in ObservedResults
        BY <2>3 DEF TargetInv, ObservedResults
      <4> QED
        BY <2>5, <3>1, <4>1, NoneAssumption
    <3>2. CASE status'[a] # status[a]
      BY <2>1, <2>3, <3>2 DEF StatusAges
    <3> QED
      BY <3>1, <3>2
  <2>8. /\ rpc[d] \in {"observe"} \cup Concluding => Shows(t, e)'
        /\ rpc[d] \in Concluding => e \in observations'[t]
    <3>1. /\ rpc[d] \in {"observe"} \cup Concluding => Shows(t, e)
          /\ rpc[d] \in Concluding => e \in observations[t]
      BY DEF TargetInv
    <3>2. e' = e
      OBVIOUS
    <3>3. \A x : Shows(t, x) => Shows(t, x)'
      BY <2>1, <2>2, ProofStays
    <3> QED
      BY <2>1, <3>1, <3>2, <3>3 DEF RowsAge
  <2>9. rpc[d] \in {"status", "history"} => attempts'[t].observed = Proves(e)
    <3>1. Proves(e) \in ObservedResults
      BY DEF Proves, ObservedResults
    <3> QED
      BY <2>5, <3>1, NoneAssumption DEF TargetInv
  <2>10. rpc[d] = "reply" /\ round[d].outcome \in ObservedResults =>
           attempts'[t].observed = round[d].outcome
    BY <2>5, NoneAssumption DEF TargetInv
  <2> QED
    BY <2>4, <2>6, <2>7, <2>8, <2>9, <2>10 DEF TargetInv
<1> QED
  BY <1>1, <1>2, <1>3

\* What was told stays true.
LEMMA ToldKept ==
  ASSUME IInv, EffectInv, RowsAge, NEW d \in Rounds, ToldInv(d), told'[d] = told[d]
  PROVE  ToldInv(d)'
<1> SUFFICES ASSUME told[d].kind = "RESULT" PROVE ToldInv(d)'
  BY DEF ToldInv
<1> DEFINE t == told[d].attempt
<1>1. t \in Attempts /\ attempts[t].state # "NONE"
  BY DEF ToldInv
<1>2. attempts'[t].state # "NONE" /\ attempts'[t].action = attempts[t].action
  BY <1>1 DEF RowsAge
<1>3. ASSUME NEW u \in Attempts, attempts[u].observed \in ObservedResults
      PROVE  /\ attempts'[u].observed = attempts[u].observed
             /\ attempts'[u].action = attempts[u].action
  <2>1. attempts[u].state = "CONCLUDED"
    BY <1>3, NoneAssumption DEF EffectInv, LocalInv, RowInv
  <2> QED
    BY <2>1 DEF RowsAge
<1>4. Settled \subseteq ObservedResults
  BY DEF Settled, ObservedResults
<1> QED
  BY <1>1, <1>2, <1>3, <1>4 DEF ToldInv

\* What is recorded of settled and uncertain Actions is kept by a step after
\* which each status is as before or as its attempts say.
LEMMA RecordsKept ==
  ASSUME IInv, EffectInv, RowsAge, RecordInv,
         \A t \in Attempts : attempts'[t].state = "NONE" => attempts'[t] = attempts[t],
         \A a \in Actions : status'[a] # status[a] =>
           /\ status'[a] \in Settled =>
                \E u \in Attempts : attempts'[u].action = a
                                    /\ attempts'[u].observed = status'[a]
           /\ status'[a] = "OUTCOME_UNKNOWN" =>
                \E t \in Attempts : attempts'[t].action = a
                                    /\ attempts'[t].state = "AWAITING_RECONCILIATION",
         \A t \in Attempts :
           /\ status[attempts[t].action] = "OUTCOME_UNKNOWN"
           /\ status'[attempts[t].action] = "OUTCOME_UNKNOWN"
           /\ attempts[t].state = "AWAITING_RECONCILIATION" \/ Settling(t)
           => attempts'[t].state = "AWAITING_RECONCILIATION" \/ Settling(t)',
         \A d \in Rounds : ToldInv(d)'
  PROVE  RecordInv'
<1>1. ASSUME NEW t \in Attempts, attempts'[t].state = "NONE"
      PROVE  attempts'[t].action = None
  BY <1>1 DEF RecordInv
<1>2. SettledInv'
  <2> SUFFICES ASSUME NEW a \in Actions, status'[a] \in Settled
               PROVE  \E u \in Attempts : attempts'[u].action = a
                                          /\ attempts'[u].observed = status'[a]
    BY DEF SettledInv
  <2>1. CASE status'[a] # status[a]
    BY <2>1
  <2>2. CASE status'[a] = status[a]
    <3>1. PICK u \in Attempts : attempts[u].action = a /\ attempts[u].observed = status[a]
      BY <2>2 DEF RecordInv, SettledInv
    <3>2. attempts[u].observed # None
      BY <2>2, <3>1, NoneAssumption DEF Settled, ObservedResults
    <3>3. attempts'[u] = attempts[u]
      BY <3>2 DEF RowsAge, EffectInv, LocalInv, RowInv
    <3> QED
      BY <2>2, <3>1, <3>3
  <2> QED
    BY <2>1, <2>2
<1>3. UncertainInv'
  <2> SUFFICES ASSUME NEW a \in Actions, status'[a] = "OUTCOME_UNKNOWN"
               PROVE  \E t \in Attempts :
                        /\ attempts'[t].action = a
                        /\ \/ attempts'[t].state = "AWAITING_RECONCILIATION"
                           \/ Settling(t)'
    BY DEF UncertainInv
  <2>1. CASE status'[a] # status[a]
    BY <2>1
  <2>2. CASE status'[a] = status[a]
    <3>1. PICK t \in Attempts : /\ attempts[t].action = a
                                /\ \/ attempts[t].state = "AWAITING_RECONCILIATION"
                                   \/ Settling(t)
      BY <2>2 DEF RecordInv, UncertainInv
    <3>2. attempts'[t].action = a
      BY <3>1 DEF RowsAge, Settling
    <3> QED
      BY <2>2, <3>1, <3>2
  <2> QED
    BY <2>1, <2>2
<1> QED
  BY <1>1, <1>2, <1>3 DEF RecordInv

-----------------------------------------------------------------------------
(* The steps of requests, of the provider and of the server. *)

\* What they do to rows and statuses is what rounds can stand.
LEMMA ServiceAges ==
  ASSUME IInv, EffectInv, [Next]_vars, UNCHANGED observations
  PROVE  /\ RowsAge
         /\ \A d \in Rounds : StatusAges(d)
         /\ \A t \in Attempts : attempts'[t].state = "NONE" => attempts'[t] = attempts[t]
<1>1. RowsAge
  <2> SUFFICES ASSUME NEW t \in Attempts
      PROVE
        /\ attempts[t].state # "NONE" =>
             attempts'[t].state # "NONE" /\ attempts'[t].action = attempts[t].action
        /\ attempts[t].state \in {"AWAITING_RECONCILIATION", "CONCLUDED"} =>
             /\ attempts'[t] = attempts[t]
             /\ t \notin calls => t \notin calls' /\ effect'[t] = effect[t]
        /\ MayAct(t)' => MayAct(t) \/ status[attempts'[t].action] = "APPLIED"
    BY DEF RowsAge
  <2>1. attempts[t].state # "NONE" =>
          attempts'[t].state # "NONE" /\ attempts'[t].action = attempts[t].action
    BY RowsStable
  <2> QED
    BY <2>1, ParkedStays, ActorsBegin
<1>2. ASSUME NEW d \in Rounds PROVE StatusAges(d)
  BY StatusSettles DEF StatusAges
<1>3. ASSUME NEW t \in Attempts, attempts'[t].state = "NONE"
      PROVE  attempts'[t] = attempts[t]
  <2>1. attempts[t].state = "NONE"
    BY <1>3, RowsStable
  <2>2. ~ Begin(t)
    BY <1>3 DEF Begin, CreateAttempt, IInv, TypeInv, StoreOK, StoreTypeOK
  <2> QED
    BY <2>1, <2>2, RowsStable
<1> QED
  BY <1>1, <1>2, <1>3

\* The counts of crashes and of cut off handlers only grow.
LEMMA CountsGrow ==
  ASSUME ServerTypeOK, [Next]_vars
  PROVE  /\ crashes \in Nat /\ aborts \in Nat
         /\ crashes' \in {crashes, crashes + 1} /\ aborts' \in {aborts, aborts + 1}
<1>1. crashes \in Nat /\ aborts \in Nat
  BY DEF ServerTypeOK
<1>2. UNCHANGED server => UNCHANGED <<crashes, aborts>>
  BY DEF server
<1>3. UNCHANGED vars => UNCHANGED <<crashes, aborts>>
  BY DEF vars, server
<1>4. \A r \in Requests : Arrive(r) \/ Handle(r) \/ ProviderActs(r) => UNCHANGED server
  BY DEF Handle, Arrive, SweepSelect, SweepExpire, SweepHistory, LookupKey,
     Converge, ReadAction, ReadEdges, CheckDependent, Begin, BeginRefused,
     CallProvider, ReceiveAnswer, ProviderTimeout, RecordResidue, RecordAttempt,
     RecordStatus, RecordHistory, PollAttempt, ProjectAction, ProviderActs
<1>5. \A r \in Requests : Abort(r) => crashes' = crashes /\ aborts' = aborts + 1
  BY DEF Abort
<1>6. Crash => crashes' = crashes + 1 /\ aborts' = aborts
  BY DEF Crash
<1>7. Recover => UNCHANGED <<crashes, aborts>>
  BY DEF Recover, RecoverScan, RecoverMark, RecoverStatus, RecoverHistory
<1>8. Tick \/ AddDependency \/ AllAnswered => UNCHANGED <<crashes, aborts>>
  BY DEF Tick, AddDependency, AllAnswered, vars, server
<1> QED
  BY <1>1, <1>2, <1>3, <1>4, <1>5, <1>6, <1>7, <1>8 DEF Next

\* The server goes down by a crash only.
LEMMA BootStays ==
  ASSUME [Next]_vars, ~ Crash, boot = "up"
  PROVE  boot' = boot
<1>1. \A r \in Requests : Arrive(r) \/ Handle(r) \/ ProviderActs(r) \/ Abort(r)
        => boot' = boot
  BY DEF Handle, Arrive, SweepSelect, SweepExpire, SweepHistory, LookupKey,
     Converge, ReadAction, ReadEdges, CheckDependent, Begin, BeginRefused,
     CallProvider, ReceiveAnswer, ProviderTimeout, RecordResidue, RecordAttempt,
     RecordStatus, RecordHistory, PollAttempt, ProjectAction, ProviderActs, Abort,
     server
<1>2. ~ Recover
  BY DEF Recover, RecoverScan, RecoverMark, RecoverStatus, RecoverHistory
<1> QED
  BY <1>1, <1>2 DEF Next, Tick, AddDependency, AllAnswered, vars, server

\* The requests, the provider and recovery keep what is said of rounds.
LEMMA ServiceKeeps ==
  ASSUME RopInv, [Next]_vars, ~ Crash, UNCHANGED <<rounds, observations>>
  PROVE  RopInv'
<1>1. IInv /\ EffectInv /\ RoundInv /\ RecordInv /\ UNCHANGED <<rpc, round, told>>
  BY DEF RopInv, rounds
<1>2. IInv' /\ EffectInv'
  BY <1>1, OwnershipInductive, EffectStep
<1>3. ReconcileTypeOK'
  BY <1>1 DEF RopInv, ReconcileTypeOK
<1>4. /\ RowsAge
      /\ \A d \in Rounds : StatusAges(d)
      /\ \A t \in Attempts : attempts'[t].state = "NONE" => attempts'[t] = attempts[t]
  BY <1>1, ServiceAges
<1>5. RoundInv'
  <2>1. ASSUME NEW d \in Rounds PROVE RoundFits(d)' /\ SeenInv(d)' /\ TargetInv(d)'
    <3>1. RoundFits(d) /\ SeenInv(d) /\ TargetInv(d)
      BY <1>1 DEF RoundInv
    <3>2. rpc[d] \notin {"idle", "done"} => boot' = boot
      BY <3>1, BootStays DEF RoundFits
    <3> QED
      BY <1>1, <1>4, <3>1, <3>2, RoundKept
  <2>2. SameTarget'
    BY <1>1 DEF RoundInv, SameTarget
  <2> QED
    BY <2>1, <2>2 DEF RoundInv
<1>6. RecordInv'
  <2>1. \A d \in Rounds : ToldInv(d)'
    BY <1>1, <1>4, ToldKept DEF RecordInv
  <2>2. ASSUME NEW a \in Actions, status'[a] # status[a]
        PROVE  /\ status'[a] \in Settled =>
                    \E u \in Attempts : attempts'[u].action = a
                                        /\ attempts'[u].observed = status'[a]
               /\ status'[a] = "OUTCOME_UNKNOWN" =>
                    \E t \in Attempts : attempts'[t].action = a
                                        /\ attempts'[t].state = "AWAITING_RECONCILIATION"
    BY <1>1, <2>2, StatusSettles
  <2>3. ASSUME NEW t \in Attempts,
               attempts[t].state = "AWAITING_RECONCILIATION" \/ Settling(t)
        PROVE  attempts'[t].state = "AWAITING_RECONCILIATION" \/ Settling(t)'
    <3>1. attempts'[t] = attempts[t]
      BY <1>1, <2>3, ParkedStays DEF Settling
    <3>2. crashes + aborts > 0 => crashes' + aborts' > 0
      BY <1>1, CountsGrow DEF IInv, TypeInv
    <3> QED
      BY <1>1, <2>3, <3>1, <3>2 DEF Settling, Proving
  <2> QED
    BY <1>1, <1>4, <2>1, <2>2, <2>3, RecordsKept
<1> QED
  BY <1>2, <1>3, <1>5, <1>6 DEF RopInv

\* Rounds that stop running, by a crash or an abort, leave nothing to say of them
\* but that they were cut off.
LEMMA StopKeeps ==
  ASSUME RopInv, IInv', EffectInv', UNCHANGED <<tables, observations, calls, effect>>,
         crashes \in Nat, aborts \in Nat, crashes' \in Nat, aborts' \in Nat,
         crashes' + aborts' > 0, boot' = boot \/ \A c \in Rounds : rpc'[c] \in {"idle", "done"},
         round' = round, ReconcileTypeOK',
         \A t \in Attempts : MayAct(t)' => MayAct(t),
         \A c \in Rounds : \/ rpc'[c] = rpc[c] /\ told'[c] = told[c]
                           \/ rpc'[c] = "done" /\ told'[c] = Refused("LOST")
                           \/ rpc'[c] \in {"idle", "done"} /\ told'[c] = told[c]
  PROVE  RopInv'
<1>1. /\ IInv /\ EffectInv /\ RoundInv /\ RecordInv
      /\ UNCHANGED <<status, attempts>>
  BY DEF RopInv, tables
<1>2. RowsAge /\ \A d \in Rounds : StatusAges(d)
  BY <1>1 DEF RowsAge, StatusAges
<1>3. RoundInv'
  <2>1. ASSUME NEW d \in Rounds PROVE RoundFits(d)' /\ SeenInv(d)' /\ TargetInv(d)'
    <3>1. CASE rpc'[d] \in {"idle", "done"}
      BY <3>1 DEF RoundFits, SeenInv, TargetInv, Resolving, Concluding
    <3>2. CASE rpc'[d] = rpc[d] /\ boot' = boot
      BY <1>1, <1>2, <3>2, RoundKept DEF RoundInv
    <3> QED
      BY <3>1, <3>2
  <2>2. SameTarget'
    BY <1>1 DEF RoundInv, SameTarget, Resolving
  <2> QED
    BY <2>1, <2>2 DEF RoundInv
<1>4. RecordInv'
  <2>1. ASSUME NEW d \in Rounds PROVE ToldInv(d)'
    <3>1. CASE told'[d] = told[d]
      BY <1>1, <1>2, <3>1, ToldKept DEF RecordInv
    <3>2. CASE told'[d] = Refused("LOST")
      BY <3>2 DEF ToldInv, Refused
    <3> QED
      BY <3>1, <3>2
  <2>2. \A t \in Attempts : Settling(t) => Settling(t)'
    BY <1>1 DEF Settling, Proving
  <2> QED
    BY <1>1, <1>2, <2>1, <2>2, RecordsKept
<1> QED
  BY <1>3, <1>4 DEF RopInv

\* A crash ends the rounds with the requests.
LEMMA CrashKeeps ==
  ASSUME RopInv, RopCrash
  PROVE  RopInv'
<1>1. IInv /\ EffectInv /\ [Next]_vars /\ Crash /\ RoundsCrash
  BY DEF RopInv, RopCrash, Next
<1>2. IInv' /\ EffectInv'
  BY <1>1, OwnershipInductive, EffectStep
<1>3. /\ UNCHANGED <<tables, observations, calls, effect>> /\ round' = round
      /\ crashes' = crashes + 1 /\ aborts' = aborts /\ crashes \in Nat /\ aborts \in Nat
  BY <1>1 DEF Crash, RoundsCrash, provider, IInv, TypeInv, ServerTypeOK
<1>4. \A c \in Rounds :
        \/ rpc'[c] = "done" /\ told'[c] = Refused("LOST")
        \/ rpc'[c] \in {"idle", "done"} /\ told'[c] = told[c]
  BY <1>1 DEF RoundsCrash
<1>5. \A c \in Rounds : rpc'[c] \in {"idle", "done"}
  BY <1>4
<1>6. \A t \in Attempts : MayAct(t)' => MayAct(t)
  BY <1>1, <1>3 DEF Crash, MayAct, Busy, Open, tables, IInv, TypeInv, HandlersOK,
     HandlerTypeOK
<1>7. ReconcileTypeOK'
  <2>1. Refused("LOST") \in ToldRows
    BY DEF Refused, ToldRows, ToldKinds
  <2> QED
    BY <1>1, <1>3, <2>1 DEF RopInv, ReconcileTypeOK, RoundsCrash, RoundPCs
<1> QED
  BY <1>2, <1>3, <1>4, <1>5, <1>6, <1>7, StopKeeps

\* An aborted round leaves requests and the server alone.
LEMMA AbortRoundKeeps ==
  ASSUME RopInv, AbortRound
  PROVE  RopInv'
<1>1. PICK c \in Rounds : RoundAborts(c)
  BY DEF AbortRound
<1>2. /\ IInv /\ EffectInv /\ aborts' = aborts + 1 /\ aborts \in Nat /\ crashes \in Nat
      /\ UNCHANGED <<tables, handlers, provider, deps, now, boot, parking, crashes>>
      /\ UNCHANGED observations
  BY <1>1 DEF RopInv, AbortRound, RoundAborts, roundsOnly, IInv, TypeInv, ServerTypeOK
<1>3. UNCHANGED <<status, history, attempts, idem, residue, pc, req, frame, reply,
                  calls, answer, effect, deps, now, boot, parking, crashes>>
  BY <1>2 DEF tables, handlers, provider
<1>4. IInv'
  BY <1>2, <1>3 DEF IInv, TypeInv, StoreOK, StoreTypeOK, ProviderTypeOK, HandlersOK,
     HandlerTypeOK, ServerTypeOK, LocalsFit, OwnsAttempt, A, BusyInv, Busy, Open,
     RunningIsReversing, RecoveryInv, InFlight
<1>5. EffectInv'
  BY <1>2, <1>3 DEF EffectInv, LocalInv, RowInv, CallInv, OutcomeInv, Proven, A,
     OneActor, MayAct, Busy, Open, StatusHonest, Done, Pending
<1>6. /\ rpc' = [rpc EXCEPT ![c] = "done"] /\ round' = round
      /\ told' = [told EXCEPT ![c] = Refused("LOST")]
  BY <1>1 DEF RoundAborts, Tell
<1>7. ReconcileTypeOK'
  <2>1. Refused("LOST") \in ToldRows
    BY DEF Refused, ToldRows, ToldKinds
  <2> QED
    BY <1>2, <1>6, <2>1 DEF RopInv, ReconcileTypeOK, RoundPCs
<1>8. \A d \in Rounds : \/ rpc'[d] = rpc[d] /\ told'[d] = told[d]
                        \/ rpc'[d] = "done" /\ told'[d] = Refused("LOST")
  BY <1>6 DEF RopInv, ReconcileTypeOK
<1>9. \A t \in Attempts : MayAct(t)' => MayAct(t)
  BY <1>3 DEF MayAct, Busy, Open
<1> QED
  BY <1>2, <1>3, <1>4, <1>5, <1>6, <1>7, <1>8, <1>9, StopKeeps

-----------------------------------------------------------------------------
(* The steps of a round. *)

\* A round that moves leaves the others alone.
LEMMA OthersAlone ==
  ASSUME ReconcileTypeOK, NEW c \in Rounds,
         (\E label, locals : Continue(c, label, locals)) \/ \E result : Tell(c, result)
  PROVE  \A d \in Rounds \ {c} :
           rpc'[d] = rpc[d] /\ round'[d] = round[d] /\ told'[d] = told[d]
  BY DEF ReconcileTypeOK, Continue, Tell

\* One round moves, and what it does to the rows is what the others can stand.
LEMMA RoundMoves ==
  ASSUME RopInv, NEW c \in Rounds, RowsAge, boot' = boot,
         \A d \in Rounds \ {c} :
           /\ rpc'[d] = rpc[d] /\ round'[d] = round[d] /\ told'[d] = told[d]
           /\ StatusAges(d)
           /\ rpc'[c] \in Resolving /\ rpc[d] \in Resolving
              /\ round[d].action = round'[c].action
              => round[d].attempt = round'[c].attempt,
         RoundFits(c)', SeenInv(c)', TargetInv(c)'
  PROVE  RoundInv'
<1>1. IInv /\ EffectInv /\ RoundInv
  BY DEF RopInv
<1>2. ASSUME NEW d \in Rounds \ {c} PROVE RoundFits(d)' /\ SeenInv(d)' /\ TargetInv(d)'
  BY <1>1, <1>2, RoundKept DEF RoundInv
<1>3. SameTarget'
  BY <1>1 DEF RoundInv, SameTarget
<1> QED
  BY <1>2, <1>3 DEF RoundInv

\* A round's step that moves no row.
LEMMA QuietMoves ==
  ASSUME RopInv, IInv', EffectInv', NEW c \in Rounds,
         UNCHANGED <<status, attempts, calls, effect, boot, crashes, aborts, pc>>,
         \A t \in Attempts : observations[t] \subseteq observations'[t],
         ReconcileTypeOK',
         (\E label, locals : Continue(c, label, locals)) \/ \E result : Tell(c, result),
         RoundFits(c)', SeenInv(c)', TargetInv(c)', ToldInv(c)', rpc[c] # "status",
         \A d \in Rounds \ {c} :
           rpc'[c] \in Resolving /\ rpc[d] \in Resolving
           /\ round[d].action = round'[c].action
           => round[d].attempt = round'[c].attempt
  PROVE  RopInv'
<1>1. IInv /\ EffectInv /\ RoundInv /\ RecordInv
  BY DEF RopInv
<1>2. \A d \in Rounds \ {c} :
        rpc'[d] = rpc[d] /\ round'[d] = round[d] /\ told'[d] = told[d]
  BY OthersAlone DEF RopInv
<1>3. \A t \in Attempts : MayAct(t)' => MayAct(t)
  BY DEF MayAct, Busy, Open
<1>4. RowsAge /\ \A d \in Rounds : StatusAges(d)
  BY <1>3 DEF RowsAge, StatusAges
<1>5. RoundInv'
  BY <1>1, <1>2, <1>4, RoundMoves
<1>6. RecordInv'
  <2>1. \A d \in Rounds : ToldInv(d)'
    BY <1>1, <1>2, <1>4, ToldKept DEF RecordInv
  <2>2. \A t \in Attempts : Settling(t) => Settling(t)'
    BY <1>1, <1>2 DEF Settling, Proving
  <2> QED
    BY <1>1, <1>4, <2>1, <2>2, RecordsKept
<1> QED
  BY <1>5, <1>6 DEF RopInv

\* One that only reads, looks up, observes or answers.
LEMMA QuietRound ==
  ASSUME RopInv, NEW c \in Rounds,
         UNCHANGED vars, \A t \in Attempts : observations[t] \subseteq observations'[t],
         ReconcileTypeOK',
         (\E label, locals : Continue(c, label, locals)) \/ \E result : Tell(c, result),
         RoundFits(c)', SeenInv(c)', TargetInv(c)', ToldInv(c)', rpc[c] # "status",
         \A d \in Rounds \ {c} :
           rpc'[c] \in Resolving /\ rpc[d] \in Resolving
           /\ round[d].action = round'[c].action
           => round[d].attempt = round'[c].attempt
  PROVE  RopInv'
<1>1. /\ IInv /\ EffectInv
      /\ UNCHANGED <<status, attempts, calls, effect, boot, crashes, aborts, pc>>
  BY DEF RopInv, vars, tables, provider, server, handlers
<1>2. IInv' /\ EffectInv'
  BY <1>1, OwnershipInductive, EffectStep
<1> QED
  BY <1>1, <1>2, QuietMoves

\* What a round that runs holds.
LEMMA RoundRuns ==
  ASSUME RopInv, NEW c \in Rounds, rpc[c] \notin {"idle", "done"}
  PROVE  /\ rpc \in [Rounds -> RoundPCs] /\ round \in [Rounds -> RoundRows]
         /\ told \in [Rounds -> ToldRows]
         /\ observations \in [Attempts -> SUBSET Evidence]
         /\ round[c] \in RoundRows /\ round[c].action \in Actions
         /\ boot = "up" /\ status \in [Actions -> Statuses]
         /\ RoundFits(c) /\ SeenInv(c) /\ TargetInv(c)
  BY DEF RopInv, ReconcileTypeOK, RoundInv, RoundFits, IInv, TypeInv, StoreOK,
     StoreTypeOK

\* What was told before is told still while a round goes on.
LEMMA RoundGoesOn ==
  ASSUME RopInv, NEW c \in Rounds, attempts' = attempts, NEW label \in RoundPCs,
         NEW locals \in RoundRows, Continue(c, label, locals),
         observations' \in [Attempts -> SUBSET Evidence]
  PROVE  /\ ReconcileTypeOK' /\ ToldInv(c)'
         /\ rpc'[c] = label /\ round'[c] = locals
<1>1. /\ rpc' = [rpc EXCEPT ![c] = label] /\ round' = [round EXCEPT ![c] = locals]
      /\ told' = told
  BY DEF Continue
<1>2. ReconcileTypeOK' /\ rpc'[c] = label /\ round'[c] = locals
  BY <1>1 DEF RopInv, ReconcileTypeOK
<1> QED
  BY <1>1, <1>2 DEF RopInv, RecordInv, ToldInv

\* A round that is answered is done.
LEMMA RoundAnswers ==
  ASSUME RopInv, NEW c \in Rounds, NEW result \in ToldRows, Tell(c, result),
         observations' = observations
  PROVE  /\ ReconcileTypeOK' /\ rpc'[c] = "done" /\ told'[c] = result
         /\ RoundFits(c)' /\ SeenInv(c)' /\ TargetInv(c)'
<1>1. /\ rpc' = [rpc EXCEPT ![c] = "done"] /\ told' = [told EXCEPT ![c] = result]
      /\ round' = round
  BY DEF Tell
<1>2. ReconcileTypeOK' /\ rpc'[c] = "done" /\ told'[c] = result
  BY <1>1 DEF RopInv, ReconcileTypeOK, RoundPCs
<1> QED
  BY <1>2 DEF RoundFits, SeenInv, TargetInv, Resolving, Concluding

\* A round starts with the Action it is asked about, and reads its status.
LEMMA ReadsKeep ==
  ASSUME RopInv, NEW c \in Rounds, UNCHANGED vars, boot = "up",
         StartRound(c) \/ RoundReadsAction(c)
  PROVE  RopInv'
<1>1. UNCHANGED <<status, attempts, boot, observations>>
  BY DEF vars, tables, server, StartRound, RoundReadsAction, roundsOnly
<1>2. round[c] \in RoundRows /\ observations \in [Attempts -> SUBSET Evidence]
      /\ status \in [Actions -> Statuses]
  BY DEF RopInv, ReconcileTypeOK, IInv, TypeInv, StoreOK, StoreTypeOK
<1>3. CASE StartRound(c)
  <2>1. PICK a \in Actions : Continue(c, "action", [round[c] EXCEPT !.action = a])
    BY <1>3 DEF StartRound
  <2> DEFINE l == [round[c] EXCEPT !.action = a]
  <2>2. l \in RoundRows /\ l.action = a
    BY <1>2 DEF RoundRows
  <2> HIDE DEF l
  <2>3. /\ ReconcileTypeOK' /\ ToldInv(c)'
        /\ rpc'[c] = "action" /\ round'[c] = l
    BY <1>1, <1>2, <2>1, <2>2, RoundGoesOn DEF l, RoundPCs
  <2>4. RoundFits(c)' /\ SeenInv(c)' /\ TargetInv(c)' /\ rpc'[c] \notin Resolving
    BY <1>1, <2>2, <2>3 DEF RoundFits, SeenInv, TargetInv, Resolving, Concluding
  <2>5. rpc[c] # "status"
    BY <1>3 DEF StartRound
  <2> QED
    BY <1>1, <2>1, <2>3, <2>4, <2>5, QuietRound
<1>4. CASE RoundReadsAction(c)
  <2> DEFINE a == round[c].action
             s == status[a]
             l == [round[c] EXCEPT !.seen = s]
  <2>1. /\ rpc[c] = "action" /\ Continue(c, "open", l)
    BY <1>4 DEF RoundReadsAction
  <2>2. a \in Actions /\ s \in Statuses
    BY <1>2, <2>1, RoundRuns
  <2>3. l \in RoundRows /\ l.seen = s /\ l.action = a
    <3> HIDE DEF s
    <3> QED
      BY <1>2, <2>2 DEF RoundRows
  <2> HIDE DEF l
  <2>4. /\ ReconcileTypeOK' /\ ToldInv(c)'
        /\ rpc'[c] = "open" /\ round'[c] = l
    BY <1>1, <1>2, <2>1, <2>3, RoundGoesOn DEF RoundPCs
  <2>5. RoundFits(c)' /\ SeenInv(c)' /\ TargetInv(c)' /\ rpc'[c] \notin Resolving
    BY <1>1, <2>2, <2>3, <2>4 DEF RoundFits, SeenInv, TargetInv, Resolving, Concluding,
       Settled
  <2> QED
    BY <1>1, <2>1, <2>4, <2>5, QuietRound
<1> QED
  BY <1>3, <1>4

\* The attempt a round takes up is parked, so that it is the only one that may
\* act, and rounds that took one up before took up the same.
LEMMA OpenKeeps ==
  ASSUME RopInv, NEW c \in Rounds, UNCHANGED vars, RoundReadsOpenAttempt(c)
  PROVE  RopInv'
<1> DEFINE a == round[c].action
<1>1. /\ IInv /\ EffectInv /\ RoundInv /\ rpc[c] = "open"
      /\ UNCHANGED <<status, attempts, calls, effect, pc, boot, observations>>
  BY DEF RopInv, vars, tables, server, provider, handlers, RoundReadsOpenAttempt,
     roundsOnly
<1>2. /\ round[c] \in RoundRows /\ a \in Actions /\ boot = "up" /\ SeenInv(c)
      /\ observations \in [Attempts -> SUBSET Evidence] /\ round[c].seen \in Statuses
  BY <1>1, RoundRuns DEF RoundFits
<1>3. ASSUME NEW t \in Attempts, attempts[t].action = a,
             attempts[t].state = "AWAITING_RECONCILIATION",
             round[c].seen = "OUTCOME_UNKNOWN",
             Continue(c, "lookup", [round[c] EXCEPT !.attempt = t])
      PROVE  RopInv'
  <2> DEFINE l == [round[c] EXCEPT !.attempt = t]
  <2>1. l \in RoundRows /\ l.attempt = t /\ l.action = a /\ l.seen = "OUTCOME_UNKNOWN"
    BY <1>2, <1>3 DEF RoundRows
  <2> HIDE DEF l
  <2>2. /\ ReconcileTypeOK' /\ ToldInv(c)'
        /\ rpc'[c] = "lookup" /\ round'[c] = l
    BY <1>1, <1>2, <1>3, <2>1, RoundGoesOn DEF l, RoundPCs
  <2>3. Busy(t) /\ MayAct(t)
    BY <1>3 DEF Busy, Open, MayAct
  <2>4. status[a] = "OUTCOME_UNKNOWN"
    BY <1>1, <1>2, <1>3, <2>3 DEF IInv, BusyInv, SeenInv
  <2>5. \A u \in Attempts : MayAct(u) /\ attempts[u].action = a => u = t
    BY <1>1, <1>3, <2>3 DEF EffectInv, OneActor
  <2>6. \A u \in Attempts : MayAct(u)' => MayAct(u)
    BY <1>1 DEF MayAct, Busy, Open
  <2>7. RoundFits(c)' /\ SeenInv(c)'
    BY <1>1, <1>2, <2>1, <2>2, <2>4 DEF RoundFits, SeenInv, Resolving, Concluding, Settled
  <2>8. TargetInv(c)'
    BY <1>1, <1>3, <2>1, <2>2, <2>4, <2>5, <2>6 DEF TargetInv, Resolving, Concluding
  <2>9. ASSUME NEW d \in Rounds, rpc[d] \in Resolving, round[d].action = a
        PROVE  round[d].attempt = t
    BY <1>1, <1>3, <2>3, <2>4, <2>9 DEF RoundInv, TargetInv
  <2> QED
    BY <1>1, <1>3, <2>1, <2>2, <2>7, <2>8, <2>9, QuietRound
<1>4. CASE Tell(c, Refused("INTERNAL"))
  <2>1. Refused("INTERNAL") \in ToldRows /\ Refused("INTERNAL").kind # "RESULT"
    BY DEF Refused, ToldRows, ToldKinds
  <2>2. /\ ReconcileTypeOK' /\ rpc'[c] = "done" /\ told'[c] = Refused("INTERNAL")
        /\ RoundFits(c)' /\ SeenInv(c)' /\ TargetInv(c)'
    BY <1>1, <1>4, <2>1, RoundAnswers
  <2>3. ToldInv(c)'
    BY <2>1, <2>2 DEF ToldInv
  <2> QED
    BY <1>1, <1>4, <2>2, <2>3, QuietRound DEF Resolving
<1>5. CASE Continue(c, "latest", round[c])
  <2>1. /\ ReconcileTypeOK' /\ ToldInv(c)'
        /\ rpc'[c] = "latest" /\ round'[c] = round[c]
    BY <1>1, <1>2, <1>5, RoundGoesOn DEF RoundPCs
  <2>2. RoundFits(c)' /\ SeenInv(c)' /\ TargetInv(c)' /\ rpc'[c] \notin Resolving
    BY <1>1, <1>2, <2>1 DEF RoundFits, SeenInv, TargetInv, Resolving, Concluding
  <2> QED
    BY <1>1, <1>5, <2>1, <2>2, QuietRound
<1> QED
  BY <1>3, <1>4, <1>5 DEF RoundReadsOpenAttempt

\* What a round without a parked attempt replays is the record of the latest.  A
\* settled status it read was settled by a recorded result, and while it stands
\* no attempt is open.
LEMMA ReplayKeeps ==
  ASSUME RopInv, NEW c \in Rounds, UNCHANGED vars, RoundReplaysLatest(c)
  PROVE  RopInv'
<1> DEFINE a == round[c].action
<1>1. /\ IInv /\ EffectInv /\ RecordInv /\ rpc[c] = "latest"
      /\ UNCHANGED <<status, attempts, observations>>
  BY DEF RopInv, vars, tables, RoundReplaysLatest, roundsOnly
<1>2. /\ a \in Actions /\ SeenInv(c) /\ round[c].seen \in Statuses
      /\ attempts \in [Attempts -> AttemptRows]
  BY <1>1, RoundRuns DEF RoundFits, IInv, TypeInv, StoreOK, StoreTypeOK
<1>3. CASE Tell(c, Refused("PRECONDITION"))
  <2>1. Refused("PRECONDITION") \in ToldRows /\ Refused("PRECONDITION").kind # "RESULT"
    BY DEF Refused, ToldRows, ToldKinds
  <2>2. /\ ReconcileTypeOK' /\ rpc'[c] = "done" /\ told'[c] = Refused("PRECONDITION")
        /\ RoundFits(c)' /\ SeenInv(c)' /\ TargetInv(c)'
    BY <1>1, <1>3, <2>1, RoundAnswers
  <2>3. ToldInv(c)'
    BY <2>1, <2>2 DEF ToldInv
  <2> QED
    BY <1>1, <1>3, <2>2, <2>3, QuietRound DEF Resolving
<1>4. ASSUME NEW t \in Latest(a),
             Tell(c, [kind |-> "RESULT", attempt |-> t, status |-> round[c].seen,
                      outcome |-> RecordedOutcome(t)])
      PROVE  RopInv'
  <2> DEFINE o == RecordedOutcome(t)
             m == [kind |-> "RESULT", attempt |-> t, status |-> round[c].seen,
                   outcome |-> o]
  <2>1. t \in Attempts /\ attempts[t].action = a
    BY <1>4 DEF Latest
  <2>2. attempts[t].state # "NONE"
    BY <1>1, <1>2, <2>1, NoneAssumption DEF RecordInv
  <2>3. /\ o \in ObservedResults \cup {"OUTCOME_UNKNOWN"}
        /\ o \in ObservedResults => attempts[t].observed = o
        /\ o = "OUTCOME_UNKNOWN" => attempts[t].observed = None
    BY <1>2, <2>1 DEF RecordedOutcome, AttemptRows, ObservedResults
  <2>4. /\ m \in ToldRows /\ m.kind = "RESULT" /\ m.attempt = t /\ m.outcome = o
        /\ m.status = round[c].seen
    BY <1>2, <2>1, <2>3 DEF ToldRows, ToldKinds
  <2>5. round[c].seen \in Settled /\ o # round[c].seen =>
          \E u \in Attempts : /\ attempts[u].action = a
                              /\ attempts[u].observed = round[c].seen
                              /\ u # t /\ o # "OUTCOME_UNKNOWN"
    <3> SUFFICES ASSUME round[c].seen \in Settled, o # round[c].seen
                 PROVE  \E u \in Attempts : /\ attempts[u].action = a
                                            /\ attempts[u].observed = round[c].seen
                                            /\ u # t /\ o # "OUTCOME_UNKNOWN"
      OBVIOUS
    <3>1. status[a] = round[c].seen
      BY <1>1, <1>2 DEF SeenInv
    <3>2. ~ Open(t)
      BY <1>1, <2>1, <3>1 DEF IInv, BusyInv, Busy, Settled
    <3>3. attempts[t].state = "CONCLUDED"
      BY <1>2, <2>1, <2>2, <3>2 DEF Open, AttemptRows, ExecutionStates
    <3>4. attempts[t].observed # None
      BY <1>1, <2>1, <3>3 DEF EffectInv, LocalInv, RowInv
    <3>5. o \in ObservedResults /\ o # "OUTCOME_UNKNOWN" /\ attempts[t].observed = o
      BY <2>3, <3>4 DEF ObservedResults
    <3>6. PICK u \in Attempts : attempts[u].action = a /\ attempts[u].observed = status[a]
      BY <1>1, <1>2, <3>1 DEF RecordInv, SettledInv
    <3> QED
      BY <3>1, <3>5, <3>6
  <2> HIDE DEF m, o
  <2>6. /\ ReconcileTypeOK' /\ rpc'[c] = "done" /\ told'[c] = m
        /\ RoundFits(c)' /\ SeenInv(c)' /\ TargetInv(c)'
    BY <1>1, <1>4, <2>4, RoundAnswers DEF m, o
  <2>7. ToldInv(c)'
    BY <1>1, <2>1, <2>2, <2>3, <2>4, <2>5, <2>6 DEF ToldInv
  <2>8. \E result : Tell(c, result)
    BY <1>4
  <2> QED
    BY <1>1, <2>6, <2>7, <2>8, QuietRound DEF Resolving
<1> QED
  BY <1>3, <1>4 DEF RoundReplaysLatest

\* A round that goes on with the attempt it works on stays what is said of it.
LEMMA SameTargetKept ==
  ASSUME RopInv, NEW c \in Rounds, rpc[c] \in Resolving,
         round'[c].action = round[c].action, round'[c].attempt = round[c].attempt
  PROVE  \A d \in Rounds \ {c} :
           rpc'[c] \in Resolving /\ rpc[d] \in Resolving
           /\ round[d].action = round'[c].action
           => round[d].attempt = round'[c].attempt
  BY DEF RopInv, RoundInv, SameTarget

\* What a round holds of the attempt it works on.
LEMMA TargetIs ==
  ASSUME RopInv, NEW c \in Rounds, rpc[c] \in Resolving
  PROVE  /\ round[c].attempt \in Attempts
         /\ attempts[round[c].attempt].action = round[c].action
         /\ attempts[round[c].attempt].state \in {"AWAITING_RECONCILIATION", "CONCLUDED"}
         /\ attempts[round[c].attempt].observed \in ObservedResults \cup {None}
         /\ round[c].seen = "OUTCOME_UNKNOWN"
         /\ status[round[c].action] \in {"OUTCOME_UNKNOWN", "REVERSED", "REVERSE_FAILED"}
<1>1. round[c].attempt \in Attempts /\ round[c].seen = "OUTCOME_UNKNOWN" /\ SeenInv(c)
      /\ TargetInv(c)
  BY DEF RopInv, RoundInv, RoundFits
<1>2. attempts[round[c].attempt] \in AttemptRows
  BY <1>1 DEF RopInv, IInv, TypeInv, StoreOK, StoreTypeOK
<1>3. attempts[round[c].attempt].observed \in ObservedResults \cup {None}
  BY <1>2 DEF AttemptRows
<1> QED
  BY <1>1, <1>3 DEF SeenInv, TargetInv

\* What is said of that attempt holds where no row moves.
LEMMA TargetStill ==
  ASSUME NEW c \in Rounds, TargetInv(c), rpc[c] \in Resolving,
         round'[c].attempt = round[c].attempt, round'[c].action = round[c].action,
         UNCHANGED <<status, attempts, calls, effect, pc>>,
         rpc'[c] \in {"observe"} \cup Concluding =>
           Shows(round[c].attempt, round'[c].evidence),
         rpc'[c] \in Concluding =>
           round'[c].evidence \in observations'[round[c].attempt],
         rpc'[c] \in {"status", "history"} =>
           attempts[round[c].attempt].observed = Proves(round'[c].evidence),
         rpc'[c] = "reply" /\ round'[c].outcome \in ObservedResults =>
           attempts[round[c].attempt].observed = round'[c].outcome
  PROVE  TargetInv(c)'
<1>1. PICK t, a : t = round[c].attempt /\ a = round[c].action
  OBVIOUS
<1>2. /\ attempts[t].action = a
      /\ \/ attempts[t].state = "AWAITING_RECONCILIATION"
         \/ attempts[t].state = "CONCLUDED" /\ Proven(t)
      /\ status[a] = "OUTCOME_UNKNOWN" =>
           \A u \in Attempts : MayAct(u) /\ attempts[u].action = a => u = t
      /\ status[a] # "OUTCOME_UNKNOWN" => attempts[t].observed = status[a]
  BY <1>1 DEF TargetInv
<1>3. \A u \in Attempts : MayAct(u)' => MayAct(u)
  BY DEF MayAct, Busy, Open
<1>4. /\ Proven(t)' <=> Proven(t)
      /\ \A e : Shows(t, e)' <=> Shows(t, e)
  BY DEF Proven, Shows
<1>5. /\ attempts'[t].action = a
      /\ \/ attempts'[t].state = "AWAITING_RECONCILIATION"
         \/ attempts'[t].state = "CONCLUDED" /\ Proven(t)'
      /\ status'[a] = "OUTCOME_UNKNOWN" =>
           \A u \in Attempts : MayAct(u)' /\ attempts'[u].action = a => u = t
      /\ status'[a] # "OUTCOME_UNKNOWN" => attempts'[t].observed = status'[a]
  BY <1>2, <1>3, <1>4
<1>6. round'[c].attempt = t /\ round'[c].action = a
  BY <1>1
<1>7. PICK e : e = round'[c].evidence
  OBVIOUS
<1>8. rpc'[c] \in {"observe"} \cup Concluding => Shows(t, e)'
  BY <1>1, <1>4, <1>7
<1> QED
  BY <1>1, <1>5, <1>6, <1>7, <1>8 DEF TargetInv

\* The lookup proves only what is true, and the round records what it was told.
LEMMA LookupKeeps ==
  ASSUME RopInv, NEW c \in Rounds, UNCHANGED vars, Lookup(c) \/ RecordObservation(c)
  PROVE  RopInv'
<1> DEFINE t == round[c].attempt
           a == round[c].action
<1>1. /\ rpc[c] \in Resolving \ {"status"}
      /\ UNCHANGED <<status, attempts, calls, effect, pc, boot>>
  BY DEF vars, tables, server, provider, handlers, Lookup, RecordObservation, Resolving
<1>2. /\ round[c] \in RoundRows /\ t \in Attempts /\ a \in Actions /\ boot = "up"
      /\ round[c].seen = "OUTCOME_UNKNOWN" /\ SeenInv(c) /\ TargetInv(c) /\ RoundFits(c)
      /\ observations \in [Attempts -> SUBSET Evidence]
  BY <1>1, RoundRuns, TargetIs DEF Resolving
<1>3. CASE Lookup(c)
  <2>1. PICK e \in EvidenceOn(t) :
          Continue(c, "observe", [round[c] EXCEPT !.evidence = e])
    BY <1>3 DEF Lookup
  <2>2. e \in Evidence /\ Shows(t, e)
    BY DEF EvidenceOn, Evidence, Shows
  <2> DEFINE l == [round[c] EXCEPT !.evidence = e]
  <2>3. /\ l \in RoundRows /\ l.evidence = e /\ l.action = a /\ l.attempt = t
        /\ l.seen = "OUTCOME_UNKNOWN"
    BY <1>2, <2>2 DEF RoundRows
  <2> HIDE DEF l
  <2>4. observations' = observations
    BY <1>3 DEF Lookup, roundsOnly
  <2>5. /\ ReconcileTypeOK' /\ ToldInv(c)'
        /\ rpc'[c] = "observe" /\ round'[c] = l
    BY <1>1, <1>2, <2>1, <2>3, <2>4, RoundGoesOn DEF l, RoundPCs
  <2>6. RoundFits(c)' /\ SeenInv(c)'
    BY <1>1, <1>2, <2>2, <2>3, <2>5
    DEF RoundFits, SeenInv, Resolving, Concluding, Settled
  <2>7. TargetInv(c)'
    BY <1>1, <1>2, <2>2, <2>3, <2>5, TargetStill DEF Concluding
  <2> QED
    BY <1>1, <2>1, <2>3, <2>4, <2>5, <2>6, <2>7, SameTargetKept, QuietRound
<1>4. CASE RecordObservation(c)
  <2> DEFINE e == round[c].evidence
             label == IF e = "INCONCLUSIVE" THEN "reread" ELSE "conclude"
  <2>1. /\ rpc[c] = "observe" /\ Continue(c, label, round[c]) /\ label \in RoundPCs
        /\ observations' = [observations EXCEPT ![t] = @ \cup {e}]
    BY <1>4 DEF RecordObservation, RoundPCs
  <2>2. e \in Evidence /\ Shows(t, e)
    BY <1>2, <2>1 DEF RoundFits, TargetInv, Resolving
  <2>3. /\ observations' \in [Attempts -> SUBSET Evidence] /\ e \in observations'[t]
        /\ \A u \in Attempts : observations[u] \subseteq observations'[u]
    BY <1>2, <2>1, <2>2
  <2>4. /\ ReconcileTypeOK' /\ ToldInv(c)'
        /\ rpc'[c] = label /\ round'[c] = round[c]
    BY <1>1, <1>2, <2>1, <2>3, RoundGoesOn
  <2>5. RoundFits(c)' /\ SeenInv(c)'
    BY <1>1, <1>2, <2>2, <2>4
    DEF RoundFits, SeenInv, Resolving, Concluding, Settled
  <2>6. TargetInv(c)'
    BY <1>1, <1>2, <2>1, <2>2, <2>3, <2>4, TargetStill DEF Concluding
  <2> QED
    BY <1>1, <2>1, <2>3, <2>4, <2>5, <2>6, SameTargetKept, QuietRound
<1> QED
  BY <1>3, <1>4

\* A round answers with the recorded result and the status it reads last.
LEMMA ReplyKeeps ==
  ASSUME RopInv, NEW c \in Rounds, UNCHANGED vars, RoundRereadsAttempt(c) \/ RoundReplies(c)
  PROVE  RopInv'
<1> DEFINE t == round[c].attempt
           a == round[c].action
<1>1. /\ rpc[c] \in {"reread", "reply"}
      /\ UNCHANGED <<status, attempts, calls, effect, pc, boot, observations>>
  BY DEF vars, tables, server, provider, handlers, RoundRereadsAttempt, RoundReplies,
     roundsOnly
<1>2. /\ round[c] \in RoundRows /\ t \in Attempts /\ a \in Actions /\ boot = "up"
      /\ round[c].seen = "OUTCOME_UNKNOWN" /\ SeenInv(c) /\ TargetInv(c) /\ RoundFits(c)
      /\ attempts[t].observed \in ObservedResults \cup {None}
      /\ attempts[t].action = a /\ attempts[t].state # "NONE"
      /\ observations \in [Attempts -> SUBSET Evidence]
      /\ status \in [Actions -> Statuses]
  BY <1>1, RoundRuns, TargetIs DEF Resolving
<1>3. CASE RoundRereadsAttempt(c)
  <2> DEFINE o == RecordedOutcome(t)
             l == [round[c] EXCEPT !.outcome = o]
  <2>1. /\ o \in ObservedResults \cup {"OUTCOME_UNKNOWN"}
        /\ o \in ObservedResults => attempts[t].observed = o
    BY <1>2 DEF RecordedOutcome, ObservedResults
  <2>2. l \in RoundRows /\ l.outcome = o /\ l.action = a /\ l.attempt = t
        /\ l.seen = "OUTCOME_UNKNOWN"
    <3> HIDE DEF o
    <3> QED
      BY <1>2, <2>1 DEF RoundRows
  <2>3. Continue(c, "reply", l) /\ rpc[c] = "reread"
    BY <1>3 DEF RoundRereadsAttempt
  <2> HIDE DEF l, o
  <2>4. /\ ReconcileTypeOK' /\ ToldInv(c)'
        /\ rpc'[c] = "reply" /\ round'[c] = l
    BY <1>1, <1>2, <2>2, <2>3, RoundGoesOn DEF RoundPCs
  <2>5. RoundFits(c)' /\ SeenInv(c)'
    BY <1>1, <1>2, <2>1, <2>2, <2>3, <2>4
    DEF RoundFits, SeenInv, Resolving, Concluding, Settled
  <2>6. TargetInv(c)'
    BY <1>1, <1>2, <2>1, <2>2, <2>3, <2>4, TargetStill DEF Resolving, Concluding
  <2>7. rpc[c] \in Resolving
    BY <2>3 DEF Resolving
  <2>8. \A d \in Rounds \ {c} :
          rpc'[c] \in Resolving /\ rpc[d] \in Resolving
          /\ round[d].action = round'[c].action
          => round[d].attempt = round'[c].attempt
    BY <2>2, <2>4, <2>7, SameTargetKept
  <2> QED
    BY <1>1, <2>3, <2>4, <2>5, <2>6, <2>8, QuietRound
<1>4. CASE RoundReplies(c)
  <2> DEFINE o == round[c].outcome
             m == [kind |-> "RESULT", attempt |-> t, outcome |-> o, status |-> status[a]]
  <2>1. rpc[c] = "reply" /\ Tell(c, m)
    BY <1>4 DEF RoundReplies
  <2>2. /\ o \in ObservedResults \cup {"OUTCOME_UNKNOWN"}
        /\ o \in ObservedResults => attempts[t].observed = o
        /\ status[a] \in Settled => attempts[t].observed = status[a]
    BY <1>2, <2>1 DEF RoundFits, TargetInv, Resolving, Settled
  <2>3. /\ m \in ToldRows /\ m.kind = "RESULT" /\ m.attempt = t /\ m.outcome = o
        /\ m.status = status[a]
    BY <1>2, <2>2 DEF ToldRows, ToldKinds
  <2> HIDE DEF m, o
  <2>4. /\ ReconcileTypeOK' /\ rpc'[c] = "done" /\ told'[c] = m
        /\ RoundFits(c)' /\ SeenInv(c)' /\ TargetInv(c)'
    BY <1>1, <2>1, <2>3, RoundAnswers
  <2>5. ToldInv(c)'
    <3>1. status[a] \in Settled /\ o # status[a] => o = "OUTCOME_UNKNOWN"
      BY <2>2
    <3> QED
      BY <1>1, <1>2, <2>2, <2>3, <2>4, <3>1 DEF ToldInv
  <2> QED
    BY <1>1, <2>1, <2>4, <2>5, QuietRound DEF Resolving
<1> QED
  BY <1>3, <1>4

\* The history row a round appends is no row anybody reads.
LEMMA HistoryKeeps ==
  ASSUME RopInv, NEW c \in Rounds, RoundAppendsHistory(c),
         UNCHANGED <<handlers, provider, deps, now, server>>
  PROVE  RopInv'
<1> DEFINE t == round[c].attempt
           a == round[c].action
           e == round[c].evidence
<1>1. /\ rpc[c] = "history" /\ Continue(c, "reread", round[c])
      /\ UNCHANGED <<status, attempts, idem, residue, pc, req, frame, reply, calls,
                     answer, effect, deps, now, boot, parking, crashes, aborts>>
      /\ observations' = observations
      /\ AppendHistory(a, "OUTCOME_UNKNOWN", Proves(e))
  BY DEF RoundAppendsHistory, handlers, provider, server
<1>2. /\ round[c] \in RoundRows /\ t \in Attempts /\ a \in Actions /\ boot = "up"
      /\ round[c].seen = "OUTCOME_UNKNOWN" /\ SeenInv(c) /\ TargetInv(c) /\ RoundFits(c)
      /\ observations \in [Attempts -> SUBSET Evidence]
  BY <1>1, RoundRuns, TargetIs DEF Resolving
<1>3. IInv /\ EffectInv
  BY DEF RopInv
<1>4. IInv'
  <2>1. history \in [Actions -> Seq(Statuses \X Statuses)]
    BY <1>3 DEF IInv, TypeInv, StoreOK, StoreTypeOK
  <2>2. Proves(e) \in Statuses /\ "OUTCOME_UNKNOWN" \in Statuses
    BY DEF Proves, Statuses
  <2>3. history' \in [Actions -> Seq(Statuses \X Statuses)]
    BY <1>1, <1>2, <2>1, <2>2, AppendHistoryType
  <2> QED
    BY <1>1, <1>3, <2>3 DEF IInv, TypeInv, StoreOK, StoreTypeOK, ProviderTypeOK,
       HandlersOK, HandlerTypeOK, ServerTypeOK, LocalsFit, OwnsAttempt, A, BusyInv,
       Busy, Open, RunningIsReversing, RecoveryInv, InFlight
<1>5. EffectInv'
  BY <1>1, <1>3 DEF EffectInv, LocalInv, RowInv, CallInv, OutcomeInv, Proven, A,
     OneActor, MayAct, Busy, Open, StatusHonest, Done, Pending
<1>6. /\ ReconcileTypeOK' /\ ToldInv(c)'
      /\ rpc'[c] = "reread" /\ round'[c] = round[c]
  BY <1>1, <1>2, RoundGoesOn DEF RoundPCs
<1>7. RoundFits(c)' /\ SeenInv(c)'
  BY <1>1, <1>2, <1>6 DEF RoundFits, SeenInv, Resolving, Concluding, Settled
<1>8. TargetInv(c)'
  BY <1>1, <1>2, <1>6, TargetStill DEF Resolving, Concluding
<1>9. \A d \in Rounds \ {c} :
        rpc'[c] \in Resolving /\ rpc[d] \in Resolving
        /\ round[d].action = round'[c].action
        => round[d].attempt = round'[c].attempt
  BY <1>1, <1>6, SameTargetKept DEF Resolving
<1> QED
  BY <1>1, <1>4, <1>5, <1>6, <1>7, <1>8, <1>9, QuietMoves

-----------------------------------------------------------------------------
(* A round concludes its attempt, and settles its Action. *)

\* The row a round concludes is parked, or concluded with the same result.
LEMMA ConcludedRow ==
  ASSUME RopInv, NEW c \in Rounds, RoundConcludes(c), NEW t, t = round[c].attempt
  PROVE  /\ t \in Attempts /\ Proves(round[c].evidence) \in ObservedResults
         /\ attempts'[t].state = "CONCLUDED"
         /\ attempts'[t].observed = Proves(round[c].evidence)
         /\ attempts'[t].action = attempts[t].action
         /\ \A u \in Attempts \ {t} : attempts'[u] = attempts[u]
         /\ attempts' = attempts \/ attempts[t].state = "AWAITING_RECONCILIATION"
         /\ Shows(t, round[c].evidence)
         /\ round[c].evidence \in Proving(t)
<1> DEFINE e == round[c].evidence
<1>1. rpc[c] = "conclude" /\ ConcludeAttempt(t, Proves(e))
  BY DEF RoundConcludes
<1>2. /\ t \in Attempts /\ e \in Evidence \ {"INCONCLUSIVE"} /\ e \in observations[t]
      /\ Shows(t, e) /\ attempts \in [Attempts -> AttemptRows]
      /\ \/ attempts[t].state = "AWAITING_RECONCILIATION"
         \/ attempts[t].state = "CONCLUDED" /\ Proven(t)
  BY <1>1, RoundRuns DEF RoundFits, TargetInv, Resolving, Concluding, RopInv, IInv,
     TypeInv, StoreOK, StoreTypeOK
<1>3. Proves(e) \in ObservedResults
  BY DEF Proves, ObservedResults
<1>4. attempts[t].state = "CONCLUDED" => attempts[t].observed = Proves(e)
  BY <1>2 DEF Proven, Shows, Proves, Evidence
<1>5. /\ attempts'[t].state = "CONCLUDED" /\ attempts'[t].observed = Proves(e)
      /\ attempts'[t].action = attempts[t].action
      /\ \A u \in Attempts \ {t} : attempts'[u] = attempts[u]
      /\ attempts' = attempts \/ attempts[t].state = "AWAITING_RECONCILIATION"
  <2>1. CASE attempts[t].state = "CONCLUDED"
    BY <1>1, <1>4, <2>1 DEF ConcludeAttempt
  <2>2. CASE attempts[t].state = "AWAITING_RECONCILIATION"
    <3> DEFINE o == Proves(e)
    <3> HIDE DEF o
    <3>1. attempts' = [attempts EXCEPT ![t] =
                         [attempts[t] EXCEPT !.state = "CONCLUDED", !.observed = o]]
      BY <1>1, <2>2 DEF ConcludeAttempt, o
    <3>2. /\ attempts'[t].state = "CONCLUDED" /\ attempts'[t].observed = o
          /\ attempts'[t].action = attempts[t].action
          /\ \A u \in Attempts \ {t} : attempts'[u] = attempts[u]
      BY <1>2, <3>1 DEF AttemptRows
    <3> QED
      BY <2>2, <3>2 DEF o
  <2> QED
    BY <1>2, <2>1, <2>2
<1> QED
  BY <1>2, <1>3, <1>5 DEF Proving

\* Who parked it does not write it again: its handler is done, or is past its
\* status transition with nothing in hand.
LEMMA ParkedIdle ==
  ASSUME RopInv, NEW c \in Rounds, rpc[c] \in Resolving, NEW t, t = round[c].attempt,
         attempts[t].state = "AWAITING_RECONCILIATION"
  PROVE  /\ pc[t] \notin Fresh \cup Working
         /\ pc[t] = "history" => frame[t].outcome \notin Conclusive
         /\ status[attempts[t].action] = "OUTCOME_UNKNOWN"
         /\ t \notin parking
<1>1. /\ t \in Attempts /\ attempts[t].action = round[c].action /\ boot = "up"
      /\ status[round[c].action] \in {"OUTCOME_UNKNOWN", "REVERSED", "REVERSE_FAILED"}
  BY RoundRuns, TargetIs DEF Resolving
<1>2. IInv /\ EffectInv
  BY DEF RopInv
<1>3. attempts[t].observed = None
  BY <1>1, <1>2 DEF EffectInv, LocalInv, RowInv
<1>4. status[round[c].action] = "OUTCOME_UNKNOWN"
  BY <1>1, <1>2 DEF IInv, BusyInv, Busy, Open
<1>5. pc[t] \notin Fresh
  BY <1>1, <1>2 DEF EffectInv, LocalInv, RowInv
<1>6. pc[t] \notin Working
  BY <1>1, <1>2, <1>4 DEF IInv, OwnsAttempt, Working
<1>7. pc[t] = "history" => frame[t].outcome \notin Conclusive
  BY <1>1, <1>2 DEF EffectInv, LocalInv, OutcomeInv
<1>8. parking = {}
  BY <1>1, <1>2 DEF IInv, RecoveryInv
<1> QED
  BY <1>1, <1>4, <1>5, <1>6, <1>7, <1>8

\* Concluding a parked attempt disturbs no request.
LEMMA ConcludeServes ==
  ASSUME RopInv, NEW c \in Rounds, RoundConcludes(c),
         UNCHANGED <<handlers, provider, deps, now, server>>
  PROVE  IInv' /\ EffectInv'
<1>0. PICK t, e : t = round[c].attempt /\ e = round[c].evidence
  OBVIOUS
<1>1. /\ UNCHANGED <<status, history, idem, residue, pc, req, frame, reply, calls,
                     answer, effect, deps, now, boot, parking, crashes, aborts>>
      /\ rpc[c] = "conclude" /\ ConcludeAttempt(t, Proves(e))
  BY <1>0 DEF RoundConcludes, handlers, provider, server
<1>2. IInv /\ EffectInv
  BY DEF RopInv
<1>3. /\ t \in Attempts /\ Proves(e) \in ObservedResults
      /\ attempts'[t].state = "CONCLUDED" /\ attempts'[t].observed = Proves(e)
      /\ attempts'[t].action = attempts[t].action
      /\ \A u \in Attempts \ {t} : attempts'[u] = attempts[u]
      /\ attempts' = attempts \/ attempts[t].state = "AWAITING_RECONCILIATION"
      /\ Shows(t, e) /\ e \in Evidence \ {"INCONCLUSIVE"}
  <2>1. e \in Evidence \ {"INCONCLUSIVE"}
    BY <1>0, <1>1, RoundRuns DEF RoundFits, Concluding
  <2> QED
    BY <1>0, <2>1, ConcludedRow
<1>4. CASE attempts' = attempts
  BY <1>1, <1>2, <1>4, OwnershipInductive, EffectStep
  DEF vars, tables, handlers, provider, server
<1>5. CASE attempts[t].state = "AWAITING_RECONCILIATION"
  <2>1. /\ pc[t] \notin Fresh \cup Working /\ t \notin parking
        /\ pc[t] = "history" => frame[t].outcome \notin Conclusive
    BY <1>0, <1>1, <1>5, ParkedIdle DEF Resolving
  <2>2. AttemptsOK'
    <3>1. AttemptsOK
      BY <1>2 DEF IInv, TypeInv, StoreOK, StoreTypeOK, AttemptsOK
    <3> QED
      BY <1>1, <1>3, <1>5, <3>1, ConcludeType
  <2>3. TypeInv'
    BY <1>1, <1>2, <2>2 DEF IInv, TypeInv, StoreOK, StoreTypeOK, AttemptsOK,
       ProviderTypeOK, HandlersOK, HandlerTypeOK, ServerTypeOK, LocalsFit
  <2>4. \A r \in Requests : OwnsAttempt(r)'
    BY <1>1, <1>2, <1>3, <2>1 DEF IInv, OwnsAttempt, Working, A
  <2>5. \A u \in Attempts : Busy(u)' => Busy(u)
    BY <1>1, <1>3 DEF Busy, Open
  <2>6. \A u \in Attempts : attempts'[u].action = attempts[u].action
    BY <1>3
  <2>7. BusyInv' /\ RunningIsReversing'
    BY <1>1, <1>2, <1>3, <2>5, <2>6 DEF IInv, BusyInv, RunningIsReversing
  <2>8. RecoveryInv'
    <3>1. \A u \in Attempts \ {t} : Open(u)' <=> Open(u)
      BY <1>3 DEF Open
    <3>2. RecoveryInv /\ parking \subseteq Attempts
      BY <1>2 DEF IInv, TypeInv, ServerTypeOK
    <3>3. \A u \in parking : Open(u)'
      BY <2>1, <3>1, <3>2 DEF RecoveryInv
    <3> QED
      BY <1>1, <3>2, <3>3 DEF RecoveryInv, InFlight
  <2>9. ASSUME NEW u \in Attempts \ {t} PROVE LocalInv(u)'
    <3>1. attempts'[u] = attempts[u]
      BY <1>3
    <3>2. RowInv(u) /\ CallInv(u) /\ OutcomeInv(u)
      BY <1>2 DEF EffectInv, LocalInv
    <3>3. RowInv(u)' /\ CallInv(u)'
      BY <1>1, <3>1, <3>2 DEF RowInv, CallInv, A
    <3>4. OutcomeInv(u)'
      BY <1>1, <3>1, <3>2 DEF OutcomeInv, Proven
    <3> QED
      BY <3>3, <3>4 DEF LocalInv
  <2>10. Proven(t)'
    BY <1>1, <1>3 DEF Proven, Shows, Proves, Evidence
  <2>11. LocalInv(t)'
    <3>1. attempts'[t].observed # None
      BY <1>3, NoneAssumption
    <3>2. RowInv(t)' /\ CallInv(t)'
      BY <1>1, <1>2, <1>3, <1>5, <2>1, <3>1 DEF EffectInv, LocalInv, RowInv, CallInv, A
    <3>3. OutcomeInv(t)'
      BY <1>1, <1>2, <1>3, <2>1, <2>10 DEF EffectInv, LocalInv, OutcomeInv, Working
    <3> QED
      BY <3>2, <3>3 DEF LocalInv
  <2>12. \A u \in Attempts : MayAct(u)' => MayAct(u)
    BY <1>1, <2>5 DEF MayAct
  <2>13. OneActor'
    BY <1>1, <1>2, <2>6, <2>12 DEF EffectInv, OneActor
  <2>14. StatusHonest'
    <3>1. \A a : Done(a)' = Done(a)
      BY <1>1, <2>6 DEF Done
    <3>2. calls \subseteq Attempts
      BY <1>2 DEF IInv, TypeInv, ProviderTypeOK
    <3>3. \A a : Pending(a)' = Pending(a)
      BY <1>1, <2>6, <3>2 DEF Pending
    <3> QED
      BY <1>1, <1>2, <3>1, <3>3 DEF EffectInv, StatusHonest
  <2> QED
    BY <2>3, <2>4, <2>7, <2>8, <2>9, <2>11, <2>13, <2>14 DEF IInv, EffectInv
<1> QED
  BY <1>3, <1>4, <1>5

\* A round that concludes its attempt goes on to settle the Action.
LEMMA ConcludeKeeps ==
  ASSUME RopInv, NEW c \in Rounds, RoundConcludes(c),
         UNCHANGED <<handlers, provider, deps, now, server>>
  PROVE  RopInv'
<1>1. PICK t, a, e : t = round[c].attempt /\ a = round[c].action /\ e = round[c].evidence
  OBVIOUS
<1>2. /\ UNCHANGED <<status, pc, calls, effect, boot, crashes, aborts, observations>>
      /\ rpc[c] = "conclude" /\ Continue(c, "status", round[c])
  BY DEF RoundConcludes, handlers, provider, server
<1>3. /\ IInv /\ EffectInv /\ RecordInv /\ IInv' /\ EffectInv'
      /\ RoundFits(c) /\ SeenInv(c) /\ TargetInv(c) /\ round[c] \in RoundRows
      /\ observations \in [Attempts -> SUBSET Evidence] /\ boot = "up"
      /\ attempts[t].state \in {"AWAITING_RECONCILIATION", "CONCLUDED"}
      /\ status[a] \in {"OUTCOME_UNKNOWN", "REVERSED", "REVERSE_FAILED"}
      /\ round[c].seen = "OUTCOME_UNKNOWN"
  BY <1>1, <1>2, ConcludeServes, RoundRuns, TargetIs DEF RopInv, Resolving
<1>4. /\ t \in Attempts /\ Proves(e) \in ObservedResults
      /\ attempts'[t].state = "CONCLUDED" /\ attempts'[t].observed = Proves(e)
      /\ attempts'[t].action = attempts[t].action
      /\ \A u \in Attempts \ {t} : attempts'[u] = attempts[u]
      /\ attempts' = attempts \/ attempts[t].state = "AWAITING_RECONCILIATION"
      /\ Shows(t, e) /\ e \in Evidence \ {"INCONCLUSIVE"} /\ e \in Proving(t)
  BY <1>1, <1>2, <1>3, ConcludedRow DEF RoundFits, Concluding
<1>5. /\ rpc' = [rpc EXCEPT ![c] = "status"] /\ round' = [round EXCEPT ![c] = round[c]]
      /\ told' = told /\ rpc \in [Rounds -> RoundPCs] /\ round \in [Rounds -> RoundRows]
      /\ told \in [Rounds -> ToldRows]
  BY <1>2 DEF Continue, RopInv, ReconcileTypeOK
<1>6. /\ rpc'[c] = "status" /\ round' = round /\ ReconcileTypeOK'
      /\ \A d \in Rounds \ {c} : rpc'[d] = rpc[d]
  BY <1>2, <1>3, <1>5 DEF ReconcileTypeOK, RoundPCs
<1>7. Proven(t)' /\ \A x : Shows(t, x)' <=> Shows(t, x)
  BY <1>2, <1>4 DEF Proven, Shows, Proves, Evidence
<1>8. \A u \in Attempts : attempts'[u].action = attempts[u].action /\ (MayAct(u)' => MayAct(u))
  BY <1>2, <1>4 DEF MayAct, Busy, Open
<1>9. RowsAge /\ \A d \in Rounds : StatusAges(d)
  <2>1. \A u \in Attempts : attempts'[u] = attempts[u] \/ u = t
    BY <1>4
  <2> QED
    BY <1>2, <1>3, <1>4, <1>7, <1>8, <2>1 DEF RowsAge, StatusAges
<1>10. RoundFits(c)' /\ SeenInv(c)'
  BY <1>1, <1>2, <1>3, <1>6 DEF RoundFits, SeenInv, Resolving, Concluding, Settled
<1>11. TargetInv(c)'
  <2>1. /\ attempts[t].action = a /\ e \in observations[t]
        /\ status[a] = "OUTCOME_UNKNOWN" =>
             \A u \in Attempts : MayAct(u) /\ attempts[u].action = a => u = t
        /\ status[a] # "OUTCOME_UNKNOWN" => attempts[t].observed = status[a]
    BY <1>1, <1>2, <1>3 DEF TargetInv, Resolving, Concluding
  <2>2. status[a] # "OUTCOME_UNKNOWN" => attempts[t].state = "CONCLUDED"
    BY <1>3, <1>4, <2>1, NoneAssumption
    DEF EffectInv, LocalInv, RowInv, ObservedResults
  <2>3. status[a] # "OUTCOME_UNKNOWN" => attempts'[t].observed = status[a]
    BY <1>4, <2>1, <2>2
  <2>4. /\ round'[c].attempt = t /\ round'[c].action = a
        /\ status'[a] = status[a] /\ Shows(t, e)' /\ e \in observations'[t]
    <3>1. Shows(t, e)'
      BY <1>4, <1>7
    <3> QED
      BY <1>1, <1>2, <1>6, <2>1, <3>1
  <2>5. round'[c].evidence = e
    BY <1>1, <1>6
  <2> QED
    BY <1>4, <1>6, <1>7, <1>8, <2>1, <2>3, <2>4, <2>5 DEF TargetInv
<1>12. RoundInv'
  <2>1. SameTarget
    BY DEF RopInv, RoundInv
  <2>2. \A d \in Rounds \ {c} :
          rpc'[c] \in Resolving /\ rpc[d] \in Resolving
          /\ round[d].action = round'[c].action
          => round[d].attempt = round'[c].attempt
    BY <1>2, <1>6, <2>1 DEF SameTarget, Resolving
  <2> QED
    BY <1>2, <1>5, <1>6, <1>9, <1>10, <1>11, <2>2, RoundMoves
<1>13. RecordInv'
  <2>1. \A d \in Rounds : ToldInv(d)'
    BY <1>3, <1>5, <1>9, ToldKept DEF RecordInv
  <2>2. Settling(t)'
    <3>1. e \in Proving(t)'
      BY <1>2, <1>4 DEF Proving
    <3> QED
      BY <1>1, <1>4, <1>6, <3>1 DEF Settling
  <2>3. ASSUME NEW u \in Attempts \ {t}, Settling(u) PROVE Settling(u)'
    <3>1. Proving(u)' = Proving(u)
      BY <1>2 DEF Proving
    <3>2. attempts'[u] = attempts[u] /\ \A d \in Rounds : rpc[d] = "status" => rpc'[d] = "status"
      BY <1>4, <1>6
    <3> QED
      BY <1>2, <1>6, <2>3, <3>1, <3>2 DEF Settling
  <2>4. \A u \in Attempts :
          attempts[u].state = "AWAITING_RECONCILIATION" \/ Settling(u)
          => attempts'[u].state = "AWAITING_RECONCILIATION" \/ Settling(u)'
    BY <1>4, <2>2, <2>3
  <2>5. \A u \in Attempts : attempts'[u].state = "NONE" => attempts'[u] = attempts[u]
    BY <1>4
  <2> QED
    BY <1>2, <1>3, <1>9, <2>1, <2>4, <2>5, RecordsKept
<1> QED
  BY <1>3, <1>6, <1>12, <1>13 DEF RopInv

\* What a round holds when it is to settle its Action: a concluded attempt, and
\* nobody else can act while the status is uncertain.
LEMMA SettlesBy ==
  ASSUME RopInv, NEW c \in Rounds, rpc[c] = "status"
  PROVE  LET t == round[c].attempt
             a == round[c].action
             e == round[c].evidence
         IN  /\ t \in Attempts /\ a \in Actions /\ e \in Evidence \ {"INCONCLUSIVE"}
             /\ attempts[t].action = a /\ attempts[t].state = "CONCLUDED"
             /\ attempts[t].observed = Proves(e) /\ Proves(e) \in ObservedResults
             /\ Shows(t, e) /\ e \in observations[t]
             /\ status[a] = "OUTCOME_UNKNOWN" =>
                  /\ \A u \in Attempts : MayAct(u) /\ attempts[u].action = a => u = t
                  /\ \A u \in Attempts : Busy(u) => attempts[u].action # a
<1>1. PICK t, a, e : t = round[c].attempt /\ a = round[c].action /\ e = round[c].evidence
  OBVIOUS
<1>2. /\ t \in Attempts /\ a \in Actions /\ e \in Evidence \ {"INCONCLUSIVE"}
      /\ IInv /\ EffectInv
  BY <1>1, RoundRuns DEF RoundFits, Resolving, Concluding, RopInv
<1>3. TargetInv(c)
  BY RoundRuns
<1>4. /\ attempts[t].action = a /\ attempts[t].observed = Proves(e)
      /\ Shows(t, e) /\ e \in observations[t]
      /\ status[a] = "OUTCOME_UNKNOWN" =>
           \A u \in Attempts : MayAct(u) /\ attempts[u].action = a => u = t
  BY <1>1, <1>3 DEF TargetInv, Resolving, Concluding
<1>5. Proves(e) \in ObservedResults
  BY DEF Proves, ObservedResults
<1>6. attempts[t].state = "CONCLUDED"
  BY <1>2, <1>4, <1>5, NoneAssumption DEF EffectInv, LocalInv, RowInv
<1>7. ASSUME status[a] = "OUTCOME_UNKNOWN", NEW u \in Attempts, Busy(u),
             attempts[u].action = a
      PROVE  FALSE
  <2>1. u = t
    BY <1>4, <1>7 DEF MayAct
  <2>2. pc[t] = "status"
    BY <1>6, <1>7, <2>1 DEF Busy, Open
  <2> QED
    BY <1>2, <1>4, <1>7, <2>2 DEF IInv, OwnsAttempt, Requests
<1> QED
  BY <1>1, <1>2, <1>4, <1>5, <1>6, <1>7

\* Settling an uncertain Action by what is proved disturbs no request.
LEMMA SettleServes ==
  ASSUME RopInv, NEW c \in Rounds, rpc[c] = "status",
         UpdateRow(round[c].action, "OUTCOME_UNKNOWN", Proves(round[c].evidence)),
         UNCHANGED <<history, attempts, idem, residue, handlers, provider, deps, now,
                     server>>
  PROVE  IInv' /\ EffectInv'
<1>1. PICK t, a, e : t = round[c].attempt /\ a = round[c].action /\ e = round[c].evidence
  OBVIOUS
<1>2. /\ t \in Attempts /\ a \in Actions /\ e \in Evidence \ {"INCONCLUSIVE"}
      /\ attempts[t].action = a /\ Shows(t, e)
      /\ \A u \in Attempts : MayAct(u) /\ attempts[u].action = a => u = t
      /\ \A u \in Attempts : Busy(u) => attempts[u].action # a
  BY <1>1, SettlesBy DEF UpdateRow
<1>3. /\ status[a] = "OUTCOME_UNKNOWN"
      /\ status' = [status EXCEPT ![a] = Proves(e)]
      /\ UNCHANGED <<history, attempts, idem, residue, pc, req, frame, reply, calls,
                     answer, effect, deps, now, boot, parking, crashes, aborts>>
  BY <1>1 DEF UpdateRow, handlers, provider, server
<1>4. /\ IInv /\ EffectInv /\ status \in [Actions -> Statuses] /\ calls \subseteq Attempts
  BY DEF RopInv, IInv, TypeInv, StoreOK, StoreTypeOK, ProviderTypeOK
<1>5. /\ status'[a] = Proves(e) /\ status' \in [Actions -> Statuses]
      /\ \A b : b # a => status'[b] = status[b]
  <2>1. Proves(e) \in Statuses
    BY DEF Proves, Statuses
  <2> QED
    BY <1>2, <1>3, <1>4, <2>1
<1>6. /\ \A u \in Attempts : Busy(u)' <=> Busy(u)
      /\ \A u \in Attempts : MayAct(u)' <=> MayAct(u)
  BY <1>3 DEF MayAct, Busy, Open
<1>7. TypeInv'
  BY <1>3, <1>4, <1>5 DEF IInv, TypeInv, StoreOK, StoreTypeOK, ProviderTypeOK,
     HandlersOK, HandlerTypeOK, ServerTypeOK, LocalsFit
<1>8. \A r \in Requests : OwnsAttempt(r)'
  BY <1>3, <1>4, <1>5 DEF IInv, OwnsAttempt, A
<1>9. BusyInv' /\ RunningIsReversing'
  <2>1. \A u \in Attempts : attempts[u].state = "RUNNING" => Busy(u)
    BY DEF Busy, Open
  <2> QED
    BY <1>2, <1>3, <1>4, <1>5, <1>6, <2>1 DEF IInv, BusyInv, RunningIsReversing
<1>10. RecoveryInv'
  BY <1>3, <1>4 DEF IInv, RecoveryInv, InFlight, Open
<1>11. \A u \in Attempts : LocalInv(u)'
  BY <1>3, <1>4 DEF EffectInv, LocalInv, RowInv, CallInv, OutcomeInv, Proven, A
<1>12. ASSUME NEW u \in Attempts, MayAct(u), attempts[u].action = a
       PROVE  Proves(e) = "REVERSED"
  <2>1. u = t /\ ~ Busy(t)
    BY <1>2, <1>12
  <2> QED
    BY <1>2, <1>12, <2>1 DEF MayAct, Shows, Proves, Evidence
<1>13. OneActor'
  BY <1>3, <1>4, <1>5, <1>6, <1>12 DEF EffectInv, OneActor
<1>14. StatusHonest'
  <2>1. \A b : Done(b)' = Done(b) /\ Pending(b)' = Pending(b)
    BY <1>3 DEF Done, Pending
  <2>2. e = "PROVEN_REVERSED" => t \in Done(a) /\ effect[t] = "full"
    BY <1>2 DEF Done, Shows
  <2>3. Proves(e) = "REVERSED" => e = "PROVEN_REVERSED"
    BY DEF Proves
  <2>4. Proves(e) # "REVERSED" => Done(a) = {} /\ ~ Pending(a)
    BY <1>4, <1>12 DEF Done, Pending, MayAct
  <2>5. Proves(e) \in {"REVERSED", "REVERSE_FAILED"}
    BY DEF Proves
  <2> SUFFICES ASSUME NEW b \in Actions
               PROVE  /\ status'[b] = "REVERSED" => \E x \in Done(b) : effect[x] = "full"
                      /\ status'[b] = "PARTIALLY_REVERSED" =>
                           \E x \in Done(b) : effect[x] = "partial" /\ x \in residue
                      /\ status'[b] \in {"APPLIED", "REVERSE_FAILED", "EXPIRED",
                                         "IRREVERSIBLE"}
                           => Done(b) = {} /\ ~ Pending(b)
    BY <1>3, <2>1 DEF StatusHonest
  <2>6. CASE b = a
    BY <1>5, <2>2, <2>3, <2>4, <2>5, <2>6
  <2>7. CASE b # a
    BY <1>4, <1>5, <2>7 DEF EffectInv, StatusHonest
  <2> QED
    BY <2>6, <2>7
<1> QED
  BY <1>7, <1>8, <1>9, <1>10, <1>11, <1>13, <1>14 DEF IInv, EffectInv

\* A settlement answers the other rounds that wait for it: they work on the same
\* attempt.
LEMMA SettlementAges ==
  ASSUME RopInv, NEW c \in Rounds, rpc[c] = "status",
         UpdateRow(round[c].action, "OUTCOME_UNKNOWN", Proves(round[c].evidence)),
         UNCHANGED <<attempts, calls, effect, pc, observations>>
  PROVE  RowsAge /\ \A d \in Rounds : StatusAges(d)
<1>1. PICK t, a, e : t = round[c].attempt /\ a = round[c].action /\ e = round[c].evidence
  OBVIOUS
<1>2. /\ t \in Attempts /\ a \in Actions /\ attempts[t].observed = Proves(e)
      /\ status \in [Actions -> Statuses]
  BY <1>1, SettlesBy, RoundRuns
<1>3. /\ status[a] = "OUTCOME_UNKNOWN"
      /\ status'[a] = Proves(e) /\ \A b \in Actions : b # a => status'[b] = status[b]
  BY <1>1, <1>2 DEF UpdateRow
<1>4. \A u \in Attempts : MayAct(u)' => MayAct(u)
  BY DEF MayAct, Busy, Open
<1>5. RowsAge
  BY <1>4 DEF RowsAge
<1>6. ASSUME NEW d \in Rounds PROVE StatusAges(d)
  <2>1. rpc[d] \in Resolving /\ round[d].action = a => round[d].attempt = t
    BY <1>1 DEF RopInv, RoundInv, SameTarget, Resolving
  <2>2. Proves(e) \in {"REVERSED", "REVERSE_FAILED"}
    BY DEF Proves
  <2> QED
    BY <1>2, <1>3, <2>1, <2>2 DEF StatusAges
<1> QED
  BY <1>5, <1>6

\* What is recorded stays as it should when a round stops settling an Action that
\* is settled.
LEMMA SettlementKeeps ==
  ASSUME RopInv, NEW c \in Rounds, rpc[c] = "status",
         UNCHANGED <<attempts, observations, crashes, aborts>>, RowsAge,
         status'[round[c].action] # "OUTCOME_UNKNOWN",
         \A b \in Actions : status'[b] # status[b] =>
           b = round[c].action /\ status'[b] = Proves(round[c].evidence),
         \A d \in Rounds \ {c} : rpc'[d] = rpc[d] /\ round'[d] = round[d],
         \A d \in Rounds : ToldInv(d)'
  PROVE  RecordInv'
<1>1. PICK t, a, e : t = round[c].attempt /\ a = round[c].action /\ e = round[c].evidence
  OBVIOUS
<1>2. /\ t \in Attempts /\ attempts[t].action = a /\ attempts[t].observed = Proves(e)
      /\ IInv /\ EffectInv /\ RecordInv
  BY <1>1, SettlesBy DEF RopInv
<1>3. ASSUME NEW b \in Actions, status'[b] # status[b]
      PROVE  /\ status'[b] \in Settled =>
                  \E u \in Attempts : attempts'[u].action = b
                                      /\ attempts'[u].observed = status'[b]
             /\ status'[b] # "OUTCOME_UNKNOWN"
  BY <1>1, <1>2, <1>3
<1>4. ASSUME NEW u \in Attempts, status'[attempts[u].action] = "OUTCOME_UNKNOWN",
             Settling(u)
      PROVE  Settling(u)'
  <2>1. u # t
    BY <1>1, <1>2, <1>4
  <2>2. Proving(u)' = Proving(u)
    BY DEF Proving
  <2> QED
    BY <1>1, <1>4, <2>1, <2>2 DEF Settling
<1> QED
  BY <1>2, <1>3, <1>4, RecordsKept

\* A round settles its Action, or finds it settled and says so.
LEMMA SettleKeeps ==
  ASSUME RopInv, NEW c \in Rounds, RoundUpdatesStatus(c),
         UNCHANGED <<handlers, provider, deps, now, server>>
  PROVE  RopInv'
<1>1. PICK t, a, e : t = round[c].attempt /\ a = round[c].action /\ e = round[c].evidence
  OBVIOUS
<1>2. /\ rpc[c] = "status"
      /\ UNCHANGED <<history, attempts, idem, residue, pc, calls, effect, boot, crashes,
                     aborts, observations>>
  BY DEF RoundUpdatesStatus, handlers, provider, server
<1>3. /\ t \in Attempts /\ a \in Actions /\ e \in Evidence \ {"INCONCLUSIVE"}
      /\ attempts[t].action = a /\ attempts[t].state = "CONCLUDED"
      /\ attempts[t].observed = Proves(e) /\ Shows(t, e) /\ e \in observations[t]
  BY <1>1, <1>2, SettlesBy
<1>4. /\ IInv /\ EffectInv /\ RecordInv /\ SameTarget
      /\ RoundFits(c) /\ SeenInv(c) /\ TargetInv(c) /\ round[c] \in RoundRows
      /\ observations \in [Attempts -> SUBSET Evidence] /\ boot = "up"
      /\ status \in [Actions -> Statuses] /\ round[c].seen = "OUTCOME_UNKNOWN"
  BY <1>2, RoundRuns, TargetIs DEF RopInv, RoundInv, Resolving
<1>5. CASE /\ UpdateRow(a, "OUTCOME_UNKNOWN", Proves(e))
           /\ Continue(c, "history", round[c])
  <2>1. IInv' /\ EffectInv' /\ RowsAge /\ \A d \in Rounds : StatusAges(d)
    BY <1>1, <1>2, <1>5, SettleServes, SettlementAges
  <2>2. /\ status[a] = "OUTCOME_UNKNOWN" /\ status'[a] = Proves(e)
        /\ \A b \in Actions : b # a => status'[b] = status[b]
        /\ Proves(e) \in {"REVERSED", "REVERSE_FAILED"}
    BY <1>3, <1>4, <1>5 DEF UpdateRow, Proves
  <2>3. /\ ReconcileTypeOK' /\ ToldInv(c)'
        /\ rpc'[c] = "history" /\ round'[c] = round[c]
    BY <1>2, <1>4, <1>5, RoundGoesOn DEF RoundPCs
  <2>4. \A d \in Rounds \ {c} :
          rpc'[d] = rpc[d] /\ round'[d] = round[d] /\ told'[d] = told[d]
    BY <1>5, OthersAlone DEF RopInv
  <2>5. RoundFits(c)' /\ SeenInv(c)'
    BY <1>1, <1>2, <1>4, <2>2, <2>3
    DEF RoundFits, SeenInv, Resolving, Concluding, Settled
  <2>6. TargetInv(c)'
    <3>1. Proven(t)' /\ Shows(t, e)'
      BY <1>2, <1>3 DEF Proven, Shows, Proves, Evidence
    <3>2. round'[c].attempt = t /\ round'[c].action = a /\ round'[c].evidence = e
      BY <1>1, <2>3
    <3> QED
      BY <1>2, <1>3, <2>2, <2>3, <3>1, <3>2 DEF TargetInv
  <2>7. \A d \in Rounds \ {c} :
          rpc'[c] \in Resolving /\ rpc[d] \in Resolving
          /\ round[d].action = round'[c].action
          => round[d].attempt = round'[c].attempt
    BY <1>2, <2>3, SameTargetKept DEF Resolving
  <2>8. RoundInv'
    BY <1>2, <2>1, <2>4, <2>5, <2>6, <2>7, RoundMoves
  <2>9. \A d \in Rounds : ToldInv(d)'
    BY <1>4, <2>1, <2>3, <2>4, ToldKept DEF RecordInv
  <2>10. RecordInv'
    BY <1>1, <1>2, <2>1, <2>2, <2>4, <2>9, SettlementKeeps
  <2> QED
    BY <2>1, <2>3, <2>8, <2>10 DEF RopInv
<1>6. CASE /\ status[a] # "OUTCOME_UNKNOWN" /\ UNCHANGED status
           /\ Tell(c, Refused("INTERNAL"))
  <2>1. UNCHANGED vars
    BY <1>2, <1>6 DEF vars, tables
  <2>2. IInv' /\ EffectInv'
    BY <1>4, <2>1, OwnershipInductive, EffectStep
  <2>3. \A u \in Attempts : MayAct(u)' => MayAct(u)
    BY <1>2 DEF MayAct, Busy, Open
  <2>4. RowsAge /\ \A d \in Rounds : StatusAges(d)
    BY <1>2, <1>6, <2>3 DEF RowsAge, StatusAges
  <2>5. Refused("INTERNAL") \in ToldRows
    BY DEF Refused, ToldRows, ToldKinds
  <2>6. /\ ReconcileTypeOK' /\ rpc'[c] = "done" /\ told'[c] = Refused("INTERNAL")
        /\ RoundFits(c)' /\ SeenInv(c)' /\ TargetInv(c)'
    BY <1>2, <1>6, <2>5, RoundAnswers
  <2>7. \A d \in Rounds \ {c} :
          rpc'[d] = rpc[d] /\ round'[d] = round[d] /\ told'[d] = told[d]
    BY <1>6, OthersAlone DEF RopInv
  <2>8. RoundInv'
    BY <1>2, <2>4, <2>6, <2>7, RoundMoves DEF Resolving
  <2>9. ToldInv(c)'
    BY <2>6 DEF ToldInv, Refused
  <2>10. \A d \in Rounds : ToldInv(d)'
    BY <1>4, <2>4, <2>7, <2>9, ToldKept DEF RecordInv
  <2>11. RecordInv'
    BY <1>1, <1>2, <1>6, <2>4, <2>7, <2>10, SettlementKeeps
  <2> QED
    BY <2>2, <2>6, <2>8, <2>11 DEF RopInv
<1> QED
  BY <1>1, <1>5, <1>6 DEF RoundUpdatesStatus

-----------------------------------------------------------------------------
(* The server: its start and its steps. *)

\* At the start there is no attempt and no round runs.
LEMMA RopInitial ==
  RopInit => RopInv
<1> SUFFICES ASSUME RopInit PROVE RopInv
  OBVIOUS
<1>1. IInv /\ EffectInv
  BY TypeInit, OwnershipInit, EffectInit DEF RopInit, IInv, Ownership
<1>2. /\ \A t \in Attempts : attempts[t].state = "NONE" /\ attempts[t].action = None
      /\ status \in [Actions -> {"APPLIED", "IRREVERSIBLE"}]
      /\ rpc = [c \in Rounds |-> "idle"] /\ told = [c \in Rounds |-> Refused("NONE")]
  BY DEF RopInit, Init, StoreInit, NoAttempt, ReconcileInit
<1>3. ReconcileTypeOK
  <2>1. EmptyRound \in RoundRows /\ Refused("NONE") \in ToldRows
    BY DEF EmptyRound, RoundRows, Refused, ToldRows, ToldKinds
  <2> QED
    BY <2>1 DEF RopInit, ReconcileInit, ReconcileTypeOK, RoundPCs
<1>4. RoundInv
  BY <1>2 DEF RoundInv, RoundFits, SeenInv, TargetInv, SameTarget, Resolving, Concluding
<1>5. RecordInv
  <2>1. SettledInv /\ UncertainInv
    BY <1>2 DEF SettledInv, UncertainInv, Settled
  <2>2. \A c \in Rounds : ToldInv(c)
    BY <1>2 DEF ToldInv, Refused
  <2> QED
    BY <1>2, <2>1, <2>2 DEF RecordInv
<1> QED
  BY <1>1, <1>3, <1>4, <1>5 DEF RopInv

\* A step of the service, of the provider or of recovery is no crash.
LEMMA NoCrash ==
  ASSUME crashes \in Nat,
         \/ \E r \in Requests : Arrive(r) \/ Handle(r) \/ ProviderActs(r) \/ Abort(r)
         \/ Recover \/ Tick \/ AddDependency \/ UNCHANGED vars
  PROVE  ~ Crash
<1>1. crashes' = crashes
  BY DEF Handle, Arrive, SweepSelect, SweepExpire, SweepHistory, LookupKey,
     Converge, ReadAction, ReadEdges, CheckDependent, Begin, BeginRefused,
     CallProvider, ReceiveAnswer, ProviderTimeout, RecordResidue, RecordAttempt,
     RecordStatus, RecordHistory, PollAttempt, ProjectAction, ProviderActs, Abort,
     Recover, RecoverScan, RecoverMark, RecoverStatus, RecoverHistory, Tick,
     AddDependency, server, vars
<1> QED
  BY <1>1 DEF Crash

\* The steps of the server, by who takes them: the requests, the provider and
\* recovery; a crash; or a round, that writes no table, or one.
LEMMA WhoSteps ==
  ASSUME RopInv, [RopNext]_ropVars
  PROVE  \/ [Next]_vars /\ ~ Crash /\ UNCHANGED <<rounds, observations>>
         \/ RopCrash \/ AbortRound
         \/ \E c \in Rounds :
              \/ /\ UNCHANGED vars /\ boot = "up"
                 /\ \/ StartRound(c) \/ RoundReadsAction(c)
                    \/ RoundReadsOpenAttempt(c) \/ RoundReplaysLatest(c)
                    \/ Lookup(c) \/ RecordObservation(c)
                    \/ RoundRereadsAttempt(c) \/ RoundReplies(c)
              \/ /\ UNCHANGED <<handlers, provider, deps, now, server>>
                 /\ RoundConcludes(c) \/ RoundUpdatesStatus(c) \/ RoundAppendsHistory(c)
<1>1. crashes \in Nat
  BY DEF RopInv, IInv, TypeInv, ServerTypeOK
<1>2. CASE ServiceStep \/ RopIdle \/ UNCHANGED ropVars
  <2>1. CASE ServiceStep
    BY <1>1, <2>1, NoCrash DEF ServiceStep, Next
  <2>2. CASE RopIdle \/ UNCHANGED ropVars
    BY <1>1, <2>2, NoCrash DEF RopIdle, AllAnswered, ropVars
  <2> QED
    BY <1>2, <2>1, <2>2
<1>3. ASSUME NEW c \in Rounds, (boot = "up" /\ StartRound(c)) \/ RoundStep(c),
             UNCHANGED <<handlers, provider, deps, now, server>>
      PROVE  \/ /\ UNCHANGED vars /\ boot = "up"
                /\ \/ StartRound(c) \/ RoundReadsAction(c)
                   \/ RoundReadsOpenAttempt(c) \/ RoundReplaysLatest(c)
                   \/ Lookup(c) \/ RecordObservation(c)
                   \/ RoundRereadsAttempt(c) \/ RoundReplies(c)
             \/ RoundConcludes(c) \/ RoundUpdatesStatus(c) \/ RoundAppendsHistory(c)
  <2> DEFINE Reads == \/ StartRound(c) \/ RoundReadsAction(c)
                      \/ RoundReadsOpenAttempt(c) \/ RoundReplaysLatest(c)
                      \/ Lookup(c) \/ RecordObservation(c)
                      \/ RoundRereadsAttempt(c) \/ RoundReplies(c)
  <2>1. \/ Reads
        \/ RoundConcludes(c) \/ RoundUpdatesStatus(c) \/ RoundAppendsHistory(c)
    BY <1>3 DEF RoundStep
  <2>2. Reads => UNCHANGED tables
    BY DEF StartRound, RoundReadsAction, RoundReadsOpenAttempt, RoundReplaysLatest,
       Lookup, RecordObservation, RoundRereadsAttempt, RoundReplies, roundsOnly
  <2>3. Reads => UNCHANGED vars
    BY <1>3, <2>2 DEF vars
  <2>4. RoundStep(c) => rpc[c] \notin {"idle", "done"}
    BY DEF RoundStep, RoundReadsAction, RoundReadsOpenAttempt, RoundReplaysLatest,
       Lookup, RecordObservation, RoundConcludes, RoundUpdatesStatus,
       RoundAppendsHistory, RoundRereadsAttempt, RoundReplies
  <2>5. boot = "up"
    BY <1>3, <2>4, RoundRuns
  <2> QED
    BY <2>1, <2>3, <2>5
<1>4. CASE ReconcileStep
  BY <1>3, <1>4 DEF ReconcileStep
<1> QED
  BY <1>2, <1>4 DEF RopNext

\* Every step of the server keeps what is said of requests and rounds.
LEMMA RopStep ==
  RopInv /\ [RopNext]_ropVars => RopInv'
<1> SUFFICES ASSUME RopInv, [RopNext]_ropVars PROVE RopInv'
  OBVIOUS
<1> QED
  BY WhoSteps, ServiceKeeps, CrashKeeps, AbortRoundKeeps, ReadsKeep, OpenKeeps,
     ReplayKeeps, LookupKeeps, ReplyKeeps, HistoryKeeps, ConcludeKeeps, SettleKeeps

-----------------------------------------------------------------------------
(* The theorems. *)

\* What is said of requests and rounds holds in every state of every run.
THEOREM RopInductive == RopSpec => []RopInv
  BY RopInitial, RopStep, PTL DEF RopSpec

\* Every local of a request and of a round, and every table, holds a value of
\* its type.
THEOREM RopTypeCorrect == RopSpec => []RopTypeOK
<1>1. RopInv => RopTypeOK
  BY DEF RopInv, RopTypeOK, IInv, TypeInv, TypeOK, StoreOK, HandlersOK
<1> QED
  BY <1>1, RopInductive, PTL

\* Rounds resolve uncertainty beside the requests and still no status ever
\* contradicts the provider, nor does it act twice on an Action.
THEOREM RopHonest == RopSpec => [](StatusHonest /\ EffectOnce)
<1>1. RopInv => StatusHonest /\ EffectOnce
  BY DEF RopInv, EffectInv, OneActor, EffectOnce, Done, MayAct
<1> QED
  BY <1>1, RopInductive, PTL

\* An uncertain Action that nobody works on has an attempt that a round can
\* still reconcile, unless a round was cut off with its proof recorded.
THEOREM UncertainReconcilable == RopSpec => []UnknownIsReconcilable
<1>1. RopInv => UnknownIsReconcilable
  <2> SUFFICES ASSUME RopInv, Quiet, NEW a \in Actions, status[a] = "OUTCOME_UNKNOWN"
               PROVE  \E t \in Attempts :
                        /\ attempts[t].action = a
                        /\ \/ attempts[t].state = "AWAITING_RECONCILIATION"
                           \/ /\ crashes + aborts > 0
                              /\ attempts[t].observed \in {Proves(e) : e \in Proving(t)}
    BY DEF UnknownIsReconcilable
  <2>1. PICK t \in Attempts : /\ attempts[t].action = a
                              /\ \/ attempts[t].state = "AWAITING_RECONCILIATION"
                                 \/ Settling(t)
    BY DEF RopInv, RecordInv, UncertainInv
  <2>2. \A c \in Rounds : rpc[c] # "status"
    BY DEF Quiet
  <2> QED
    BY <2>1, <2>2 DEF Settling
<1> QED
  BY <1>1, RopInductive, PTL

\* What a round tells is true, although it reads the attempt and the Action at
\* different times: the recorded results are the provider's, and a settled status
\* that differs from the outcome told is the recorded result of another attempt,
\* or of this one after it was read.
THEOREM TruthTold == RopSpec => []RoundsTellTruth
<1>1. RopInv => RoundsTellTruth
  <2> SUFFICES ASSUME RopInv, NEW c \in Rounds, told[c].kind = "RESULT",
                      NEW t, t = told[c].attempt
               PROVE  /\ told[c].outcome = "REVERSED" => effect[t] = "full"
                      /\ told[c].outcome = "PARTIALLY_REVERSED" => effect[t] = "partial"
                      /\ told[c].outcome \in {"CONFLICT", "REVERSE_FAILED"} =>
                           effect[t] = "none" /\ t \notin calls
                      /\ told[c].status \in Settled /\ told[c].outcome # told[c].status
                         => \E u \in Attempts :
                              /\ attempts[u].action = attempts[t].action
                              /\ attempts[u].observed = told[c].status
                              /\ u = t <=> told[c].outcome = "OUTCOME_UNKNOWN"
    BY DEF RoundsTellTruth, Settled
  <2>1. ToldInv(c) /\ EffectInv
    BY DEF RopInv, RecordInv
  <2>2. /\ t \in Attempts
        /\ told[c].outcome \in ObservedResults => attempts[t].observed = told[c].outcome
    BY <2>1 DEF ToldInv
  <2>3. LocalInv(t)
    BY <2>1, <2>2 DEF EffectInv
  <2>4. ASSUME told[c].outcome \in ObservedResults
        PROVE  /\ told[c].outcome = "REVERSED" => effect[t] = "full"
               /\ told[c].outcome = "PARTIALLY_REVERSED" => effect[t] = "partial"
               /\ told[c].outcome \in {"CONFLICT", "REVERSE_FAILED"} =>
                    effect[t] = "none" /\ t \notin calls
    <3>1. attempts[t].observed = told[c].outcome /\ attempts[t].state = "CONCLUDED"
      BY <2>2, <2>3, <2>4, NoneAssumption DEF LocalInv, RowInv
    <3>2. CASE answer[t] \in Conclusive /\ attempts[t].observed = ObservedAs(answer[t])
      <4>1. answer[t] # None
        BY <3>2, AnswersAssumption DEF AllAnswers, Outcomes
      <4>2. effect[t] \in EffectsOf(answer[t]) /\ t \notin calls
        BY <2>3, <4>1 DEF LocalInv, CallInv
      <4> QED
        BY <3>1, <3>2, <4>2 DEF Conclusive, ObservedResults, ObservedAs, EffectsOf
    <3>3. CASE Proven(t)
      BY <3>1, <3>3 DEF Proven
    <3> QED
      BY <2>3, <3>1, <3>2, <3>3 DEF LocalInv, OutcomeInv
  <2>5. {"REVERSED", "PARTIALLY_REVERSED", "CONFLICT", "REVERSE_FAILED"}
          \subseteq ObservedResults
    BY DEF ObservedResults
  <2>6. told[c].status \in Settled /\ told[c].outcome # told[c].status
          => \E u \in Attempts :
               /\ attempts[u].action = attempts[t].action
               /\ attempts[u].observed = told[c].status
               /\ u = t <=> told[c].outcome = "OUTCOME_UNKNOWN"
    BY <2>1 DEF ToldInv
  <2> QED
    BY <2>4, <2>5, <2>6
<1> QED
  BY <1>1, RopInductive, PTL

\* OUTCOME_UNKNOWN is left only by a round that recorded its proof, concluded
\* the attempt with it, and now moves the Action to what it proves.
THEOREM LeavesOnEvidence == RopSpec => UnknownLeavesOnEvidence
<1>1. RopInv /\ [RopNext]_ropVars =>
        \A a \in Actions :
          status[a] = "OUTCOME_UNKNOWN" /\ status'[a] # "OUTCOME_UNKNOWN" =>
            \E t \in Attempts, e \in Evidence \ {"INCONCLUSIVE"} :
              /\ attempts[t].action = a /\ e \in observations[t]
              /\ attempts[t].observed = Proves(e) /\ status'[a] = Proves(e)
  <2> SUFFICES ASSUME RopInv, [RopNext]_ropVars, NEW a \in Actions,
                      status[a] = "OUTCOME_UNKNOWN", status'[a] # "OUTCOME_UNKNOWN"
               PROVE  \E t \in Attempts, e \in Evidence \ {"INCONCLUSIVE"} :
                        /\ attempts[t].action = a /\ e \in observations[t]
                        /\ attempts[t].observed = Proves(e) /\ status'[a] = Proves(e)
    OBVIOUS
  <2>1. ~ [Next]_vars
    BY StatusSettles DEF RopInv
  <2>2. ~ RopCrash
    BY <2>1 DEF RopCrash, Next
  <2>3. ~ AbortRound
    BY DEF AbortRound, RoundAborts, roundsOnly, tables
  <2>4. PICK c \in Rounds : RoundUpdatesStatus(c)
    <3>1. status' # status
      OBVIOUS
    <3>2. \A c \in Rounds : ~ RoundConcludes(c) /\ ~ RoundAppendsHistory(c)
      BY <3>1 DEF RoundConcludes, RoundAppendsHistory
    <3> QED
      BY <2>1, <2>2, <2>3, <3>2, WhoSteps
  <2>5. /\ rpc[c] = "status"
        /\ UpdateRow(round[c].action, "OUTCOME_UNKNOWN", Proves(round[c].evidence))
    BY <2>4 DEF RoundUpdatesStatus
  <2>6. a = round[c].action /\ status'[a] = Proves(round[c].evidence)
    <3>1. status \in [Actions -> Statuses]
      BY DEF RopInv, IInv, TypeInv, StoreOK, StoreTypeOK
    <3> QED
      BY <2>5, <3>1 DEF UpdateRow
  <2> QED
    BY <2>5, <2>6, SettlesBy
<1> QED
  BY <1>1, RopInductive, PTL DEF RopSpec, UnknownLeavesOnEvidence

\* A round's settlement is the contract's resolution of uncertainty.
LEMMA SettleResolves ==
  ASSUME RopInv, RopInv', NEW c \in Rounds, RoundUpdatesStatus(c),
         UNCHANGED <<handlers, provider, deps, now, server>>
  PROVE  [Contract!Next]_Contract!vars
<1>1. /\ rpc[c] = "status" /\ UNCHANGED <<attempts, effect>>
      /\ IInv /\ EffectInv /\ EffectInv'
  BY DEF RoundUpdatesStatus, provider, RopInv
<1>2. CASE UNCHANGED status
  BY <1>1, <1>2, SilentStep
<1>3. CASE UpdateRow(round[c].action, "OUTCOME_UNKNOWN", Proves(round[c].evidence))
  <2>1. PICK a, e : a = round[c].action /\ e = round[c].evidence
    OBVIOUS
  <2>2. a \in Actions
    BY <1>1, <2>1, SettlesBy
  <2>3. status[a] = "OUTCOME_UNKNOWN" /\ status' = [status EXCEPT ![a] = Proves(e)]
    BY <1>3, <2>1 DEF UpdateRow
  <2>4. status'[a] = Proves(e) /\ Proves(e) \in {"REVERSED", "REVERSE_FAILED"}
    BY <1>1, <2>2, <2>3 DEF IInv, TypeInv, StoreOK, StoreTypeOK, Proves
  <2>5. \A b \in Actions : Done(b)' = Done(b)
    BY <1>1 DEF Done
  <2>6. TrueEffect' = TrueEffect
    BY <1>1, <2>5, TruthKept
  <2>7. \/ Proves(e) = "REVERSED" /\ \E t \in Done(a) : effect[t] = "full"
        \/ Proves(e) = "REVERSE_FAILED" /\ Done(a) = {}
    BY <1>1, <2>2, <2>4, <2>5 DEF EffectInv, StatusHonest
  <2>8. \/ Proves(e) = "REVERSED" /\ TrueEffect[a] = "full"
        \/ Proves(e) = "REVERSE_FAILED" /\ TrueEffect[a] = "none"
    BY <1>1, <2>2, <2>7, TrueEffectIs DEF TruthIs
  <2>9. Proves(e) \in Contract!Justifies(TrueEffect[a]) \ {"APPLIED"}
    BY <2>8 DEF Contract!Justifies
  <2> QED
    BY <2>2, <2>3, <2>6, <2>9 DEF Contract!Next, Contract!Resolve, Contract!Move
<1> QED
  BY <1>2, <1>3 DEF RoundUpdatesStatus

\* Every step of the server is one of the contract's, or none.
LEMMA RopContractStep ==
  ASSUME RopInv, RopInv', [RopNext]_ropVars
  PROVE  [Contract!Next]_Contract!vars
<1>1. IInv /\ EffectInv /\ EffectInv'
  BY DEF RopInv
<1>2. CASE [Next]_vars \/ RopCrash
  BY <1>1, <1>2, ContractStep DEF RopCrash, Next
<1>3. CASE AbortRound
  BY <1>1, <1>3, SilentStep DEF AbortRound, RoundAborts, roundsOnly, tables, provider
<1>4. ASSUME NEW c \in Rounds, UNCHANGED <<handlers, provider, deps, now, server>>,
             RoundConcludes(c) \/ RoundAppendsHistory(c)
      PROVE  [Contract!Next]_Contract!vars
  <2>1. UNCHANGED <<status, effect>>
    BY <1>4 DEF RoundConcludes, RoundAppendsHistory, provider
  <2>2. \A t \in Attempts : attempts'[t].action = attempts[t].action
    <3>1. CASE RoundConcludes(c)
      BY <3>1, ConcludedRow
    <3>2. CASE RoundAppendsHistory(c)
      BY <3>2 DEF RoundAppendsHistory
    <3> QED
      BY <1>4, <3>1, <3>2
  <2> QED
    BY <1>1, <2>1, <2>2, SilentStep
<1> QED
  BY <1>2, <1>3, <1>4, SettleResolves, WhoSteps

\* Requests and rounds together implement the contract, over any number of
\* Actions, requests, rounds, aborts, crashes and recoveries.
THEOREM RopKeepsContract == RopSpec => RopImplementsContract
<1>1. RopInit => Contract!Init
  BY ContractInit DEF RopInit
<1>2. RopInv /\ RopInv' /\ [RopNext]_ropVars => [Contract!Next]_Contract!vars
  BY RopContractStep
<1> QED
  BY <1>1, <1>2, RopInductive, PTL DEF RopSpec, RopImplementsContract

-----------------------------------------------------------------------------
(* What requests are promised holds while rounds run beside them. *)

\* What a round, or its abort, may do to rows that requests rely on: conclude a
\* parked attempt, settle an uncertain status.
RoundTouches ==
  /\ \A t \in Attempts :
       /\ attempts'[t].state = "NONE" <=> attempts[t].state = "NONE"
       /\ attempts'[t].state = "RUNNING" => attempts[t].state = "RUNNING"
       /\ attempts'[t].action = attempts[t].action
       /\ attempts'[t].requestedAt = attempts[t].requestedAt
       /\ attempts[t].observed # None => attempts'[t].observed = attempts[t].observed
  /\ \A a \in Actions :
       \/ status'[a] = status[a]
       \/ status[a] = "OUTCOME_UNKNOWN" /\ status'[a] \in Settled
  /\ UNCHANGED <<idem, pc, req, frame, reply, answer, boot, parking>>
  /\ aborts' = 0 => aborts = 0

\* Parking puts no result on a row, and a round concludes only a parked one.
LEMMA RoundKeepsRows ==
  ASSUME RopInv, NEW c \in Rounds, RoundConcludes(c), NEW t \in Attempts
  PROVE  /\ attempts'[t].state = "NONE" <=> attempts[t].state = "NONE"
         /\ attempts'[t].state = "RUNNING" => attempts[t].state = "RUNNING"
         /\ attempts'[t].action = attempts[t].action
         /\ attempts'[t].requestedAt = attempts[t].requestedAt
         /\ attempts[t].observed # None => attempts'[t].observed = attempts[t].observed
<1>1. PICK u : u = round[c].attempt
  OBVIOUS
<1>2. /\ u \in Attempts /\ attempts'[u].state = "CONCLUDED"
      /\ attempts'[u].action = attempts[u].action
      /\ \A s \in Attempts \ {u} : attempts'[s] = attempts[s]
      /\ attempts' = attempts \/ attempts[u].state = "AWAITING_RECONCILIATION"
  BY <1>1, ConcludedRow
<1>3. CASE t # u \/ attempts' = attempts
  BY <1>2, <1>3
<1>4. CASE t = u /\ attempts[u].state = "AWAITING_RECONCILIATION"
  <2>1. attempts[u].observed = None
    BY <1>2, <1>4 DEF RopInv, EffectInv, LocalInv, RowInv
  <2>2. attempts'[u].requestedAt = attempts[u].requestedAt
    <3>1. PICK o : o = Proves(round[c].evidence)
      OBVIOUS
    <3>2. attempts' = [attempts EXCEPT ![u] =
                         [attempts[u] EXCEPT !.state = "CONCLUDED", !.observed = o]]
      BY <1>1, <1>4, <3>1 DEF RoundConcludes, ConcludeAttempt
    <3>3. attempts \in [Attempts -> AttemptRows]
      BY DEF RopInv, IInv, TypeInv, StoreOK, StoreTypeOK
    <3> QED
      BY <1>2, <3>2, <3>3 DEF AttemptRows
  <2> QED
    BY <1>2, <1>4, <2>1, <2>2
<1> QED
  BY <1>2, <1>3, <1>4

\* Rounds and their aborts do no more than that to what requests rely on.
LEMMA RoundsTouch ==
  ASSUME RopInv, [RopNext]_ropVars
  PROVE  [Next]_vars \/ RoundTouches
<1>1. aborts \in Nat /\ status \in [Actions -> Statuses]
  BY DEF RopInv, IInv, TypeInv, ServerTypeOK, StoreOK, StoreTypeOK
<1>2. RopCrash => [Next]_vars
  BY DEF RopCrash, Next
<1>3. CASE AbortRound
  <2>1. UNCHANGED <<attempts, status, idem, pc, req, frame, reply, answer, boot, parking>>
    BY <1>3 DEF AbortRound, RoundAborts, roundsOnly, tables, handlers, provider
  <2>2. aborts' = aborts + 1
    BY <1>3 DEF AbortRound
  <2> QED
    BY <1>1, <2>1, <2>2 DEF RoundTouches
<1>4. ASSUME NEW c \in Rounds, UNCHANGED <<handlers, provider, deps, now, server>>,
             RoundConcludes(c) \/ RoundUpdatesStatus(c) \/ RoundAppendsHistory(c)
      PROVE  RoundTouches
  <2>1. UNCHANGED <<idem, pc, req, frame, reply, answer, boot, parking, aborts>>
    BY <1>4 DEF handlers, provider, server, RoundConcludes, RoundUpdatesStatus,
       RoundAppendsHistory
  <2>2. CASE RoundConcludes(c)
    <3>1. status' = status
      BY <2>2 DEF RoundConcludes
    <3> QED
      BY <2>1, <2>2, <3>1, RoundKeepsRows DEF RoundTouches
  <2>3. CASE RoundUpdatesStatus(c)
    <3>1. attempts' = attempts /\ rpc[c] = "status"
      BY <2>3 DEF RoundUpdatesStatus
    <3>2. PICK a : a = round[c].action
      OBVIOUS
    <3>3. PICK s : s = Proves(round[c].evidence)
      OBVIOUS
    <3>4. s \in Settled
      BY <3>3 DEF Proves, Settled
    <3>5. status' = status \/ UpdateRow(a, "OUTCOME_UNKNOWN", s)
      BY <2>3, <3>2, <3>3 DEF RoundUpdatesStatus
    <3>6. \A b \in Actions :
            \/ status'[b] = status[b]
            \/ status[b] = "OUTCOME_UNKNOWN" /\ status'[b] \in Settled
      BY <1>1, <3>4, <3>5 DEF UpdateRow
    <3> QED
      BY <2>1, <3>1, <3>6 DEF RoundTouches
  <2>4. CASE RoundAppendsHistory(c)
    BY <2>1, <2>4 DEF RoundAppendsHistory, RoundTouches
  <2> QED
    BY <1>4, <2>2, <2>3, <2>4
<1> QED
  BY <1>2, <1>3, <1>4, WhoSteps

\* Keys, replays and replies rest on rows that a round leaves or completes.
LEMMA TouchedAnswers ==
  ASSUME RopInv, AnswerInv, RoundTouches
  PROVE  AnswerInv'
<1>1. /\ idem \in [Keys -> IdempotencyRows \cup {None}]
      /\ \A r \in Requests : LocalsFit(pc[r], req[r], frame[r])
  BY LocalsTyped DEF RopInv, IInv, TypeInv, StoreOK, StoreTypeOK
<1>2. KeyInv'
  <2>1. \A k \in Keys : idem[k] # None => idem[k].attempt \in Attempts
    BY <1>1 DEF IdempotencyRows
  <2> QED
    BY <2>1 DEF RoundTouches, AnswerInv, KeyInv, A
<1>3. ASSUME NEW r \in Requests PROVE ReplayInv(r)'
  <2>1. pc[r] \in {"poll", "project"} => frame[r].target \in Attempts
    BY <1>1 DEF LocalsFit
  <2>2. pc[r] = "project" /\ frame[r].outcome \in ObservedResults =>
          attempts'[frame[r].target].observed = frame[r].outcome
    BY <2>1, NoneAssumption DEF RoundTouches, AnswerInv, ReplayInv
  <2>3. pc[r] \in {"poll", "project"} =>
          attempts'[frame[r].target].state # "NONE" /\ A(frame[r].target) = A(r)
          /\ req[r].key # None /\ req[frame[r].target].key = req[r].key
    BY <2>1 DEF RoundTouches, AnswerInv, ReplayInv
  <2> QED
    BY <2>2, <2>3 DEF RoundTouches, ReplayInv, A
<1>4. ASSUME NEW r \in Requests PROVE ReplyInv(r)'
  BY DEF RoundTouches, AnswerInv, ReplyInv
<1>5. RepliesRecorded'
  <2> SUFFICES ASSUME NEW r \in Requests, reply[r].outcome \in ObservedResults
               PROVE  LET t == reply[r].attempt IN
                        /\ attempts'[t].observed = reply[r].outcome
                        /\ attempts'[t].action = A(r)
                        /\ t = r \/ (req[r].key # None /\ req[r].key = req[t].key)
    BY DEF RoundTouches, RepliesRecorded, A
  <2>1. reply[r].attempt \in Attempts
    BY DEF AnswerInv, ReplyInv
  <2> QED
    BY <2>1, NoneAssumption DEF RoundTouches, AnswerInv, RepliesRecorded
<1> QED
  BY <1>2, <1>3, <1>4, <1>5 DEF AnswerInv

\* A round gives no Action back and reopens no dependent, so what a request has
\* read of its window and its dependents holds.
LEMMA TouchedWindow ==
  ASSUME RopInv, WindowInv, RoundTouches
  PROVE  WindowInv'
<1>1. \A r \in Requests : LocalsFit(pc[r], req[r], frame[r]) /\ frame[r] \in Frames
  BY LocalsTyped DEF RopInv, IInv, TypeInv, HandlersOK, HandlerTypeOK
<1>2. \A a \in Actions : /\ status'[a] = "APPLIED" => status[a] = "APPLIED"
                         /\ status[a] = "EXPIRED" => status'[a] = "EXPIRED"
                         /\ status[a] \in Resolved => status'[a] \in Resolved
  BY DEF RoundTouches, Settled, Resolved
<1>3. \A a : GivenBack(a) => GivenBack(a)'
  BY NoneAssumption DEF RoundTouches, GivenBack, ObservedResults
<1>4. ASSUME NEW r \in Requests PROVE SweepInv(r)'
  <2>1. /\ pc[r] = "expired" => frame[r].cur \in Actions
        /\ pc[r] \in Fresh \ {"idle", "sweep"} => A(r) \in Actions
    BY <1>1 DEF LocalsFit, Fresh, A
  <2>2. UNCHANGED <<pc, req, frame>>
    BY DEF RoundTouches
  <2>3. pc[r] = "expired" => status'[frame[r].cur] = "EXPIRED"
    BY <1>2, <2>1 DEF WindowInv, SweepInv
  <2>4. ASSUME NEW a, a = A(r), pc[r] \in Fresh \ {"idle", "sweep"},
               req[r].now >= ExpiresAt[a], status'[a] = "APPLIED"
        PROVE  \/ pc[r] \in {"expire", "expired"} /\ a \in frame[r].todo
               \/ GivenBack(a)'
    <3>1. status[a] = "APPLIED"
      BY <1>2, <2>1, <2>4
    <3>2. \/ pc[r] \in {"expire", "expired"} /\ a \in frame[r].todo
          \/ GivenBack(a)
      BY <2>4, <3>1 DEF WindowInv, SweepInv
    <3> QED
      BY <1>3, <3>2
  <2>5. A(r)' = A(r)
    BY <2>2 DEF A
  <2> QED
    BY <2>2, <2>3, <2>4, <2>5 DEF SweepInv, GivenBack
<1>5. ASSUME NEW r \in Requests PROVE BlockInv(r)'
  <2>1. frame[r].edges \subseteq Actions
    BY <1>1 DEF Frames
  <2> QED
    BY <1>2, <2>1 DEF RoundTouches, WindowInv, BlockInv
<1>6. ASSUME NEW r \in Requests PROVE StayInv(r)'
  BY DEF RoundTouches, WindowInv, StayInv
<1>7. LateOnlyAfterReturn'
  <2> SUFFICES ASSUME NEW t \in Attempts, attempts'[t].state # "NONE",
                      attempts'[t].requestedAt >= ExpiresAt[attempts'[t].action]
               PROVE  \E u \in Attempts \ {t} :
                        /\ attempts'[u].action = attempts'[t].action
                        /\ attempts'[u].observed \in {"CONFLICT", "REVERSE_FAILED"}
    BY DEF LateOnlyAfterReturn
  <2>1. /\ attempts[t].state # "NONE" /\ attempts'[t].action = attempts[t].action
        /\ attempts'[t].requestedAt = attempts[t].requestedAt
    BY DEF RoundTouches
  <2>2. PICK u \in Attempts \ {t} :
          /\ attempts[u].action = attempts[t].action
          /\ attempts[u].observed \in {"CONFLICT", "REVERSE_FAILED"}
    BY <2>1 DEF WindowInv, LateOnlyAfterReturn
  <2>3. attempts'[u].action = attempts[u].action
        /\ attempts'[u].observed = attempts[u].observed
    BY <2>2, NoneAssumption DEF RoundTouches, ObservedResults
  <2> QED
    BY <2>1, <2>2, <2>3
<1> QED
  BY <1>4, <1>5, <1>6, <1>7 DEF WindowInv

\* All that is said of requests, of rounds, and of requests beside rounds.
ServerInv == RopInv /\ AnswerInv /\ WindowInv

\* What requests are told and have read stays true beside rounds.
LEMMA RequestsKeep ==
  ServerInv /\ [RopNext]_ropVars => ServerInv'
<1> SUFFICES ASSUME ServerInv, [RopNext]_ropVars
             PROVE  ServerInv'
  OBVIOUS
<1>1. RopInv'
  BY RopStep DEF ServerInv
<1>2. CASE [Next]_vars
  BY <1>1, <1>2, AnswerStep, WindowStep DEF ServerInv, RopInv
<1>3. CASE RoundTouches
  BY <1>1, <1>3, TouchedAnswers, TouchedWindow DEF ServerInv
<1> QED
  BY <1>2, <1>3, RoundsTouch DEF ServerInv

\* What is said of requests and of rounds holds together in every state of
\* every run of the server.
THEOREM ServerInductive == RopSpec => []ServerInv
<1>1. RopInit => ServerInv
  BY RopInitial, AnswerInit, WindowInit DEF RopInit, ServerInv
<1> QED
  BY <1>1, RequestsKeep, PTL DEF RopSpec

\* Rounds that conclude attempts and settle Actions break no promise made to a
\* request: one attempt for a key, outcomes told are recorded ones, nothing is
\* left behind an answer that blames the client, the sweep is not outrun, and
\* only answers that execute does not know leave an attempt RUNNING.
THEOREM PromisesBesideRounds ==
  RopSpec => [](/\ KeyBindsOneAttempt /\ RepliesRecorded /\ ClientErrorMeansUntouched
                /\ LateOnlyAfterReturn /\ OnlyUnrecognizedStays)
<1>1. ServerInv =>
        /\ KeyBindsOneAttempt /\ RepliesRecorded /\ ClientErrorMeansUntouched
        /\ LateOnlyAfterReturn /\ OnlyUnrecognizedStays
  BY KeysAreHonoured, BlamedHasNothing, StayingIsUnknown
  DEF ServerInv, RopInv, AnswerInv, WindowInv
<1> QED
  BY <1>1, ServerInductive, PTL

\* Recovery always gets the server up and no Action gets a second open attempt,
\* while rounds conclude parked attempts.
THEOREM OwnershipBesideRounds ==
  RopSpec => [](RunningIsReversing /\ OpenAttemptOwnsAction)
<1>1. RopInv => RunningIsReversing /\ OpenAttemptOwnsAction
  BY DEF RopInv, IInv, BusyInv, Busy, OpenAttemptOwnsAction
<1> QED
  BY <1>1, RopInductive, PTL

\* A round that settles a dependent never makes it active again, so no reversal
\* begins over an active dependent its request has read.
THEOREM BlockedBesideRounds == RopSpec => NoBeginWhileBlocked
<1>1. ServerInv =>
        [\A r \in Requests : pc[r] = "begin" /\ pc'[r] = "call" =>
           \A d \in frame[r].edges : status[d] \in Resolved]_vars
  BY BlockedWaits DEF ServerInv
<1> QED
  BY <1>1, ServerInductive, PTL DEF NoBeginWhileBlocked
=============================================================================
