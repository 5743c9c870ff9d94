---------------------------- MODULE Effect_proofs ----------------------------
(***************************************************************************)
(* Theorems about what the provider does and what ROP says of it: an       *)
(* Action is reversed at most once, no status contradicts the provider,    *)
(* and over all requests, calls, crashes and recoveries status and true    *)
(* effect move only as ReversalContract allows.                            *)
(***************************************************************************)
EXTENDS Reversal_proofs

USE DEF Requests

\* The labels before Transaction A, and those of a replay.
Fresh == PCs \ (Working \cup {"history", "done"})

\* A request has no row before its Transaction A, then one that names its
\* Action, with a result once it is concluded.
RowInv(t) ==
  /\ pc[t] \in Fresh => attempts[t].state = "NONE"
  /\ attempts[t].state # "NONE" => attempts[t].action = A(t)
  /\ attempts[t].observed # None <=> attempts[t].state = "CONCLUDED"

\* The provider is called once for an attempt, after its row is there, and acts
\* as its answer says.
CallInv(t) ==
  /\ t \in calls \/ answer[t] # None =>
       attempts[t].state # "NONE" /\ pc[t] # "call"
  /\ answer[t] # None => t \notin calls /\ effect[t] \in EffectsOf(answer[t])
  /\ answer[t] = None => effect[t] = "none"

\* What a read-only lookup has proved of an attempt.  No request stores such a
\* result; a reconciliation round, which runs beside them in module Rop, does.
Proven(t) ==
  \/ attempts[t].observed = "REVERSED" /\ effect[t] = "full"
  \/ attempts[t].observed = "REVERSE_FAILED" /\ effect[t] = "none" /\ t \notin calls

\* A conclusive outcome, in a handler's hands or stored, is the provider's answer
\* or proved.
OutcomeInv(t) ==
  /\ pc[t] \in {"residue", "record", "status", "history"}
       /\ frame[t].outcome \in Conclusive => answer[t] = frame[t].outcome
  /\ pc[t] \in {"record", "status", "history"}
       /\ frame[t].outcome = "PARTIALLY_REVERSED" => t \in residue
  /\ pc[t] \in {"status", "history"} /\ frame[t].outcome \in Conclusive
       => /\ attempts[t].state = "CONCLUDED"
          /\ attempts[t].observed = ObservedAs(frame[t].outcome)
  /\ attempts[t].state = "CONCLUDED" =>
       \/ answer[t] \in Conclusive /\ attempts[t].observed = ObservedAs(answer[t])
       \/ Proven(t)

\* An attempt that keeps its Action busy, may still have an effect, or had one.
MayAct(t) == Busy(t) \/ t \in calls \/ effect[t] # "none"

\* An Action has at most one such attempt, and while it has one its status
\* neither denies an effect nor lets another reversal begin.
OneActor ==
  \A t \in Attempts : MayAct(t) =>
    /\ status[attempts[t].action] \in
         {"REVERSING", "OUTCOME_UNKNOWN", "REVERSED", "PARTIALLY_REVERSED"}
    /\ \A u \in Attempts :
         MayAct(u) /\ attempts[u].action = attempts[t].action => u = t

LocalInv(t) == RowInv(t) /\ CallInv(t) /\ OutcomeInv(t)

EffectInv == (\A t \in Attempts : LocalInv(t)) /\ OneActor /\ StatusHonest

-----------------------------------------------------------------------------
(* What steps that leave the provider's work alone preserve. *)

\* The invariant of ownership is kept by every step.
LEMMA OwnershipInductive ==
  IInv /\ [Next]_vars => IInv'
  BY TypeStep, OwnershipStep DEF IInv, Ownership

\* Attempts that no step touches, and their Actions, keep what is said of them
\* while no attempt gets busy and the provider does nothing.
LEMMA ActorsKept ==
  ASSUME OneActor, StatusHonest, calls \subseteq Attempts,
         UNCHANGED <<status, calls, effect>>, residue \subseteq residue',
         \A t \in Attempts : /\ attempts'[t].action = attempts[t].action
                             /\ Busy(t)' => Busy(t)
  PROVE  OneActor' /\ StatusHonest'
<1>1. \A a : Done(a)' = Done(a)
  BY DEF Done
<1>2. \A a : Pending(a)' => Pending(a)
  BY DEF Pending
<1>3. OneActor'
  BY DEF OneActor, MayAct
<1>4. StatusHonest'
  <2> SUFFICES ASSUME NEW a \in Actions
               PROVE  /\ status[a] = "REVERSED" => \E t \in Done(a) : effect[t] = "full"
                      /\ status[a] = "PARTIALLY_REVERSED" =>
                           \E t \in Done(a) : effect[t] = "partial" /\ t \in residue'
                      /\ status[a] \in {"APPLIED", "REVERSE_FAILED", "EXPIRED",
                                        "IRREVERSIBLE"}
                           => Done(a) = {} /\ ~ Pending(a)
    BY <1>1, <1>2 DEF StatusHonest
  <2> QED
    BY DEF StatusHonest
<1> QED
  BY <1>3, <1>4

\* A handler's step that writes no row and calls nobody: it stays before
\* Transaction A, or answers.
LEMMA QuietStep ==
  ASSUME IInv, EffectInv, NEW r \in Requests, NEW label \in Fresh \cup {"done"},
         UNCHANGED <<status, attempts, residue, provider>>,
         Goto(r, label), label \in Fresh => pc[r] \in Fresh,
         \A s \in Requests \ {r} : req'[s] = req[s] /\ frame'[s] = frame[s],
         pc[r] = "idle" \/ req'[r] = req[r]
  PROVE  EffectInv'
<1>1. pc \in [Requests -> PCs] /\ pc' = [pc EXCEPT ![r] = label]
      /\ UNCHANGED <<calls, answer, effect>> /\ calls \subseteq Attempts
  BY DEF IInv, TypeInv, HandlersOK, HandlerTypeOK, Goto, provider, ProviderTypeOK
<1>2. label \notin {"call", "residue", "record", "status", "history"}
  BY DEF Fresh, Working
<1>3. pc[r] = "idle" => attempts[r].state = "NONE"
  BY DEF EffectInv, LocalInv, RowInv, Fresh, PCs, Working
<1>4. \A t \in Attempts : LocalInv(t)'
  BY <1>1, <1>2, <1>3 DEF EffectInv, LocalInv, RowInv, CallInv, OutcomeInv, Proven, A
<1>5. OneActor' /\ StatusHonest'
  BY <1>1, <1>2, ActorsKept DEF EffectInv, Busy, Open
<1> QED
  BY <1>4, <1>5 DEF EffectInv

\* A handler's step leaves what is said of the other attempts alone.
LEMMA OthersLocal ==
  ASSUME IInv, EffectInv, NEW r \in Requests, NEW label, Goto(r, label), req' = req,
         \A s \in Requests \ {r} :
           /\ frame'[s] = frame[s] /\ attempts'[s] = attempts[s]
           /\ answer'[s] = answer[s] /\ effect'[s] = effect[s]
           /\ s \in calls' <=> s \in calls
           /\ s \in residue => s \in residue'
  PROVE  \A s \in Requests \ {r} : LocalInv(s)'
<1>1. \A s \in Requests \ {r} : pc'[s] = pc[s]
  BY DEF IInv, TypeInv, HandlersOK, HandlerTypeOK, Goto
<1> QED
  BY <1>1 DEF EffectInv, LocalInv, RowInv, CallInv, OutcomeInv, Proven, A

\* What a handler holds after Transaction A: its own row.
LEMMA WorkingRow ==
  ASSUME IInv, EffectInv, NEW r \in Requests, pc[r] \in Working
  PROVE  /\ MayAct(r) /\ attempts[r].action = A(r) /\ A(r) \in Actions
         /\ attempts[r].state # "NONE"
         /\ status[A(r)] = "REVERSING"
         /\ \A u \in Attempts : MayAct(u) /\ attempts[u].action = A(r) => u = r
<1>1. Busy(r) /\ attempts[r].action = A(r) /\ attempts[r].state # "NONE"
  BY DEF IInv, OwnsAttempt, Busy, Open, Working
<1>2. A(r) \in Actions
  BY <1>1, BusyAction
<1>3. status[A(r)] = "REVERSING"
  BY <1>1 DEF IInv, OwnsAttempt, RunningIsReversing, Working
<1> QED
  BY <1>1, <1>2, <1>3 DEF MayAct, EffectInv, OneActor

\* The handler's readers, the history rows and an abort.
LEMMA QuietActions ==
  ASSUME IInv, EffectInv, NEW r \in Requests,
         \/ SweepSelect(r) \/ LookupKey(r) \/ Converge(r) \/ ReadAction(r)
         \/ ReadEdges(r) \/ CheckDependent(r) \/ BeginRefused(r)
         \/ PollAttempt(r) \/ ProjectAction(r) \/ Arrive(r)
         \/ SweepHistory(r) \/ RecordHistory(r) \/ Abort(r)
  PROVE  EffectInv'
<1>1. /\ UNCHANGED <<status, attempts, residue, provider>>
      /\ \A s \in Requests \ {r} : req'[s] = req[s]
      /\ pc[r] = "idle" \/ req'[r] = req[r]
  BY DEF SweepSelect, LookupKey, Converge, ReadAction, ReadEdges, CheckDependent,
         BeginRefused, PollAttempt, ProjectAction, Arrive, SweepHistory,
         RecordHistory, Abort, tables, IInv, TypeInv, HandlersOK, HandlerTypeOK
<1>2. \/ \E answered : Respond(r, answered)
      \/ \E label \in {"sweep", "expire", "read", "key", "edges", "block",
                       "begin", "converge", "poll", "project"} :
           \E locals : Step(r, label, locals)
  BY DEF SweepSelect, LookupKey, Converge, UseKeyRecord, ReadAction, ReadEdges,
         CheckDependent, BeginRefused, PollAttempt, ProjectAction, Arrive,
         SweepHistory, RecordHistory, Abort, AfterSweep
<1>3. pc[r] \in Fresh \/ \E answered : Respond(r, answered)
  BY DEF SweepSelect, LookupKey, Converge, ReadAction, ReadEdges, CheckDependent,
         BeginRefused, PollAttempt, ProjectAction, Arrive, SweepHistory,
         RecordHistory, Abort, Fresh, PCs, Working
<1>4. {"sweep", "expire", "read", "key", "edges", "block", "begin", "converge",
       "poll", "project"} \subseteq Fresh
  BY DEF Fresh, PCs, Working
<1>5. frame \in [Requests -> Frames] /\ "done" \notin Fresh
  BY DEF IInv, TypeInv, HandlersOK, HandlerTypeOK, Fresh
<1>6. CASE \E answered : Respond(r, answered)
  <2>1. /\ Goto(r, "done")
        /\ \A s \in Requests \ {r} : frame'[s] = frame[s]
    BY <1>5, <1>6 DEF Respond
  <2> QED
    BY <1>1, <1>5, <2>1, QuietStep
<1>7. CASE ~ \E answered : Respond(r, answered)
  <2>1. PICK label \in Fresh : \E locals : Step(r, label, locals)
    BY <1>2, <1>4, <1>7
  <2>2. Goto(r, label) /\ \A s \in Requests \ {r} : frame'[s] = frame[s]
    BY <1>5, <2>1 DEF Step
  <2>3. pc[r] \in Fresh
    BY <1>3, <1>7
  <2> QED
    BY <1>1, <2>2, <2>3, QuietStep
<1> QED
  BY <1>6, <1>7
-----------------------------------------------------------------------------
(* The steps between Transaction A and the answer. *)

\* The provider is called for the request's own row, once: the handler leaves
\* the label at which it calls.
LEMMA CallKeeps ==
  ASSUME IInv, EffectInv, NEW r \in Requests, CallProvider(r)
  PROVE  EffectInv'
<1>1. /\ UNCHANGED <<status, attempts, residue, req, answer, effect>>
      /\ calls' = calls \cup {r} /\ pc[r] = "call" /\ Goto(r, "wait")
      /\ frame' = [frame EXCEPT ![r] = frame[r]]
  BY DEF CallProvider, Call, Step, tables
<1>2. /\ pc \in [Requests -> PCs] /\ pc' = [pc EXCEPT ![r] = "wait"]
      /\ frame \in [Requests -> Frames] /\ pc[r] \in Working
      /\ calls \subseteq Attempts
  BY <1>1 DEF IInv, TypeInv, HandlersOK, HandlerTypeOK, Goto, Working,
     ProviderTypeOK
<1>3. \A s \in Requests \ {r} : LocalInv(s)'
  BY <1>1, <1>2, OthersLocal
<1>4. LocalInv(r)'
  <2>1. attempts[r].state = "RUNNING"
    BY <1>1 DEF IInv, OwnsAttempt
  <2> QED
    BY <1>1, <1>2, <2>1, WorkingRow
    DEF EffectInv, LocalInv, RowInv, CallInv, OutcomeInv, Fresh, Working, A
<1>5. \A t \in Attempts : MayAct(t)' => MayAct(t)
  BY <1>1, <1>2, WorkingRow DEF MayAct, Busy, Open
<1>6. OneActor'
  BY <1>1, <1>5 DEF EffectInv, OneActor
<1>7. StatusHonest'
  <2>1. \A a : Done(a)' = Done(a)
    BY <1>1 DEF Done
  <2>2. \A a : Pending(a)' => Pending(a) \/ a = A(r)
    BY <1>1, <1>2, WorkingRow DEF Pending
  <2> QED
    BY <1>1, <1>2, <2>1, <2>2, WorkingRow DEF EffectInv, StatusHonest
<1> QED
  BY <1>3, <1>4, <1>6, <1>7 DEF EffectInv

\* The outcome the handler goes on with is the provider's answer, or unknown.
LEMMA AnswerKeeps ==
  ASSUME IInv, EffectInv, NEW r \in Requests,
         ReceiveAnswer(r) \/ ProviderTimeout(r)
  PROVE  EffectInv'
<1>1. /\ UNCHANGED <<status, attempts, residue, req, provider>> /\ pc[r] = "wait"
  BY DEF ReceiveAnswer, ProviderTimeout, tables
<1>2. frame \in [Requests -> Frames] /\ pc \in [Requests -> PCs]
  BY DEF IInv, TypeInv, HandlersOK, HandlerTypeOK
<1>3. CASE \E answered : Respond(r, answered)
  <2>1. /\ Goto(r, "done") /\ "done" \notin Fresh
        /\ \A s \in Requests \ {r} : frame'[s] = frame[s]
    BY <1>2, <1>3 DEF Respond, Fresh
  <2> QED
    BY <1>1, <2>1, QuietStep
<1>4. ASSUME NEW o \in Outcomes, o = "OUTCOME_UNKNOWN" \/ answer[r] = o,
             Step(r, AfterAnswer(o), [frame[r] EXCEPT !.outcome = o])
      PROVE  EffectInv'
  <2>1. /\ pc' = [pc EXCEPT ![r] = AfterAnswer(o)]
        /\ frame' = [frame EXCEPT ![r] = [frame[r] EXCEPT !.outcome = o]]
        /\ Goto(r, AfterAnswer(o))
        /\ UNCHANGED <<calls, answer, effect>> /\ calls \subseteq Attempts
    BY <1>1, <1>4 DEF Step, Goto, provider, IInv, TypeInv, ProviderTypeOK
  <2>2. /\ frame'[r].outcome = o /\ pc'[r] = AfterAnswer(o)
        /\ \A s \in Requests \ {r} : frame'[s] = frame[s] /\ pc'[s] = pc[s]
    BY <1>2, <2>1 DEF Frames
  <2>3. \A s \in Requests \ {r} : LocalInv(s)'
    BY <1>1, <2>1, <2>2, OthersLocal
  <2>4. LocalInv(r)'
    BY <1>1, <1>4, <2>1, <2>2
    DEF EffectInv, LocalInv, RowInv, CallInv, OutcomeInv, Proven, Fresh, Working, A,
        AfterAnswer, Conclusive, ObservedResults
  <2>5. OneActor' /\ StatusHonest'
    BY <1>1, <2>1, <2>2, ActorsKept DEF EffectInv, Busy, Open, AfterAnswer
  <2> QED
    BY <2>3, <2>4, <2>5 DEF EffectInv
<1>5. CASE ProviderTimeout(r)
  BY <1>4, <1>5 DEF ProviderTimeout, AfterAnswer, Outcomes
<1> QED
  BY <1>3, <1>4, <1>5 DEF ReceiveAnswer

\* A partial reversal is not recorded before its residue is.
LEMMA ResidueKeeps ==
  ASSUME IInv, EffectInv, NEW r \in Requests, RecordResidue(r)
  PROVE  EffectInv'
<1>1. /\ UNCHANGED <<status, attempts, req, calls, answer, effect>>
      /\ residue \subseteq residue' /\ pc[r] = "residue" /\ Goto(r, "record")
      /\ frame[r].outcome = "PARTIALLY_REVERSED" => r \in residue'
      /\ calls \subseteq Attempts
  BY DEF RecordResidue, Step, provider, IInv, TypeInv, ProviderTypeOK
<1>2. /\ pc \in [Requests -> PCs] /\ pc' = [pc EXCEPT ![r] = "record"]
      /\ frame' = frame
  BY <1>1 DEF RecordResidue, Step, IInv, TypeInv, HandlersOK, HandlerTypeOK, Goto
<1>3. \A s \in Requests \ {r} : LocalInv(s)'
  BY <1>1, <1>2, OthersLocal
<1>4. LocalInv(r)'
  BY <1>1, <1>2
  DEF EffectInv, LocalInv, RowInv, CallInv, OutcomeInv, Proven, Fresh, Working, A
<1>5. OneActor' /\ StatusHonest'
  BY <1>1, <1>2, ActorsKept DEF EffectInv, Busy, Open
<1> QED
  BY <1>3, <1>4, <1>5 DEF EffectInv

\* What is stored on the attempt is what the provider answered.
LEMMA RecordKeeps ==
  ASSUME IInv, EffectInv, NEW r \in Requests, RecordAttempt(r)
  PROVE  EffectInv'
<1>1. /\ UNCHANGED <<status, residue, req, calls, answer, effect>>
      /\ pc[r] = "record" /\ Goto(r, "status") /\ calls \subseteq Attempts
      /\ attempts \in [Attempts -> AttemptRows] /\ attempts[r].state = "RUNNING"
      /\ frame[r].outcome \in Outcomes
  BY LocalsTyped DEF RecordAttempt, Step, provider, IInv, TypeInv, ProviderTypeOK,
     StoreOK, StoreTypeOK, OwnsAttempt, LocalsFit
<1>2. /\ pc \in [Requests -> PCs] /\ pc' = [pc EXCEPT ![r] = "status"]
      /\ frame' = frame
  BY <1>1 DEF RecordAttempt, Step, IInv, TypeInv, HandlersOK, HandlerTypeOK, Goto
<1> DEFINE o == frame[r].outcome
<1>3. /\ \A s \in Requests \ {r} : attempts'[s] = attempts[s]
      /\ attempts'[r].action = attempts[r].action
      /\ o \in Conclusive => /\ attempts'[r].state = "CONCLUDED"
                             /\ attempts'[r].observed = ObservedAs(o)
      /\ o \notin Conclusive => /\ attempts'[r].state = "AWAITING_RECONCILIATION"
                                /\ attempts'[r].observed = attempts[r].observed
  BY <1>1 DEF RecordAttempt, ConcludeAttempt, MarkAwaitingReconciliation, AttemptRows
<1>4. \A s \in Requests \ {r} : LocalInv(s)'
  BY <1>1, <1>2, <1>3, OthersLocal
<1>5. LocalInv(r)'
  <2>1. o \in Conclusive => ObservedAs(o) # None
    BY <1>1, OutcomeTypes, NoneAssumption
  <2>2. RowInv(r)'
    BY <1>1, <1>2, <1>3, <2>1 DEF EffectInv, LocalInv, RowInv, Fresh, Working, A
  <2>3. CallInv(r)' /\ OutcomeInv(r)'
    BY <1>1, <1>2, <1>3 DEF EffectInv, LocalInv, CallInv, OutcomeInv, Proven
  <2> QED
    BY <2>2, <2>3 DEF LocalInv
<1>6. OneActor' /\ StatusHonest'
  BY <1>1, <1>2, <1>3, ActorsKept DEF EffectInv, Busy, Open
<1> QED
  BY <1>4, <1>5, <1>6 DEF EffectInv

-----------------------------------------------------------------------------
(* The steps that move an Action's status, and the provider's own. *)

\* An APPLIED Action has been reversed by no call and no call still could.
LEMMA AppliedIsFree ==
  ASSUME EffectInv, NEW a \in Actions, status[a] = "APPLIED"
  PROVE  /\ Done(a) = {} /\ ~ Pending(a)
         /\ \A t \in Attempts : MayAct(t) => attempts[t].action # a
  BY DEF EffectInv, StatusHonest, OneActor

\* The sweep closes the window of an Action nobody has reversed.
LEMMA ExpireKeeps ==
  ASSUME IInv, EffectInv, NEW r \in Requests, SweepExpire(r)
  PROVE  EffectInv'
<1>1. /\ UNCHANGED <<attempts, residue, req, provider>> /\ pc[r] = "expire"
      /\ frame \in [Requests -> Frames] /\ status \in [Actions -> Statuses]
  BY DEF SweepExpire, IInv, TypeInv, HandlersOK, HandlerTypeOK, StoreOK, StoreTypeOK
<1>2. PICK a \in frame[r].todo :
        \/ UpdateRow(a, "APPLIED", "EXPIRED")
           /\ Step(r, "expired", [frame[r] EXCEPT !.cur = a])
        \/ Respond(r, Problem("INTERNAL")) /\ UNCHANGED status
  BY DEF SweepExpire
<1>3. a \in Actions /\ {"expire", "expired"} \subseteq Fresh /\ "done" \notin Fresh
  BY <1>1 DEF Frames, Fresh, PCs, Working
<1>4. CASE Respond(r, Problem("INTERNAL")) /\ UNCHANGED status
  <2>1. Goto(r, "done") /\ \A s \in Requests \ {r} : frame'[s] = frame[s]
    BY <1>1, <1>4 DEF Respond
  <2> QED
    BY <1>1, <1>3, <1>4, <2>1, QuietStep
<1>5. CASE UpdateRow(a, "APPLIED", "EXPIRED")
           /\ Step(r, "expired", [frame[r] EXCEPT !.cur = a])
  <2>1. /\ Goto(r, "expired") /\ \A s \in Requests \ {r} : frame'[s] = frame[s]
        /\ status[a] = "APPLIED" /\ status' = [status EXCEPT ![a] = "EXPIRED"]
        /\ UNCHANGED <<calls, answer, effect>>
        /\ pc \in [Requests -> PCs] /\ pc' = [pc EXCEPT ![r] = "expired"]
    BY <1>1, <1>5 DEF Step, UpdateRow, provider, IInv, TypeInv, HandlersOK,
       HandlerTypeOK, Goto
  <2>2. \A s \in Requests \ {r} : LocalInv(s)'
    BY <1>1, <2>1, OthersLocal
  <2>3. LocalInv(r)'
    BY <1>1, <1>3, <2>1
    DEF EffectInv, LocalInv, RowInv, CallInv, OutcomeInv, Proven, A
  <2>4. \A t \in Attempts : MayAct(t)' => MayAct(t)
    BY <1>1, <2>1 DEF MayAct, Busy, Open
  <2>5. OneActor'
    BY <1>1, <1>3, <2>1, <2>4, AppliedIsFree DEF EffectInv, OneActor
  <2>6. StatusHonest'
    <3>1. \A b : Done(b)' = Done(b) /\ Pending(b)' = Pending(b)
      BY <1>1, <2>1 DEF Done, Pending
    <3>2. \A b \in Actions \ {a} : status'[b] = status[b]
      BY <1>1, <2>1
    <3>3. status'[a] = "EXPIRED"
      BY <1>1, <1>3, <2>1
    <3> QED
      BY <1>1, <1>3, <2>1, <3>1, <3>2, <3>3, AppliedIsFree DEF EffectInv, StatusHonest
  <2> QED
    BY <2>2, <2>3, <2>5, <2>6 DEF EffectInv
<1> QED
  BY <1>2, <1>4, <1>5

\* Transaction A gives an Action that nobody acts on its one actor.
LEMMA BeginActs ==
  ASSUME IInv, EffectInv, NEW r \in Requests, Begin(r)
  PROVE  EffectInv'
<1>1. /\ UNCHANGED <<residue, req, calls, answer, effect>> /\ pc[r] = "begin"
      /\ pc \in [Requests -> PCs] /\ frame \in [Requests -> Frames]
      /\ status \in [Actions -> Statuses] /\ attempts \in [Attempts -> AttemptRows]
      /\ A(r) \in Actions /\ calls \subseteq Attempts
  BY LocalsTyped DEF Begin, IInv, TypeInv, HandlersOK, HandlerTypeOK, StoreOK,
     StoreTypeOK, ProviderTypeOK, provider, LocalsFit, A
<1>2. /\ pc' = [pc EXCEPT ![r] = "call"] /\ Goto(r, "call")
      /\ \A s \in Requests \ {r} : frame'[s] = frame[s]
      /\ status[A(r)] = "APPLIED"
      /\ status' = [status EXCEPT ![A(r)] = "REVERSING"]
      /\ \A t \in Attempts \ {r} : attempts'[t] = attempts[t]
      /\ attempts'[r].state = "RUNNING" /\ attempts'[r].action = A(r)
      /\ attempts'[r].observed = None
  BY <1>1 DEF Begin, Step, Goto, UpdateRow, CreateAttempt
<1>3. attempts[r].state = "NONE" /\ r \notin calls /\ answer[r] = None
      /\ effect[r] = "none"
  BY <1>1 DEF EffectInv, LocalInv, RowInv, CallInv, Fresh, PCs, Working
<1>4. \A s \in Requests \ {r} : LocalInv(s)'
  BY <1>1, <1>2, OthersLocal
<1>5. LocalInv(r)'
  BY <1>1, <1>2, <1>3
  DEF LocalInv, RowInv, CallInv, OutcomeInv, Proven, Fresh, Working, A
<1>6. \A t \in Attempts \ {r} :
        MayAct(t)' => MayAct(t) /\ attempts[t].action # A(r)
  BY <1>1, <1>2, AppliedIsFree DEF MayAct, Busy, Open
<1>7. OneActor'
  <2> SUFFICES ASSUME NEW t \in Attempts, MayAct(t)'
               PROVE  /\ status'[attempts'[t].action] \in
                           {"REVERSING", "OUTCOME_UNKNOWN", "REVERSED",
                            "PARTIALLY_REVERSED"}
                      /\ \A u \in Attempts :
                           MayAct(u)' /\ attempts'[u].action = attempts'[t].action
                           => u = t
    BY DEF OneActor
  <2>1. CASE t = r
    BY <1>1, <1>2, <1>6, <2>1
  <2>2. CASE t # r
    BY <1>1, <1>2, <1>6, <2>2 DEF EffectInv, OneActor
  <2> QED
    BY <2>1, <2>2
<1>8. StatusHonest'
  <2>1. \A b : Done(b)' = Done(b) /\ Pending(b)' = Pending(b)
    BY <1>1, <1>2, <1>3 DEF Done, Pending
  <2> QED
    BY <1>1, <1>2, <2>1 DEF EffectInv, StatusHonest
<1> QED
  BY <1>4, <1>5, <1>7, <1>8 DEF EffectInv

\* The status claimed is justified by the answer of the one attempt that could
\* have acted: a failure leaves nothing done and nothing pending.
LEMMA StatusKeeps ==
  ASSUME IInv, EffectInv, NEW r \in Requests, RecordStatus(r)
  PROVE  EffectInv'
<1> DEFINE o == frame[r].outcome
<1>1. /\ UNCHANGED <<attempts, residue, req, calls, answer, effect>>
      /\ pc[r] = "status" /\ pc[r] \in Working /\ o \in Outcomes
      /\ pc \in [Requests -> PCs] /\ frame \in [Requests -> Frames]
      /\ status \in [Actions -> Statuses] /\ calls \subseteq Attempts
  BY LocalsTyped DEF RecordStatus, IInv, TypeInv, HandlersOK, HandlerTypeOK,
     StoreOK, StoreTypeOK, ProviderTypeOK, provider, LocalsFit, Working
<1>2. /\ MayAct(r) /\ attempts[r].action = A(r) /\ A(r) \in Actions
      /\ status[A(r)] = "REVERSING"
      /\ \A u \in Attempts : MayAct(u) /\ attempts[u].action = A(r) => u = r
  BY <1>1, WorkingRow
<1>3. /\ pc' = [pc EXCEPT ![r] = "history"] /\ Goto(r, "history")
      /\ frame' = [frame EXCEPT ![r] = frame[r]]
      /\ status' = [status EXCEPT ![A(r)] = StatusAfter(o)]
  BY <1>1, <1>2 DEF RecordStatus, Step, Goto, UpdateRow
<1>4. frame' = frame
  BY <1>1, <1>3
<1>5. /\ o \in Conclusive => /\ answer[r] = o /\ r \notin calls
                             /\ effect[r] \in EffectsOf(o)
                             /\ attempts[r].state = "CONCLUDED"
      /\ o = "PARTIALLY_REVERSED" => r \in residue
  BY <1>1, NoneAssumption, AnswersAssumption
  DEF EffectInv, LocalInv, CallInv, OutcomeInv, Proven, IInv, OwnsAttempt, AllAnswers,
      Outcomes
<1>6. \A s \in Requests \ {r} : LocalInv(s)'
  BY <1>1, <1>3, <1>4, OthersLocal
<1>7. LocalInv(r)'
  BY <1>1, <1>3, <1>4, <1>5
  DEF EffectInv, LocalInv, RowInv, CallInv, OutcomeInv, Proven, Fresh, Working, A
<1>8. /\ o = "REVERSED" => effect[r] = "full"
      /\ o = "PARTIALLY_REVERSED" => effect[r] = "partial" /\ r \in residue
      /\ StatusAfter(o) \in {"APPLIED", "REVERSE_FAILED"}
           => effect[r] = "none" /\ r \notin calls
      /\ StatusAfter(o) = "REVERSED" => o = "REVERSED"
      /\ StatusAfter(o) = "PARTIALLY_REVERSED" => o = "PARTIALLY_REVERSED"
      /\ StatusAfter(o) \in {"APPLIED", "REVERSE_FAILED", "OUTCOME_UNKNOWN",
                             "REVERSED", "PARTIALLY_REVERSED"}
      /\ StatusAfter(o) \in {"APPLIED", "REVERSE_FAILED"} =>
           attempts[r].state = "CONCLUDED"
  BY <1>1, <1>5 DEF StatusAfter, Outcomes, Conclusive, ObservedResults, EffectsOf
<1>9. OneActor'
  <2>1. \A t \in Attempts : MayAct(t)' => MayAct(t)
    BY <1>1, <1>3 DEF MayAct, Busy, Open
  <2>2. MayAct(r)' => StatusAfter(o) \notin {"APPLIED", "REVERSE_FAILED"}
    BY <1>1, <1>3, <1>8 DEF MayAct, Busy, Open
  <2> QED
    BY <1>1, <1>2, <1>3, <1>8, <2>1, <2>2 DEF EffectInv, OneActor
<1>10. StatusHonest'
  <2>1. \A b : Done(b)' = Done(b) /\ Pending(b)' = Pending(b)
    BY <1>1 DEF Done, Pending
  <2>2. \A b \in Actions \ {A(r)} : status'[b] = status[b]
    BY <1>1, <1>3
  <2>3. Done(A(r)) \subseteq {r} /\ (Pending(A(r)) => r \in calls)
    BY <1>1, <1>2 DEF Done, Pending, MayAct
  <2>4. effect[r] = "none" => r \notin Done(A(r))
    BY DEF Done
  <2>5. effect[r] \in {"full", "partial"} => r \in Done(A(r))
    BY <1>2 DEF Done
  <2>6. status'[A(r)] = StatusAfter(o)
    BY <1>1, <1>2, <1>3
  <2> SUFFICES ASSUME NEW b \in Actions
               PROVE  /\ status'[b] = "REVERSED" => \E t \in Done(b) : effect[t] = "full"
                      /\ status'[b] = "PARTIALLY_REVERSED" =>
                           \E t \in Done(b) : effect[t] = "partial" /\ t \in residue
                      /\ status'[b] \in {"APPLIED", "REVERSE_FAILED", "EXPIRED",
                                         "IRREVERSIBLE"}
                           => Done(b) = {} /\ ~ Pending(b)
    BY <1>1, <2>1 DEF StatusHonest
  <2>7. CASE b = A(r)
    BY <1>8, <2>3, <2>4, <2>5, <2>6, <2>7
  <2>8. CASE b # A(r)
    BY <2>2, <2>8 DEF EffectInv, StatusHonest
  <2> QED
    BY <2>7, <2>8
<1> QED
  BY <1>6, <1>7, <1>9, <1>10 DEF EffectInv

\* The provider holds a call only of an Action nobody has reversed and whose
\* status is still open, whether its handler waits, timed out or crashed.
LEMMA HeldCall ==
  ASSUME IInv, EffectInv, NEW t \in Attempts, t \in calls
  PROVE  /\ effect[t] = "none" /\ answer[t] = None
         /\ attempts[t].action \in Actions /\ attempts[t].state # "CONCLUDED"
         /\ Done(attempts[t].action) = {}
         /\ status[attempts[t].action] \in {"REVERSING", "OUTCOME_UNKNOWN"}
         /\ MayAct(t)
<1> DEFINE a == attempts[t].action
<1>1. effect[t] = "none" /\ answer[t] = None /\ MayAct(t)
  BY DEF EffectInv, LocalInv, CallInv, MayAct
<1>2. a \in Actions
  BY DEF EffectInv, LocalInv, CallInv, IInv, TypeInv, StoreOK
<1>3. attempts[t].state # "CONCLUDED"
  BY <1>1, AnswersAssumption
  DEF EffectInv, LocalInv, OutcomeInv, Proven, AllAnswers, Outcomes
<1>4. Done(a) = {}
  BY <1>1 DEF EffectInv, OneActor, Done, MayAct
<1>5. status[a] \notin {"REVERSED", "PARTIALLY_REVERSED"}
  BY <1>2, <1>4 DEF EffectInv, StatusHonest
<1> QED
  BY <1>1, <1>2, <1>3, <1>4, <1>5 DEF EffectInv, OneActor

\* The provider acts, at any time: the effect is the first on its Action.
LEMMA ActKeeps ==
  ASSUME IInv, EffectInv, NEW r \in Requests, ProviderActs(r)
  PROVE  EffectInv'
<1>1. PICK ans \in Answers, e \in Effects :
        /\ r \in calls /\ calls' = calls \ {r}
        /\ answer' = [answer EXCEPT ![r] = ans]
        /\ effect' = [effect EXCEPT ![r] = e] /\ e \in EffectsOf(ans)
        /\ UNCHANGED <<status, attempts, residue, pc, req, frame>>
  BY DEF ProviderActs, ActOnCall, tables, handlers, EffectsOf, Effects
<1>2. /\ answer \in [Attempts -> Answers \cup {None}]
      /\ effect \in [Attempts -> Effects] /\ calls \subseteq Attempts
      /\ ans # None
  BY AnswersAssumption DEF IInv, TypeInv, ProviderTypeOK
<1>3. answer'[r] = ans /\ effect'[r] = e /\ r \notin calls'
      /\ \A t \in Attempts \ {r} : answer'[t] = answer[t] /\ effect'[t] = effect[t]
                                  /\ (t \in calls' <=> t \in calls)
  BY <1>1, <1>2
<1>4. \A t \in Attempts \ {r} : LocalInv(t)'
  BY <1>1, <1>3 DEF EffectInv, LocalInv, RowInv, CallInv, OutcomeInv, Proven, A
<1>5. LocalInv(r)'
  <2>1. RowInv(r)' /\ CallInv(r)'
    BY <1>1, <1>2, <1>3 DEF EffectInv, LocalInv, RowInv, CallInv, A
  <2>2. pc[r] \in {"residue", "record", "status", "history"} =>
          frame[r].outcome \notin Conclusive
    BY <1>1, HeldCall, AnswersAssumption
    DEF EffectInv, LocalInv, OutcomeInv, Proven, AllAnswers, Outcomes
  <2>3. OutcomeInv(r)'
    BY <1>1, <2>2, HeldCall DEF EffectInv, LocalInv, OutcomeInv, Proven
  <2> QED
    BY <2>1, <2>3 DEF LocalInv
<1>6. \A t \in Attempts : MayAct(t)' => MayAct(t)
  BY <1>1, <1>3, HeldCall DEF MayAct, Busy, Open
<1>7. OneActor'
  BY <1>1, <1>6 DEF EffectInv, OneActor
<1>8. StatusHonest'
  <2>1. \A b : b # attempts[r].action => Done(b)' = Done(b)
    BY <1>1, <1>3 DEF Done
  <2>2. \A b : Pending(b)' => Pending(b)
    BY <1>1 DEF Pending
  <2>3. \A b \in Actions : Done(b) = Done(b)' \/ status[b] \in {"REVERSING", "OUTCOME_UNKNOWN"}
    BY <1>1, <2>1, HeldCall
  <2>4. \A b \in Actions : \A t \in Done(b) : b # attempts[r].action => t # r
    BY DEF Done
  <2> SUFFICES ASSUME NEW b \in Actions, b # attempts[r].action
               PROVE  /\ status[b] = "REVERSED" => \E t \in Done(b) : effect'[t] = "full"
                      /\ status[b] = "PARTIALLY_REVERSED" =>
                           \E t \in Done(b) : effect'[t] = "partial" /\ t \in residue
                      /\ status[b] \in {"APPLIED", "REVERSE_FAILED", "EXPIRED",
                                        "IRREVERSIBLE"}
                           => Done(b) = {} /\ ~ Pending(b)
    BY <1>1, <2>1, <2>2, HeldCall DEF StatusHonest
  <2>5. \A t \in Done(b) : effect'[t] = effect[t]
    BY <1>3 DEF Done
  <2> QED
    BY <2>5 DEF EffectInv, StatusHonest
<1> QED
  BY <1>4, <1>5, <1>7, <1>8 DEF EffectInv

\* Recovery parks an attempt whose handler is gone: it may still have acted.
LEMMA ParkKeeps ==
  ASSUME IInv, EffectInv, NEW t \in Attempts, RecoverMark(t) \/ RecoverStatus(t)
  PROVE  EffectInv'
<1>1. /\ UNCHANGED <<residue, pc, req, frame, calls, answer, effect>>
      /\ attempts \in [Attempts -> AttemptRows] /\ calls \subseteq Attempts
      /\ boot # "up" /\ status \in [Actions -> Statuses]
  BY DEF RecoverMark, RecoverStatus, handlers, provider, IInv, TypeInv, StoreOK,
         StoreTypeOK, ProviderTypeOK
<1>2. \A s \in Requests : pc[s] \in {"idle", "done"}
  BY <1>1 DEF IInv, RecoveryInv, InFlight
<1>3. CASE RecoverMark(t)
  <2>1. /\ \A u \in Attempts :
             /\ attempts'[u].action = attempts[u].action
             /\ attempts'[u].observed = attempts[u].observed
             /\ \/ attempts'[u].state = attempts[u].state
                \/ /\ attempts[u].state = "RUNNING"
                   /\ attempts'[u].state = "AWAITING_RECONCILIATION"
        /\ status' = status
    BY <1>1, <1>3 DEF RecoverMark, MarkAwaitingReconciliation, AttemptRows
  <2>2. \A u \in Attempts : LocalInv(u)'
    <3> SUFFICES ASSUME NEW u \in Attempts PROVE LocalInv(u)'
      OBVIOUS
    <3>1. RowInv(u)'
      BY <1>1, <2>1 DEF EffectInv, LocalInv, RowInv, A
    <3>2. CallInv(u)'
      BY <1>1, <2>1 DEF EffectInv, LocalInv, CallInv
    <3>3. OutcomeInv(u)'
      BY <1>1, <1>2, <2>1 DEF EffectInv, LocalInv, OutcomeInv, Proven
    <3> QED
      BY <3>1, <3>2, <3>3 DEF LocalInv
  <2>3. OneActor' /\ StatusHonest'
    BY <1>1, <2>1, ActorsKept DEF EffectInv, Busy, Open
  <2> QED
    BY <2>2, <2>3 DEF EffectInv
<1>4. CASE RecoverStatus(t)
  <2>1. /\ attempts' = attempts
        /\ status' = status
           \/ status' = [status EXCEPT ![attempts[t].action] = "OUTCOME_UNKNOWN"]
    BY <1>4 DEF RecoverStatus, UpdateRow
  <2>2. \A a \in Actions : status'[a] = status[a] \/ status'[a] = "OUTCOME_UNKNOWN"
    BY <1>1, <2>1
  <2>3. \A u \in Attempts : LocalInv(u)'
    BY <1>1, <2>1 DEF EffectInv, LocalInv, RowInv, CallInv, OutcomeInv, Proven, A
  <2>4. \A u \in Attempts : /\ MayAct(u)' <=> MayAct(u)
                            /\ MayAct(u) => attempts[u].action \in Actions
    BY <1>1, <2>1, BusyAction
    DEF MayAct, Busy, Open, EffectInv, LocalInv, CallInv, IInv, TypeInv, StoreOK
  <2>5. OneActor'
    BY <1>1, <2>1, <2>2, <2>4 DEF EffectInv, OneActor
  <2>6. StatusHonest'
    <3>1. \A b : Done(b)' = Done(b) /\ Pending(b)' = Pending(b)
      BY <1>1, <2>1 DEF Done, Pending
    <3> QED
      BY <1>1, <2>2, <3>1 DEF EffectInv, StatusHonest
  <2> QED
    BY <2>3, <2>5, <2>6 DEF EffectInv
<1> QED
  BY <1>3, <1>4

\* A crash, and the other steps that touch no attempt and no status.
LEMMA OutsideKeeps ==
  ASSUME IInv, EffectInv,
         \/ Crash \/ RecoverScan \/ (\E t \in Attempts : RecoverHistory(t))
         \/ Tick \/ AddDependency \/ UNCHANGED vars
  PROVE  EffectInv'
<1>1. /\ UNCHANGED <<status, attempts, residue, req, calls, answer, effect>>
      /\ calls \subseteq Attempts /\ pc \in [Requests -> PCs]
  BY DEF Crash, RecoverScan, RecoverHistory, Tick, AddDependency, vars, tables,
         handlers, provider, IInv, TypeInv, ProviderTypeOK, HandlersOK, HandlerTypeOK
<1>2. \A s \in Requests : \/ pc'[s] = pc[s] /\ frame'[s] = frame[s]
                          \/ pc'[s] = "done"
                          \/ pc'[s] = pc[s] /\ pc[s] \in {"idle", "done"}
  BY <1>1 DEF Crash, InFlight, RecoverScan, RecoverHistory, Tick, AddDependency,
              vars, handlers
<1>3. \A t \in Attempts : LocalInv(t)'
  BY <1>1, <1>2 DEF EffectInv, LocalInv, RowInv, CallInv, OutcomeInv, Proven, A, Fresh
<1>4. OneActor' /\ StatusHonest'
  BY <1>1, <1>2, ActorsKept DEF EffectInv, Busy, Open
<1> QED
  BY <1>3, <1>4 DEF EffectInv

-----------------------------------------------------------------------------
(* What every step keeps of the rows and the handlers it does not own. *)

\* Rows are written by Transaction A, by the end of execute and by recovery.
LEMMA RowWriters ==
  ASSUME [Next]_vars
  PROVE  \/ attempts' = attempts /\ idem' = idem
         \/ \E r \in Requests : Begin(r)
         \/ /\ \/ \E r \in Requests : RecordAttempt(r)
               \/ \E t \in Attempts : RecoverMark(t)
            /\ idem' = idem
  BY DEF Next, Handle, Arrive, SweepSelect, SweepExpire, SweepHistory, LookupKey,
     Converge, ReadAction, ReadEdges, CheckDependent, BeginRefused, CallProvider,
     ProviderActs, ReceiveAnswer, ProviderTimeout, RecordResidue, RecordAttempt,
     RecordStatus, RecordHistory, PollAttempt, ProjectAction, Abort, Crash, Recover,
     RecoverScan, RecoverMark, RecoverStatus, RecoverHistory, Tick, AddDependency,
     AllAnswered, vars, tables

\* A row, once written, keeps its Action, its request and its result; only
\* Transaction A of its own request writes a new one.
LEMMA RowsStable ==
  ASSUME IInv, EffectInv, [Next]_vars, NEW t \in Attempts
  PROVE  /\ attempts[t].state # "NONE" =>
              /\ attempts'[t].state # "NONE"
              /\ attempts'[t].action = attempts[t].action
              /\ attempts'[t].requestedAt = attempts[t].requestedAt
              /\ attempts'[t].state = "RUNNING" => attempts[t].state = "RUNNING"
              /\ req'[t] = req[t]
              /\ attempts[t].observed # None =>
                   attempts'[t].observed = attempts[t].observed
         /\ attempts[t].state = "NONE" => attempts'[t] = attempts[t] \/ Begin(t)
<1>1. attempts \in [Attempts -> AttemptRows] /\ req \in [Requests ->
        [action : Actions \cup {None}, key : Keys \cup {None}, now : Nat]]
  BY DEF IInv, TypeInv, StoreOK, StoreTypeOK, HandlersOK, HandlerTypeOK
<1>2. attempts[t].state # "NONE" => req'[t] = req[t]
  <2>1. req' = req \/ \E r \in Requests : Arrive(r)
    BY DEF Next, Handle, SweepSelect, SweepExpire, SweepHistory, LookupKey,
     Converge, ReadAction, ReadEdges, CheckDependent, Begin, BeginRefused,
     CallProvider, ProviderActs, ReceiveAnswer, ProviderTimeout, RecordResidue,
     RecordAttempt, RecordStatus, RecordHistory, PollAttempt, ProjectAction, Abort,
     Crash, Recover, RecoverScan, RecoverMark, RecoverStatus, RecoverHistory, Tick,
     AddDependency, AllAnswered, vars, handlers
  <2>2. \A r \in Requests : Arrive(r) => attempts[r].state = "NONE"
    BY DEF Arrive, EffectInv, LocalInv, RowInv, Fresh, PCs, Working
  <2> QED
    BY <1>1, <2>1, <2>2 DEF Arrive
<1>3. CASE \E r \in Requests : Begin(r)
  <2>1. PICK r \in Requests : Begin(r)
    BY <1>3
  <2>2. attempts[r].state = "NONE"
    BY <2>1 DEF Begin, EffectInv, LocalInv, RowInv, Fresh, PCs, Working
  <2>3. \A u \in Attempts \ {r} : attempts'[u] = attempts[u]
    BY <1>1, <2>1 DEF Begin, CreateAttempt
  <2> QED
    BY <1>2, <2>1, <2>2, <2>3
<1>4. ASSUME NEW r \in Requests, RecordAttempt(r)
      PROVE  /\ \A u \in Attempts \ {r} : attempts'[u] = attempts[u]
             /\ attempts[r].state = "RUNNING" /\ attempts[r].observed = None
             /\ attempts'[r].state # "NONE"
             /\ attempts'[r].action = attempts[r].action
             /\ attempts'[r].requestedAt = attempts[r].requestedAt
  <2>1. attempts[r].state = "RUNNING" /\ attempts[r].observed = None
    BY <1>4 DEF RecordAttempt, IInv, OwnsAttempt, EffectInv, LocalInv, RowInv
  <2>2. CASE \E result : ConcludeAttempt(r, result)
    BY <1>1, <2>1, <2>2 DEF ConcludeAttempt, AttemptRows
  <2>3. CASE MarkAwaitingReconciliation(r)
    BY <1>1, <2>1, <2>3 DEF MarkAwaitingReconciliation, AttemptRows
  <2> QED
    BY <1>4, <2>2, <2>3 DEF RecordAttempt
<1>5. ASSUME NEW u \in Attempts, RecoverMark(u)
      PROVE  /\ \A v \in Attempts \ {u} : attempts'[v] = attempts[v]
             /\ attempts[u].state = "NONE" => attempts'[u] = attempts[u]
             /\ attempts[u].state # "NONE" => attempts'[u].state # "NONE"
             /\ attempts'[u].state = "RUNNING" => attempts[u].state = "RUNNING"
             /\ attempts'[u].action = attempts[u].action
             /\ attempts'[u].requestedAt = attempts[u].requestedAt
             /\ attempts'[u].observed = attempts[u].observed
  BY <1>1, <1>5 DEF RecoverMark, MarkAwaitingReconciliation, AttemptRows
<1>6. CASE attempts' = attempts
  BY <1>2, <1>6
<1>7. CASE \E r \in Requests : RecordAttempt(r)
  BY <1>2, <1>4, <1>7
<1>8. CASE \E u \in Attempts : RecoverMark(u)
  BY <1>2, <1>5, <1>8
<1> QED
  BY <1>3, <1>6, <1>7, <1>8, RowWriters

\* A step is one handler's, or leaves the handlers alone, or stops them all.
LEMMA OneHandlerMoves ==
  ASSUME HandlersOK, NEW r \in Requests, Arrive(r) \/ Handle(r) \/ Abort(r)
  PROVE  \A s \in Requests \ {r} : /\ pc'[s] = pc[s] /\ req'[s] = req[s]
                                   /\ frame'[s] = frame[s] /\ reply'[s] = reply[s]
<1>1. /\ req \in [Requests -> [action : Actions \cup {None},
                               key : Keys \cup {None}, now : Nat]]
      /\ pc \in [Requests -> PCs] /\ frame \in [Requests -> Frames]
      /\ reply \in [Requests -> Replies]
  BY DEF HandlersOK, HandlerTypeOK
<1>2. (\E answered : Respond(r, answered)) \/ \E label, locals : Step(r, label, locals)
  BY DEF Handle, Arrive, SweepSelect, SweepExpire, SweepHistory, LookupKey, Converge,
     UseKeyRecord, ReadAction, ReadEdges, CheckDependent, Begin, BeginRefused,
     CallProvider, ReceiveAnswer, ProviderTimeout, RecordResidue, RecordAttempt,
     RecordStatus, RecordHistory, PollAttempt, ProjectAction, Abort
<1>3. \A s \in Requests \ {r} : req'[s] = req[s]
  BY <1>1 DEF Handle, Arrive, SweepSelect, SweepExpire, SweepHistory, LookupKey,
     Converge, ReadAction, ReadEdges, CheckDependent, Begin, BeginRefused,
     CallProvider, ReceiveAnswer, ProviderTimeout, RecordResidue, RecordAttempt,
     RecordStatus, RecordHistory, PollAttempt, ProjectAction, Abort
<1> QED
  BY <1>1, <1>2, <1>3 DEF Respond, Step, Goto

\* The steps that are no handler's leave the handlers alone.
LEMMA OtherSteps ==
  ASSUME [Next]_vars
  PROVE  \/ UNCHANGED handlers \/ Crash
         \/ \E r \in Requests : Arrive(r) \/ Handle(r) \/ Abort(r)
  BY DEF Next, ProviderActs, Recover, RecoverScan, RecoverMark, RecoverStatus,
     RecoverHistory, Tick, AddDependency, AllAnswered, vars, handlers

-----------------------------------------------------------------------------
(* The theorems. *)

\* Before any call nothing is done, stored or claimed.
LEMMA EffectInit ==
  Init => EffectInv
<1> SUFFICES ASSUME Init PROVE EffectInv
  OBVIOUS
<1>1. /\ \A t \in Attempts : /\ attempts[t] = NoAttempt /\ t \notin calls
                             /\ answer[t] = None /\ effect[t] = "none"
                             /\ pc[t] = "idle"
      /\ calls = {} /\ status \in [Actions -> {"APPLIED", "IRREVERSIBLE"}]
  BY DEF Init, StoreInit, ProviderInit
<1>2. \A t \in Attempts : LocalInv(t)
  BY <1>1 DEF LocalInv, RowInv, CallInv, OutcomeInv, Proven, NoAttempt
<1>3. OneActor
  BY <1>1 DEF OneActor, MayAct, Busy, Open, NoAttempt
<1>4. StatusHonest
  BY <1>1 DEF StatusHonest, Done, Pending
<1> QED
  BY <1>2, <1>3, <1>4 DEF EffectInv

\* Every step of the service keeps what is said of effects and statuses.
LEMMA EffectStep ==
  IInv /\ EffectInv /\ [Next]_vars => EffectInv'
  BY QuietActions, CallKeeps, AnswerKeeps, ResidueKeeps, RecordKeeps, ExpireKeeps,
     BeginActs, StatusKeeps, ActKeeps, ParkKeeps, OutsideKeeps
  DEF Next, Handle, AllAnswered, Recover

\* The attempts, calls, answers and effects of a run always fit together.
THEOREM EffectInductive == Spec => [](IInv /\ EffectInv)
<1>1. Init => IInv
  BY TypeInit, OwnershipInit DEF IInv, Ownership
<1> QED
  BY <1>1, EffectInit, OwnershipInductive, EffectStep, PTL DEF Spec

\* The published status never contradicts the provider: a claimed outcome is
\* the true one, and a status from which a client would retry, or that says
\* the Action stands, is held only while nothing was done and no call is left.
THEOREM HonestStatus == Spec => []StatusHonest
<1>1. EffectInv => StatusHonest
  BY DEF EffectInv
<1> QED
  BY <1>1, EffectInductive, PTL

\* The provider reverses an Action at most once, over every request, retry,
\* timeout, crash and late call.
THEOREM ReversedOnce == Spec => []EffectOnce
<1>1. EffectInv => EffectOnce
  BY DEF EffectInv, OneActor, EffectOnce, Done, MayAct
<1> QED
  BY <1>1, EffectInductive, PTL

-----------------------------------------------------------------------------
(* The service implements the contract. *)

\* The true effect of an Action is that of any of its attempts with one.
TruthIs ==
  /\ TrueEffect = [a \in Actions |-> TrueEffect[a]]
  /\ \A a \in Actions : /\ Done(a) = {} => TrueEffect[a] = "none"
                        /\ \A t \in Done(a) : TrueEffect[a] = effect[t]

\* It is so because an Action has at most one such attempt.
LEMMA TrueEffectIs ==
  EffectInv => TruthIs
<1> SUFFICES ASSUME EffectInv PROVE TruthIs
  OBVIOUS
<1>1. TrueEffect = [a \in Actions |-> TrueEffect[a]]
  BY DEF TrueEffect
<1>2. ASSUME NEW a \in Actions, NEW t \in Done(a) PROVE TrueEffect[a] = effect[t]
  <2>1. \A u \in Done(a) : u = t
    BY <1>2 DEF EffectInv, OneActor, MayAct, Done
  <2>2. (CHOOSE u \in Done(a) : TRUE) \in Done(a)
    BY <1>2
  <2> QED
    BY <1>2, <2>1, <2>2 DEF TrueEffect
<1>3. ASSUME NEW a \in Actions, Done(a) = {} PROVE TrueEffect[a] = "none"
  BY <1>3 DEF TrueEffect
<1> QED
  BY <1>1, <1>2, <1>3 DEF TruthIs

\* A step that neither attaches an effect to an Action nor adds one leaves the
\* true effects alone.
LEMMA TruthKept ==
  ASSUME EffectInv, EffectInv', effect' = effect,
         \A a \in Actions : Done(a)' = Done(a)
  PROVE  TrueEffect' = TrueEffect
<1>1. TruthIs /\ TruthIs'
  BY TrueEffectIs, PTL
<1>2. \A a \in Actions : TrueEffect'[a] = TrueEffect[a]
  BY <1>1 DEF TruthIs
<1> QED
  BY <1>1, <1>2 DEF TruthIs

\* At the start no Action has been reversed.
LEMMA ContractInit ==
  Init => Contract!Init
<1> SUFFICES ASSUME Init PROVE Contract!Init
  OBVIOUS
<1>1. \A a \in Actions : Done(a) = {}
  BY DEF Init, ProviderInit, Done
<1>2. TrueEffect = [a \in Actions |-> "none"]
  BY <1>1 DEF TrueEffect
<1> QED
  BY <1>2 DEF Contract!Init, Init, StoreInit

\* A step that changes neither a status, nor an effect, nor the Action of an
\* attempt, is none of the contract's.
LEMMA SilentStep ==
  ASSUME EffectInv, EffectInv', UNCHANGED <<status, effect>>,
         \A t \in Attempts : attempts'[t].action = attempts[t].action
  PROVE  UNCHANGED Contract!vars
<1>1. \A a \in Actions : Done(a)' = Done(a)
  BY DEF Done
<1> QED
  BY <1>1, TruthKept DEF Contract!vars

\* Moving an Action out of REVERSING to a status that is honest settles it as
\* the contract allows.
LEMMA SettleStep ==
  ASSUME IInv, EffectInv, EffectInv', NEW a \in Actions, NEW to,
         status[a] = "REVERSING", status' = [status EXCEPT ![a] = to],
         to \in {"REVERSED", "PARTIALLY_REVERSED", "REVERSE_FAILED", "APPLIED",
                 "OUTCOME_UNKNOWN"},
         UNCHANGED <<attempts, effect>>
  PROVE  Contract!Settle(a)
<1>1. \A b \in Actions : Done(b)' = Done(b)
  BY DEF Done
<1>2. TrueEffect' = TrueEffect
  BY <1>1, TruthKept
<1>3. status'[a] = to
  BY DEF IInv, TypeInv, StoreOK, StoreTypeOK
<1>4. \/ to = "OUTCOME_UNKNOWN"
      \/ to = "REVERSED" /\ \E t \in Done(a) : effect[t] = "full"
      \/ to = "PARTIALLY_REVERSED" /\ \E t \in Done(a) : effect[t] = "partial"
      \/ to \in {"REVERSE_FAILED", "APPLIED"} /\ Done(a) = {}
  BY <1>1, <1>3 DEF EffectInv, StatusHonest
<1>5. \/ to = "OUTCOME_UNKNOWN"
      \/ to = "REVERSED" /\ TrueEffect[a] = "full"
      \/ to = "PARTIALLY_REVERSED" /\ TrueEffect[a] = "partial"
      \/ to \in {"REVERSE_FAILED", "APPLIED"} /\ TrueEffect[a] = "none"
  BY <1>4, TrueEffectIs DEF TruthIs
<1>6. to = "OUTCOME_UNKNOWN" \/ to \in Contract!Justifies(TrueEffect[a])
  BY <1>5 DEF Contract!Justifies
<1> QED
  BY <1>2, <1>6 DEF Contract!Settle, Contract!Move

\* The provider's act is the contract's: the first effect on an Action whose
\* reversal is in flight or unknown; an act without effect is silent.
LEMMA ActIsAct ==
  ASSUME IInv, EffectInv, EffectInv', NEW r \in Requests, ProviderActs(r)
  PROVE  [Contract!Next]_Contract!vars
<1>1. PICK e \in Effects : /\ r \in calls /\ effect' = [effect EXCEPT ![r] = e]
                           /\ UNCHANGED <<status, attempts>>
  BY DEF ProviderActs, ActOnCall, tables, EffectsOf, Effects
<1>2. PICK a \in Actions :
        /\ a = attempts[r].action /\ effect[r] = "none" /\ Done(a) = {}
        /\ status[a] \in {"REVERSING", "OUTCOME_UNKNOWN"}
  BY <1>1, HeldCall
<1>3. effect \in [Attempts -> Effects]
  BY DEF IInv, TypeInv, ProviderTypeOK
<1>4. CASE e = "none"
  <2>1. effect' = effect
    BY <1>1, <1>2, <1>3, <1>4
  <2> QED
    BY <1>1, <2>1, SilentStep
<1>5. CASE e # "none"
  <2>1. TruthIs /\ TruthIs'
    BY TrueEffectIs, PTL
  <2>2. r \in Done(a)' /\ effect'[r] = e
    BY <1>1, <1>2, <1>3, <1>5 DEF Done
  <2>3. TrueEffect'[a] = e /\ TrueEffect[a] = "none"
    BY <1>2, <2>1, <2>2 DEF TruthIs
  <2>4. ASSUME NEW b \in Actions, b # a PROVE TrueEffect'[b] = TrueEffect[b]
    <3>1. Done(b)' = Done(b) /\ \A t \in Done(b) : effect'[t] = effect[t]
      BY <1>1, <1>2, <1>3, <2>4 DEF Done
    <3> QED
      BY <2>1, <3>1 DEF TruthIs
  <2>5. TrueEffect' = [TrueEffect EXCEPT ![a] = e]
    BY <1>2, <2>1, <2>3, <2>4 DEF TruthIs
  <2>6. e \in {"full", "partial"}
    BY <1>5 DEF Effects
  <2>7. Contract!Act(a)
    BY <1>1, <1>2, <2>3, <2>5, <2>6 DEF Contract!Act
  <2> QED
    BY <1>2, <2>7 DEF Contract!Next
<1> QED
  BY <1>4, <1>5

\* Transaction A is the contract's Begin: the new row is no effect.
LEMMA BeginIsBegin ==
  ASSUME IInv, EffectInv, EffectInv', NEW r \in Requests, Begin(r)
  PROVE  [Contract!Next]_Contract!vars
<1>1. /\ A(r) \in Actions /\ pc[r] = "begin" /\ effect' = effect
      /\ attempts \in [Attempts -> AttemptRows]
  BY LocalsTyped DEF Begin, provider, IInv, TypeInv, HandlersOK, StoreOK,
     StoreTypeOK, LocalsFit, A
<1>2. /\ status[A(r)] = "APPLIED"
      /\ status' = [status EXCEPT ![A(r)] = "REVERSING"]
      /\ \A t \in Attempts \ {r} : attempts'[t] = attempts[t]
  BY <1>1 DEF Begin, UpdateRow, CreateAttempt
<1>3. effect[r] = "none"
  BY <1>1, NoneAssumption
  DEF EffectInv, LocalInv, RowInv, CallInv, Fresh, PCs, Working
<1>4. \A a \in Actions : Done(a)' = Done(a)
  BY <1>1, <1>2, <1>3 DEF Done
<1>5. TrueEffect' = TrueEffect
  BY <1>1, <1>4, TruthKept
<1> QED
  BY <1>1, <1>2, <1>5 DEF Contract!Next, Contract!Begin, Contract!Move

\* The sweep's update is the contract's Expire, where the row is APPLIED still.
LEMMA ExpireIsExpire ==
  ASSUME IInv, EffectInv, EffectInv', NEW r \in Requests, SweepExpire(r)
  PROVE  [Contract!Next]_Contract!vars
<1>1. /\ UNCHANGED <<attempts, effect>> /\ frame \in [Requests -> Frames]
  BY DEF SweepExpire, provider, IInv, TypeInv, HandlersOK, HandlerTypeOK
<1>2. PICK a \in frame[r].todo : UpdateRow(a, "APPLIED", "EXPIRED") \/ UNCHANGED status
  BY DEF SweepExpire
<1>3. a \in Actions
  BY <1>1 DEF Frames
<1>4. TrueEffect' = TrueEffect
  BY <1>1, TruthKept DEF Done
<1> QED
  BY <1>2, <1>3, <1>4
  DEF Contract!Next, Contract!Expire, Contract!Move, Contract!vars, UpdateRow

\* A handler's status transition, and recovery's, settle the Action.
LEMMA StatusIsSettle ==
  ASSUME IInv, EffectInv, EffectInv',
         \/ \E r \in Requests : RecordStatus(r)
         \/ \E t \in Attempts : RecoverStatus(t)
  PROVE  [Contract!Next]_Contract!vars
<1>1. UNCHANGED <<attempts, effect>>
  BY DEF RecordStatus, RecoverStatus, provider
<1>2. ASSUME NEW r \in Requests, RecordStatus(r)
      PROVE  status' = status \/ (Contract!Settle(A(r)) /\ A(r) \in Actions)
  <2>1. A(r) \in Actions /\ frame[r].outcome \in Outcomes
    BY <1>2, LocalsTyped DEF RecordStatus, IInv, TypeInv, LocalsFit, A
  <2>2. StatusAfter(frame[r].outcome) \in
          {"REVERSED", "PARTIALLY_REVERSED", "REVERSE_FAILED", "APPLIED",
           "OUTCOME_UNKNOWN"}
    BY <2>1 DEF StatusAfter, Outcomes, Conclusive, ObservedResults
  <2> QED
    BY <1>1, <1>2, <2>1, <2>2, SettleStep DEF RecordStatus, UpdateRow
<1>3. ASSUME NEW t \in Attempts, RecoverStatus(t)
      PROVE  status' = status \/ /\ Contract!Settle(attempts[t].action)
                                 /\ attempts[t].action \in Actions
  <2>1. attempts[t].action \in Actions
    BY <1>3 DEF RecoverStatus, IInv, RecoveryInv, TypeInv, StoreOK, Open
  <2> QED
    BY <1>1, <1>3, <2>1, SettleStep DEF RecoverStatus, UpdateRow
<1>4. status' = status \/ \E a \in Actions : Contract!Settle(a)
  BY <1>2, <1>3
<1> QED
  BY <1>1, <1>4, SilentStep DEF Contract!Next

\* Every other step leaves the contract's state alone.
LEMMA OthersSilent ==
  ASSUME IInv, EffectInv, EffectInv', [Next]_vars,
         \A r \in Requests : ~ (SweepExpire(r) \/ Begin(r) \/ RecordStatus(r)
                                \/ ProviderActs(r)),
         \A t \in Attempts : ~ RecoverStatus(t)
  PROVE  UNCHANGED Contract!vars
<1>1. UNCHANGED <<status, effect>>
  BY DEF Next, Handle, Arrive, SweepSelect, SweepHistory, LookupKey, Converge,
     ReadAction, ReadEdges, CheckDependent, BeginRefused, CallProvider, Call,
     ReceiveAnswer, ProviderTimeout, RecordResidue, RecordAttempt, RecordHistory,
     PollAttempt, ProjectAction, Abort, Crash, Recover, RecoverScan, RecoverMark,
     RecoverHistory, Tick, AddDependency, AllAnswered, vars, tables, provider
<1>2. \/ attempts' = attempts
      \/ \E r \in Requests : RecordAttempt(r)
      \/ \E t \in Attempts : RecoverMark(t)
  BY DEF Next, Handle, Arrive, SweepSelect, SweepHistory, LookupKey, Converge,
     ReadAction, ReadEdges, CheckDependent, BeginRefused, CallProvider,
     ReceiveAnswer, ProviderTimeout, RecordResidue, RecordHistory,
     PollAttempt, ProjectAction, Abort, Crash, Recover, RecoverScan,
     RecoverHistory, Tick, AddDependency, AllAnswered, vars, tables
<1>3. \/ attempts' = attempts
      \/ \E t \in Attempts, result \in ObservedResults : ConcludeAttempt(t, result)
      \/ \E t \in Attempts : MarkAwaitingReconciliation(t)
  BY <1>2, OutcomeTypes DEF RecordAttempt, RecoverMark, Outcomes
<1>4. attempts \in [Attempts -> AttemptRows]
  BY DEF IInv, TypeInv, StoreOK, StoreTypeOK
<1>5. \A t \in Attempts : attempts'[t].action = attempts[t].action
  <2>1. ASSUME NEW t \in Attempts, NEW result, ConcludeAttempt(t, result)
        PROVE  \A u \in Attempts : attempts'[u].action = attempts[u].action
    BY <1>4, <2>1 DEF ConcludeAttempt, AttemptRows
  <2>2. ASSUME NEW t \in Attempts, MarkAwaitingReconciliation(t)
        PROVE  \A u \in Attempts : attempts'[u].action = attempts[u].action
    BY <1>4, <2>2 DEF MarkAwaitingReconciliation, AttemptRows
  <2> QED
    BY <1>3, <2>1, <2>2
<1> QED
  BY <1>1, <1>5, SilentStep

\* Every step of the service is one of the contract's, or none.
LEMMA ContractStep ==
  IInv /\ EffectInv /\ EffectInv' /\ [Next]_vars => [Contract!Next]_Contract!vars
  BY ActIsAct, BeginIsBegin, ExpireIsExpire, StatusIsSettle, OthersSilent

\* The service implements its contract, over any number of Actions, requests,
\* crashes and recoveries.
THEOREM ServiceImplementsContract == Spec => ImplementsContract
<1>1. IInv /\ EffectInv /\ (IInv /\ EffectInv)' /\ [Next]_vars
        => [Contract!Next]_Contract!vars
  BY ContractStep
<1> QED
  BY <1>1, ContractInit, EffectInductive, PTL DEF Spec, ImplementsContract, Contract!Spec
=============================================================================
