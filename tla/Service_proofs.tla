--------------------------- MODULE Service_proofs ---------------------------
(***************************************************************************)
(* Theorems about keys, answers and reads: a key is bound to one attempt,  *)
(* an outcome told to a client is the recorded one, an answer that blames  *)
(* the client left nothing behind; what Transaction A relies on after it   *)
(* was read, the end of the window and the dependents, still holds; and    *)
(* what is left RUNNING is accounted for.                                  *)
(***************************************************************************)
EXTENDS Effect_proofs

USE DEF Requests

\* A key names the one attempt that a request with it has begun.
KeyInv ==
  /\ \A r \in Requests : attempts[r].state # "NONE" /\ req[r].key # None =>
       idem[req[r].key] = [action |-> A(r), attempt |-> r]
  /\ \A k \in Keys : idem[k] # None =>
       LET t == idem[k].attempt IN
         attempts[t].state # "NONE" /\ req[t].key = k /\ idem[k].action = A(t)

\* A replay reads an attempt on its own Action that is bound to its own key,
\* and what it has read of it is what stays recorded.
ReplayInv(r) ==
  LET t == frame[r].target IN
  /\ pc[r] \in {"poll", "project"} =>
       attempts[t].state # "NONE" /\ A(t) = A(r)
       /\ req[r].key # None /\ req[t].key = req[r].key
  /\ pc[r] = "project" /\ frame[r].outcome \in ObservedResults =>
       attempts[t].observed = frame[r].outcome

\* Replies come last; those that blame the client are given before any row.
Blames == {"EXPIRED", "IRREVERSIBLE", "PRECONDITION", "IN_PROGRESS",
           "KEY_CONFLICT", "DEPENDENCY"}
ReplyInv(r) ==
  /\ pc[r] # "done" => reply[r].kind = "NONE" /\ reply[r].outcome = None
  /\ reply[r].kind \in Blames => attempts[r].state = "NONE"
  /\ reply[r].outcome \in ObservedResults => reply[r].attempt \in Attempts

AnswerInv == /\ KeyInv
             /\ \A r \in Requests : ReplayInv(r) /\ ReplyInv(r)
             /\ RepliesRecorded

-----------------------------------------------------------------------------
(* Keys. *)

\* Transaction A binds a key that was free; no step unbinds it or moves it.
LEMMA KeyStep ==
  ASSUME IInv, EffectInv, KeyInv, [Next]_vars
  PROVE  KeyInv'
<1>1. /\ idem \in [Keys -> IdempotencyRows \cup {None}]
      /\ \A r \in Requests : req[r].key \in Keys \cup {None}
      /\ \A r \in Requests : attempts[r].state # "NONE" => A(r) \in Actions
  BY DEF IInv, TypeInv, StoreOK, StoreTypeOK, HandlersOK, HandlerTypeOK, EffectInv,
     LocalInv, RowInv
<1>2. CASE ~ \E r \in Requests : Begin(r)
  <2>1. idem' = idem
    BY <1>2, RowWriters
  <2>2. \A t \in Attempts :
          /\ attempts'[t].state # "NONE" <=> attempts[t].state # "NONE"
          /\ attempts[t].state # "NONE" => req'[t] = req[t]
    BY <1>2, RowsStable
  <2>3. \A k \in Keys : idem[k] # None => idem[k].attempt \in Attempts
    BY <1>1 DEF IdempotencyRows
  <2> QED
    BY <2>1, <2>2, <2>3 DEF KeyInv, A
<1>3. ASSUME NEW r \in Requests, Begin(r) PROVE KeyInv'
  <2>1. /\ req' = req /\ attempts[r].state = "NONE" /\ attempts'[r].state = "RUNNING"
        /\ \A t \in Attempts \ {r} : attempts'[t] = attempts[t]
    BY <1>3 DEF Begin, CreateAttempt, EffectInv, LocalInv, RowInv, Fresh, PCs, Working,
       IInv, TypeInv, StoreOK, StoreTypeOK
  <2> DEFINE k == req[r].key
  <2>2. CASE k = None
    <3>1. idem' = idem
      BY <1>3, <2>2 DEF Begin
    <3>2. \A j \in Keys : idem[j] # None => idem[j].attempt \in Attempts \ {r}
      BY <1>1, <2>1 DEF KeyInv, IdempotencyRows
    <3> QED
      BY <2>1, <2>2, <3>1, <3>2 DEF KeyInv, A
  <2>3. CASE k # None
    <3> DEFINE row == [action |-> A(r), attempt |-> r]
    <3>1. k \in Keys /\ idem[k] = None /\ idem' = [idem EXCEPT ![k] = row]
      BY <1>1, <1>3, <2>3 DEF Begin, CreateIdempotency
    <3>2. \A j \in Keys \ {k} : idem'[j] = idem[j]
      BY <1>1, <3>1
    <3>3. idem'[k] = row
      BY <1>1, <3>1
    <3>4. \A s \in Requests \ {r} : attempts[s].state # "NONE" => req[s].key # k
      <4> SUFFICES ASSUME NEW s \in Requests, attempts[s].state # "NONE", req[s].key = k
                   PROVE  FALSE
        OBVIOUS
      <4>1. idem[k] = [action |-> A(s), attempt |-> s]
        BY <2>3 DEF KeyInv
      <4>2. [action |-> A(s), attempt |-> s] \in IdempotencyRows
        BY <1>1 DEF IdempotencyRows
      <4> QED
        BY <3>1, <4>1, <4>2, NoneAssumption
    <3>5. \A s \in Requests : attempts'[s].state # "NONE" /\ req[s].key # None =>
            idem'[req[s].key] = [action |-> A(s), attempt |-> s]
      BY <1>1, <2>1, <3>2, <3>3, <3>4 DEF KeyInv
    <3>6. \A j \in Keys : idem'[j] # None =>
            LET t == idem'[j].attempt IN
              attempts'[t].state # "NONE" /\ req[t].key = j /\ idem'[j].action = A(t)
      <4> SUFFICES ASSUME NEW j \in Keys, idem'[j] # None
                   PROVE  /\ attempts'[idem'[j].attempt].state # "NONE"
                          /\ req[idem'[j].attempt].key = j
                          /\ idem'[j].action = A(idem'[j].attempt)
        OBVIOUS
      <4>1. CASE j = k
        BY <2>1, <3>3, <4>1
      <4>2. CASE j # k
        <5>1. idem'[j] = idem[j] /\ idem[j].attempt \in Attempts \ {r}
          BY <1>1, <2>1, <3>2, <4>2 DEF KeyInv, IdempotencyRows
        <5> QED
          BY <2>1, <5>1 DEF KeyInv
      <4> QED
        BY <4>1, <4>2
    <3> QED
      BY <2>1, <3>5, <3>6 DEF KeyInv, A
  <2> QED
    BY <2>2, <2>3
<1> QED
  BY <1>2, <1>3

-----------------------------------------------------------------------------
(* Replays. *)

\* While a replay waits or reads the Action, what it found stays as it found it.
LEMMA ReplayKept ==
  ASSUME IInv, EffectInv, [Next]_vars, NEW s \in Requests, ReplayInv(s),
         pc'[s] = pc[s], frame'[s] = frame[s], req'[s] = req[s]
  PROVE  ReplayInv(s)'
<1> SUFFICES ASSUME pc[s] \in {"poll", "project"} PROVE ReplayInv(s)'
  BY DEF ReplayInv
<1> DEFINE t == frame[s].target
<1>1. t \in Attempts
  BY LocalsTyped DEF IInv, TypeInv, LocalsFit
<1>2. /\ attempts'[t].state # "NONE" /\ req'[t] = req[t]
      /\ attempts[t].observed # None => attempts'[t].observed = attempts[t].observed
  BY <1>1, RowsStable DEF ReplayInv
<1> QED
  BY <1>2, NoneAssumption DEF ReplayInv, A

\* A handler enters a replay with the attempt its key is bound to, and reads
\* its outcome once.
LEMMA ReplayMoves ==
  ASSUME IInv, EffectInv, KeyInv, NEW r \in Requests, ReplayInv(r), [Next]_vars,
         Arrive(r) \/ Handle(r) \/ Abort(r)
  PROVE  ReplayInv(r)'
<1>1. pc \in [Requests -> PCs] /\ frame \in [Requests -> Frames]
  BY DEF IInv, TypeInv, HandlersOK, HandlerTypeOK
<1>2. CASE pc'[r] \notin {"poll", "project"}
  BY <1>2 DEF ReplayInv
<1>3. ASSUME UseKeyRecord(r), pc[r] \in {"key", "converge"},
             idem[req[r].key] # None, UNCHANGED <<req, attempts>>
      PROVE  ReplayInv(r)'
  <2> DEFINE rec == idem[req[r].key]
  <2>1. req[r].key \in Keys
    BY <1>3, LocalsTyped DEF IInv, TypeInv, LocalsFit
  <2>2. CASE rec.action # A(r)
    BY <1>1, <1>3, <2>2 DEF UseKeyRecord, Respond, Goto, ReplayInv
  <2>3. CASE rec.action = A(r)
    <3>1. /\ pc'[r] = "poll" /\ frame'[r].target = rec.attempt
      BY <1>1, <1>3, <2>3 DEF UseKeyRecord, Step, Goto, Frames
    <3>2. /\ attempts[rec.attempt].state # "NONE" /\ A(rec.attempt) = A(r)
          /\ req[rec.attempt].key = req[r].key /\ req[r].key # None
      BY <1>3, <2>1, <2>3, NoneAssumption DEF KeyInv
    <3> QED
      BY <1>3, <3>1, <3>2 DEF ReplayInv, A
  <2> QED
    BY <2>2, <2>3
<1>4. CASE LookupKey(r) \/ Converge(r)
  <2>1. UNCHANGED <<req, attempts>> /\ pc[r] \in {"key", "converge"}
    BY <1>4 DEF LookupKey, Converge, tables
  <2>2. CASE idem[req[r].key] # None
    BY <1>3, <1>4, <2>1, <2>2 DEF LookupKey, Converge
  <2>3. CASE idem[req[r].key] = None
    BY <1>1, <1>4, <2>3 DEF LookupKey, Converge, Step, Respond, Goto, ReplayInv
  <2> QED
    BY <2>2, <2>3
<1>5. CASE PollAttempt(r)
  <2>1. /\ pc'[r] = "project" /\ UNCHANGED <<req, attempts>>
        /\ frame'[r].target = frame[r].target
        /\ frame'[r].outcome = RecordedOutcome(frame[r].target)
        /\ pc[r] = "poll"
    BY <1>1, <1>5 DEF PollAttempt, Step, Goto, Frames, tables
  <2>2. frame'[r].outcome \in ObservedResults =>
          attempts[frame[r].target].observed = frame'[r].outcome
    BY <2>1 DEF RecordedOutcome, ObservedResults
  <2> QED
    BY <2>1, <2>2 DEF ReplayInv, A
<1>6. CASE ~ (LookupKey(r) \/ Converge(r) \/ PollAttempt(r))
  <2>1. pc'[r] \notin {"poll", "project"}
    BY <1>1, <1>6 DEF Arrive, Abort, Handle, SweepSelect, SweepExpire, SweepHistory,
       ReadAction, ReadEdges, CheckDependent, Begin, BeginRefused, CallProvider,
       ReceiveAnswer, ProviderTimeout, RecordResidue, RecordAttempt, RecordStatus,
       RecordHistory, ProjectAction, Step, Respond, Goto, AfterSweep, AfterAnswer
  <2> QED
    BY <1>2, <2>1
<1> QED
  BY <1>4, <1>5, <1>6

\* Every step keeps every replay true to the attempt it reads.
LEMMA ReplayStep ==
  ASSUME IInv, EffectInv, KeyInv, \A r \in Requests : ReplayInv(r), [Next]_vars
  PROVE  \A r \in Requests : ReplayInv(r)'
<1>1. HandlersOK
  BY DEF IInv, TypeInv
<1>2. CASE UNCHANGED handlers
  BY <1>2, ReplayKept DEF handlers
<1>3. CASE Crash
  <2>1. \A r \in Requests : pc'[r] \notin {"poll", "project"}
    BY <1>3 DEF Crash, InFlight
  <2> QED
    BY <2>1 DEF ReplayInv
<1>4. ASSUME NEW r \in Requests, Arrive(r) \/ Handle(r) \/ Abort(r)
      PROVE  \A s \in Requests : ReplayInv(s)'
  <2>1. ReplayInv(r)'
    BY <1>4, ReplayMoves
  <2>2. \A s \in Requests \ {r} : ReplayInv(s)'
    BY <1>1, <1>4, OneHandlerMoves, ReplayKept
  <2> QED
    BY <2>1, <2>2
<1> QED
  BY <1>2, <1>3, <1>4, OtherSteps

-----------------------------------------------------------------------------
(* Replies. *)

\* A handler's step: it goes on, answers a problem, or answers a result.
LEMMA HowItAnswers ==
  ASSUME NEW r \in Requests, Arrive(r) \/ Handle(r) \/ Abort(r)
  PROVE  /\ pc[r] # "done"
         /\ \/ \E label, locals : Step(r, label, locals)
            \/ \E kind \in ReplyKinds \ Blames : Respond(r, Problem(kind))
            \/ /\ pc[r] \in Fresh /\ attempts' = attempts
               /\ \E kind \in ReplyKinds : Respond(r, Problem(kind))
            \/ RecordHistory(r) \/ ProjectAction(r)
<1>1. pc[r] # "done"
  BY DEF Arrive, Abort, InFlight, Handle, SweepSelect, SweepExpire, SweepHistory,
     LookupKey, Converge, ReadAction, ReadEdges, CheckDependent, Begin, BeginRefused,
     CallProvider, ReceiveAnswer, ProviderTimeout, RecordResidue, RecordAttempt,
     RecordStatus, RecordHistory, PollAttempt, ProjectAction
<1>2. {"INTERNAL", "LOST"} \subseteq ReplyKinds \ Blames
      /\ {"KEY_CONFLICT", "IN_PROGRESS", "DEPENDENCY", "INTERNAL", "IRREVERSIBLE",
          "EXPIRED", "PRECONDITION"} \subseteq ReplyKinds
  BY DEF ReplyKinds, Blames
<1>3. CASE \/ Arrive(r) \/ SweepSelect(r) \/ SweepHistory(r) \/ ReadEdges(r)
           \/ Begin(r) \/ CallProvider(r) \/ ProviderTimeout(r)
           \/ RecordResidue(r) \/ RecordAttempt(r) \/ PollAttempt(r)
  BY <1>1, <1>3 DEF Arrive, SweepSelect, SweepHistory, ReadEdges, Begin,
     CallProvider, ProviderTimeout, RecordResidue, RecordAttempt, PollAttempt
<1>4. CASE Abort(r) \/ SweepExpire(r) \/ ReceiveAnswer(r) \/ RecordStatus(r)
  BY <1>1, <1>2, <1>4 DEF Abort, SweepExpire, ReceiveAnswer, RecordStatus
<1>5. CASE \/ LookupKey(r) \/ Converge(r) \/ ReadAction(r) \/ CheckDependent(r)
           \/ BeginRefused(r)
  <2>1. pc[r] \in Fresh /\ attempts' = attempts
    BY <1>5 DEF LookupKey, Converge, ReadAction, CheckDependent, BeginRefused,
       Fresh, PCs, Working, tables
  <2>2. \/ \E label, locals : Step(r, label, locals)
        \/ \E kind \in ReplyKinds : Respond(r, Problem(kind))
    BY <1>2, <1>5 DEF LookupKey, Converge, UseKeyRecord, ReadAction, Refusal,
       CheckDependent, BeginRefused
  <2> QED
    BY <1>1, <2>1, <2>2
<1> QED
  BY <1>1, <1>3, <1>4, <1>5 DEF Handle

\* Replies come last, and stay true to the rows.
LEMMA ReplyStep ==
  ASSUME IInv, EffectInv, [Next]_vars, \A r \in Requests : ReplyInv(r)
  PROVE  \A r \in Requests : ReplyInv(r)'
<1>1. /\ HandlersOK /\ pc \in [Requests -> PCs] /\ reply \in [Requests -> Replies]
  BY DEF IInv, TypeInv, HandlersOK, HandlerTypeOK
<1>2. ASSUME NEW s \in Requests, pc'[s] = pc[s], reply'[s] = reply[s]
      PROVE  ReplyInv(s)'
  <2>1. attempts[s].state = "NONE" => attempts'[s].state = "NONE"
    BY <1>1, <1>2, RowsStable DEF Begin, Step, Goto
  <2> QED
    BY <1>2, <2>1 DEF ReplyInv
<1>3. ASSUME NEW s \in Requests, pc'[s] = "done", NEW kind \in ReplyKinds,
             reply'[s] = Problem(kind), kind \in Blames => attempts'[s].state = "NONE"
      PROVE  ReplyInv(s)'
  BY <1>3, NoneAssumption DEF ReplyInv, Problem
<1>4. CASE UNCHANGED handlers
  BY <1>2, <1>4 DEF handlers
<1>5. CASE Crash
  <2>1. "LOST" \in ReplyKinds \ Blames
    BY DEF ReplyKinds, Blames
  <2> QED
    BY <1>1, <1>2, <1>3, <1>5, <2>1 DEF Crash
<1>6. ASSUME NEW r \in Requests, Arrive(r) \/ Handle(r) \/ Abort(r)
      PROVE  ReplyInv(r)'
  <2>1. reply[r].kind = "NONE" /\ reply[r].outcome = None /\ pc[r] # "done"
    BY <1>6, HowItAnswers DEF ReplyInv
  <2>2. CASE \E label, locals : Step(r, label, locals)
    BY <2>1, <2>2, NoneAssumption DEF Step, ReplyInv, Blames
  <2>3. CASE \E kind \in ReplyKinds \ Blames : Respond(r, Problem(kind))
    BY <1>1, <1>3, <2>3 DEF Respond, Goto
  <2>4. CASE /\ pc[r] \in Fresh /\ attempts' = attempts
             /\ \E kind \in ReplyKinds : Respond(r, Problem(kind))
    BY <1>1, <1>3, <2>4 DEF Respond, Goto, EffectInv, LocalInv, RowInv
  <2>5. CASE RecordHistory(r) \/ ProjectAction(r)
    <3>1. /\ pc'[r] = "done" /\ reply'[r].kind = "RESULT"
          /\ reply'[r].attempt = r \/ reply'[r].attempt = frame[r].target
      BY <1>1, <2>5 DEF RecordHistory, ProjectAction, Respond, Goto
    <3>2. reply'[r].attempt \in Attempts
      BY <1>1, <2>5, LocalsTyped
      DEF RecordHistory, ProjectAction, Respond, LocalsFit
    <3> QED
      BY <3>1, <3>2 DEF ReplyInv, Blames
  <2> QED
    BY <1>6, <2>2, <2>3, <2>4, <2>5, HowItAnswers
<1>7. ASSUME NEW r \in Requests, Arrive(r) \/ Handle(r) \/ Abort(r)
      PROVE  \A s \in Requests : ReplyInv(s)'
  BY <1>1, <1>2, <1>6, <1>7, OneHandlerMoves
<1> QED
  BY <1>4, <1>5, <1>7, OtherSteps

\* What a client has been told stays recorded.
LEMMA RecordedStep ==
  ASSUME IInv, AnswerInv, EffectInv, [Next]_vars
  PROVE  RepliesRecorded'
<1>1. /\ HandlersOK /\ pc \in [Requests -> PCs] /\ reply \in [Requests -> Replies]
  BY DEF IInv, TypeInv, HandlersOK, HandlerTypeOK
<1> DEFINE True(s) ==
      LET t == reply[s].attempt IN
        /\ attempts[t].observed = reply[s].outcome
        /\ attempts[t].action = A(s)
        /\ t = s \/ (req[s].key # None /\ req[s].key = req[t].key)
<1>2. ASSUME NEW s \in Requests, reply'[s] = reply[s], req'[s] = req[s],
             reply'[s].outcome \in ObservedResults
      PROVE  True(s)'
  <2> DEFINE t == reply[s].attempt
  <2>1. t \in Attempts /\ True(s)
    BY <1>2 DEF AnswerInv, ReplyInv, RepliesRecorded
  <2>2. attempts[t].observed # None /\ attempts[t].state # "NONE"
    BY <1>2, <2>1, NoneAssumption DEF EffectInv, LocalInv, RowInv
  <2>3. /\ attempts'[t].observed = attempts[t].observed
        /\ attempts'[t].action = attempts[t].action /\ req'[t] = req[t]
    BY <2>1, <2>2, RowsStable
  <2> QED
    BY <1>2, <2>1, <2>3 DEF A
<1>3. ASSUME NEW r \in Requests, RecordHistory(r), reply'[r].outcome \in ObservedResults
      PROVE  True(r)'
  <2> DEFINE o == frame[r].outcome
  <2>1. /\ reply'[r].attempt = r /\ UNCHANGED <<attempts, req>> /\ pc[r] = "history"
        /\ reply'[r].outcome = IF o \in Conclusive THEN ObservedAs(o) ELSE o
    BY <1>1, <1>3 DEF RecordHistory, Respond
  <2>2. o \in Conclusive
    BY <1>3, <2>1 DEF Conclusive
  <2>3. /\ attempts[r].state = "CONCLUDED" /\ attempts[r].observed = ObservedAs(o)
        /\ attempts[r].action = A(r)
    BY <2>1, <2>2 DEF EffectInv, LocalInv, RowInv, OutcomeInv
  <2> QED
    BY <2>1, <2>2, <2>3 DEF A
<1>4. ASSUME NEW r \in Requests, ProjectAction(r), reply'[r].outcome \in ObservedResults
      PROVE  True(r)'
  <2> DEFINE t == frame[r].target
  <2>1. /\ reply'[r].attempt = t /\ UNCHANGED <<attempts, req>> /\ pc[r] = "project"
        /\ reply'[r].outcome = frame[r].outcome
    BY <1>1, <1>4 DEF ProjectAction, Respond, tables
  <2>2. t \in Attempts
    BY <2>1, LocalsTyped DEF IInv, TypeInv, LocalsFit
  <2>3. /\ attempts[t].observed = frame[r].outcome /\ attempts[t].action = A(r)
        /\ req[r].key # None /\ req[t].key = req[r].key
    BY <1>4, <2>1, <2>2 DEF AnswerInv, ReplayInv, EffectInv, LocalInv, RowInv
  <2> QED
    BY <2>1, <2>3 DEF A
<1>5. ASSUME NEW s \in Requests, reply'[s].outcome \in ObservedResults,
             reply'[s] = reply[s]
      PROVE  pc[s] = "done"
  BY <1>5, NoneAssumption DEF AnswerInv, ReplyInv
<1>6. ASSUME NEW s \in Requests, NEW kind, reply'[s] = Problem(kind)
      PROVE  reply'[s].outcome \notin ObservedResults
  BY <1>6, NoneAssumption DEF Problem
<1> SUFFICES ASSUME NEW s \in Requests, reply'[s].outcome \in ObservedResults
             PROVE  True(s)'
  BY DEF RepliesRecorded
<1>7. CASE UNCHANGED handlers
  BY <1>2, <1>7 DEF handlers
<1>8. CASE Crash
  <2>1. req' = req
    BY <1>8 DEF Crash
  <2> QED
    BY <1>1, <1>2, <1>6, <1>8, <2>1 DEF Crash
<1>9. ASSUME NEW r \in Requests, Arrive(r) \/ Handle(r) \/ Abort(r), r # s
      PROVE  True(s)'
  BY <1>1, <1>2, <1>9, OneHandlerMoves
<1>10. CASE Arrive(s) \/ Handle(s) \/ Abort(s)
  <2>1. pc[s] # "done"
    BY <1>10, HowItAnswers
  <2>2. reply'[s] # reply[s]
    BY <1>5, <2>1
  <2>3. RecordHistory(s) \/ ProjectAction(s)
    BY <1>1, <1>6, <1>10, <2>2, HowItAnswers DEF Step, Respond
  <2> QED
    BY <1>3, <1>4, <2>3
<1> QED
  BY <1>7, <1>8, <1>9, <1>10, OtherSteps

-----------------------------------------------------------------------------
(* The theorems. *)

\* At the start no key is bound and nothing is answered.
LEMMA AnswerInit ==
  Init => AnswerInv
<1> SUFFICES ASSUME Init PROVE AnswerInv
  OBVIOUS
<1>1. /\ \A r \in Requests : /\ attempts[r].state = "NONE" /\ pc[r] = "idle"
                             /\ reply[r] = Problem("NONE")
      /\ \A k \in Keys : idem[k] = None
  BY DEF Init, StoreInit, NoAttempt
<1>2. KeyInv
  BY <1>1 DEF KeyInv
<1>3. \A r \in Requests : ReplayInv(r) /\ ReplyInv(r)
  BY <1>1, NoneAssumption DEF ReplayInv, ReplyInv, Problem, Blames
<1>4. RepliesRecorded
  BY <1>1, NoneAssumption DEF RepliesRecorded, Problem
<1> QED
  BY <1>2, <1>3, <1>4 DEF AnswerInv

\* Every step keeps what is said of keys, replays and replies.
LEMMA AnswerStep ==
  IInv /\ EffectInv /\ AnswerInv /\ [Next]_vars => AnswerInv'
  BY KeyStep, ReplayStep, ReplyStep, RecordedStep DEF AnswerInv

\* Keys, replays and replies always fit the rows they speak of.
THEOREM AnswerInductive == Spec => [](IInv /\ EffectInv /\ AnswerInv)
<1>1. Init => IInv
  BY TypeInit, OwnershipInit DEF IInv, Ownership
<1> QED
  BY <1>1, AnswerStep, AnswerInit, EffectInit, OwnershipInductive, EffectStep, PTL DEF Spec

\* A key bound to one attempt is carried by one attempt.
LEMMA KeysAreHonoured ==
  ASSUME AnswerInv
  PROVE  KeyBindsOneAttempt
<1> SUFFICES ASSUME KeyInv, NEW r \in Requests, NEW s \in Requests,
                    attempts[r].state # "NONE", attempts[s].state # "NONE",
                    req[r].key # None, req[r].key = req[s].key
             PROVE  r = s
  BY DEF KeyBindsOneAttempt, AnswerInv
<1>1. idem[req[r].key] = [action |-> A(r), attempt |-> r]
  BY DEF KeyInv
<1>2. idem[req[s].key] = [action |-> A(s), attempt |-> s]
  BY DEF KeyInv
<1> QED
  BY <1>1, <1>2

\* Requests that carry the same key never get an attempt each, whatever races,
\* crashes and retries come between them.
THEOREM KeyOnce == Spec => []KeyBindsOneAttempt
  BY KeysAreHonoured, AnswerInductive, PTL

\* A conclusive outcome told to a client is the durable one, for ever after.
THEOREM ToldIsRecorded == Spec => []RepliesRecorded
<1>1. AnswerInv => RepliesRecorded
  BY DEF AnswerInv
<1> QED
  BY <1>1, AnswerInductive, PTL

\* A request that is blamed has no attempt, so no key can name one of its own.
LEMMA BlamedHasNothing ==
  ASSUME AnswerInv
  PROVE  ClientErrorMeansUntouched
<1> SUFFICES ASSUME NEW r \in Requests, reply[r].kind \notin {"NONE", "LOST"},
                    StatusFor(reply[r].kind) \in 400..499
             PROVE  /\ attempts[r].state = "NONE"
                    /\ \A k \in Keys : idem[k] # None => idem[k].attempt # r
  BY DEF ClientErrorMeansUntouched
<1>1. reply[r].kind \in Blames
  BY DEF StatusFor, Blames
<1>2. attempts[r].state = "NONE"
  BY <1>1 DEF AnswerInv, ReplyInv
<1> QED
  BY <1>2 DEF AnswerInv, KeyInv

\* An answer that blames the client left no attempt and no key behind, so that
\* the request may be corrected and sent again.
THEOREM BlamedIsUntouched == Spec => []ClientErrorMeansUntouched
  BY BlamedHasNothing, AnswerInductive, PTL

-----------------------------------------------------------------------------
(* The window, the dependents, and what stays RUNNING. *)

\* An attempt on the Action ended in a failure that gave it back.
GivenBack(a) ==
  \E u \in Attempts : attempts[u].action = a
                      /\ attempts[u].observed \in {"CONFLICT", "REVERSE_FAILED"}

\* A late request finds its Action APPLIED only while its sweep has still to
\* expire it, or where a failure gave the Action back.
SweepInv(r) ==
  /\ pc[r] = "expired" => status[frame[r].cur] = "EXPIRED"
  /\ /\ pc[r] \in Fresh \ {"idle", "sweep"}
     /\ req[r].now >= ExpiresAt[A(r)] /\ status[A(r)] = "APPLIED"
     => \/ pc[r] \in {"expire", "expired"} /\ A(r) \in frame[r].todo
        \/ GivenBack(A(r))

\* The dependents a request has checked are resolved, and stay so.
BlockInv(r) ==
  /\ pc[r] = "block" => \A d \in frame[r].edges \ frame[r].todo : status[d] \in Resolved
  /\ pc[r] = "begin" => \A d \in frame[r].edges : status[d] \in Resolved

\* What a handler left RUNNING is still to be parked, or was answered in a way
\* execute does not know, while no handler was cut off.
StayInv(r) ==
  /\ pc[r] = "history" => attempts[r].state # "RUNNING"
  /\ aborts = 0 /\ pc[r] = "done" /\ attempts[r].state = "RUNNING" =>
       \/ answer[r] = "UNRECOGNIZED"
       \/ boot = "scan"
       \/ boot # "up" /\ r \in parking

WindowInv == /\ \A r \in Requests : SweepInv(r) /\ BlockInv(r) /\ StayInv(r)
             /\ LateOnlyAfterReturn

-----------------------------------------------------------------------------
(* How statuses move. *)

\* Statuses are written by the sweep, Transaction A, the end of execute and
\* recovery.
LEMMA WhoMoves ==
  ASSUME [Next]_vars
  PROVE  \/ status' = status
         \/ \E r \in Requests : SweepExpire(r) \/ Begin(r) \/ RecordStatus(r)
         \/ \E t \in Attempts : RecoverStatus(t)
  BY DEF Next, Handle, Arrive, SweepSelect, SweepHistory, LookupKey, Converge,
     ReadAction, ReadEdges, CheckDependent, BeginRefused, CallProvider, ProviderActs,
     ReceiveAnswer, ProviderTimeout, RecordResidue, RecordAttempt, RecordHistory,
     PollAttempt, ProjectAction, Abort, Crash, Recover, RecoverScan, RecoverMark,
     RecoverHistory, Tick, AddDependency, AllAnswered, vars, tables

\* A status moves out of APPLIED or REVERSING only, and back to APPLIED only
\* with the recorded failure of an attempt.
LEMMA StatusMoves ==
  ASSUME IInv, EffectInv, [Next]_vars, NEW a \in Actions
  PROVE  \/ status'[a] = status[a]
         \/ status[a] = "APPLIED" /\ status'[a] # "APPLIED"
         \/ status[a] = "REVERSING" /\ (status'[a] = "APPLIED" => GivenBack(a))
<1>1. status \in [Actions -> Statuses] /\ frame \in [Requests -> Frames]
  BY DEF IInv, TypeInv, StoreOK, StoreTypeOK, HandlersOK, HandlerTypeOK
<1>2. ASSUME NEW r \in Requests, SweepExpire(r) \/ Begin(r)
      PROVE  \/ status'[a] = status[a]
             \/ status[a] = "APPLIED" /\ status'[a] # "APPLIED"
  <2>1. \/ status' = status
        \/ \E b \in Actions \cup {None} : \E to \in {"EXPIRED", "REVERSING"} :
             UpdateRow(b, "APPLIED", to)
    BY <1>1, <1>2, LocalsTyped
    DEF SweepExpire, Begin, Frames, IInv, TypeInv, A
  <2> QED
    BY <1>1, <2>1 DEF UpdateRow
<1>3. ASSUME NEW t \in Attempts, RecoverStatus(t)
      PROVE  \/ status'[a] = status[a]
             \/ status[a] = "REVERSING" /\ status'[a] = "OUTCOME_UNKNOWN"
  BY <1>1, <1>3 DEF RecoverStatus, UpdateRow
<1>4. ASSUME NEW r \in Requests, RecordStatus(r)
      PROVE  \/ status'[a] = status[a]
             \/ status[a] = "REVERSING" /\ (status'[a] = "APPLIED" => GivenBack(a))
  <2> DEFINE o == frame[r].outcome
  <2>1. /\ pc[r] = "status" /\ o \in Outcomes
        /\ status' = status \/ UpdateRow(A(r), "REVERSING", StatusAfter(o))
    BY <1>4, LocalsTyped DEF RecordStatus, IInv, TypeInv, LocalsFit
  <2>2. o \in {"CONFLICT", "RETRYABLE"} => GivenBack(A(r))
    <3> SUFFICES ASSUME o \in {"CONFLICT", "RETRYABLE"} PROVE GivenBack(A(r))
      OBVIOUS
    <3>1. o \in Conclusive /\ ObservedAs(o) \in {"CONFLICT", "REVERSE_FAILED"}
      BY DEF Conclusive, ObservedAs, ObservedResults
    <3>2. attempts[r].action = A(r)
      BY <2>1, <3>1 DEF IInv, OwnsAttempt
    <3>3. attempts[r].observed = ObservedAs(o)
      BY <2>1, <3>1 DEF EffectInv, LocalInv, OutcomeInv
    <3> QED
      BY <3>1, <3>2, <3>3 DEF GivenBack
  <2>3. StatusAfter(o) = "APPLIED" => o \in {"CONFLICT", "RETRYABLE"}
    BY <2>1 DEF StatusAfter, Outcomes, Conclusive, ObservedResults
  <2>4. UpdateRow(A(r), "REVERSING", StatusAfter(o)) =>
          /\ status[A(r)] = "REVERSING"
          /\ a # A(r) => status'[a] = status[a]
          /\ a = A(r) => status'[a] = StatusAfter(o)
    BY <1>1 DEF UpdateRow
  <2> QED
    BY <2>1, <2>2, <2>3, <2>4
<1> QED
  BY <1>2, <1>3, <1>4, WhoMoves

\* A failure that gave the Action back stays on record.
LEMMA GivenBackStays ==
  ASSUME IInv, EffectInv, [Next]_vars, NEW a, GivenBack(a)
  PROVE  GivenBack(a)'
<1>1. PICK u \in Attempts : attempts[u].action = a
        /\ attempts[u].observed \in {"CONFLICT", "REVERSE_FAILED"}
  BY DEF GivenBack
<1>2. attempts[u].observed # None
  BY <1>1, NoneAssumption DEF ObservedResults
<1>3. attempts[u].state # "NONE"
  BY <1>2 DEF EffectInv, LocalInv, RowInv
<1> QED
  BY <1>1, <1>2, <1>3, RowsStable DEF GivenBack

-----------------------------------------------------------------------------
(* The window. *)

\* What a request found about its window holds while it does not move.
LEMMA SweepKept ==
  ASSUME IInv, EffectInv, [Next]_vars, NEW s \in Requests, SweepInv(s),
         pc'[s] = pc[s], frame'[s] = frame[s], req'[s] = req[s]
  PROVE  SweepInv(s)'
<1>1. pc[s] = "expired" => frame[s].cur \in Actions
  BY LocalsTyped DEF IInv, TypeInv, LocalsFit
<1>2. pc[s] = "expired" => status'[frame[s].cur] = "EXPIRED"
  BY <1>1, StatusMoves DEF SweepInv
<1>3. ASSUME NEW a, a = A(s), pc[s] \in Fresh \ {"idle", "sweep"},
             req[s].now >= ExpiresAt[a], status'[a] = "APPLIED"
      PROVE  \/ pc[s] \in {"expire", "expired"} /\ a \in frame[s].todo
             \/ GivenBack(a)'
  <2>1. a \in Actions
    BY <1>3, LocalsTyped DEF IInv, TypeInv, LocalsFit, Fresh, A
  <2>2. status[a] = "APPLIED" \/ GivenBack(a)
    BY <1>3, <2>1, StatusMoves
  <2>3. GivenBack(a) => GivenBack(a)'
    BY GivenBackStays
  <2>4. status[a] = "APPLIED" => \/ pc[s] \in {"expire", "expired"} /\ a \in frame[s].todo
                                \/ GivenBack(a)
    BY <1>3 DEF SweepInv
  <2> QED
    BY <2>2, <2>3, <2>4
<1>4. A(s)' = A(s)
  BY DEF A
<1> QED
  BY <1>2, <1>3, <1>4 DEF SweepInv, GivenBack

\* The sweep a request runs on arrival expires its own Action too, if it is due.
LEMMA SweepMoves ==
  ASSUME IInv, EffectInv, [Next]_vars, NEW r \in Requests, SweepInv(r),
         Arrive(r) \/ Handle(r) \/ Abort(r)
  PROVE  SweepInv(r)'
<1>1. /\ pc \in [Requests -> PCs] /\ frame \in [Requests -> Frames]
      /\ status \in [Actions -> Statuses] /\ frame[r] \in Frames
      /\ LocalsFit(pc[r], req[r], frame[r]) /\ req[r].now \in Nat
  BY LocalsTyped DEF IInv, TypeInv, HandlersOK, HandlerTypeOK, StoreOK, StoreTypeOK
<1>2. CASE SweepSelect(r)
  <2>1. /\ A(r) \in Actions /\ UNCHANGED <<status, req>> /\ pc'[r] # "expired"
        /\ frame'[r].todo = Due(req[r].now)
        /\ pc'[r] = IF Due(req[r].now) = {} THEN AfterSweep(r) ELSE "expire"
    BY <1>1, <1>2 DEF SweepSelect, LocalsFit, A, Step, Goto, tables, Frames, AfterSweep
  <2>2. req[r].now >= ExpiresAt[A(r)] /\ status[A(r)] = "APPLIED" =>
          A(r) \in Due(req[r].now)
    BY <1>1, <2>1, ExpiresAtAssumption DEF Due
  <2> QED
    BY <2>1, <2>2 DEF SweepInv, A
<1>3. CASE SweepExpire(r)
  <2>1. CASE pc'[r] = "done"
    BY <2>1 DEF SweepInv, Fresh
  <2>2. CASE pc'[r] # "done"
    <3>1. PICK b \in frame[r].todo :
            /\ UpdateRow(b, "APPLIED", "EXPIRED")
            /\ Step(r, "expired", [frame[r] EXCEPT !.cur = b])
      BY <1>1, <1>3, <2>2 DEF SweepExpire, Respond, Goto
    <3>2. /\ b \in Actions /\ A(r) \in Actions /\ req' = req /\ pc[r] = "expire"
          /\ pc'[r] = "expired" /\ frame'[r].cur = b /\ frame'[r].todo = frame[r].todo
          /\ status' = [status EXCEPT ![b] = "EXPIRED"] /\ attempts' = attempts
      BY <1>1, <1>3, <3>1 DEF SweepExpire, Step, Goto, UpdateRow, Frames, LocalsFit, A
    <3>3. status'[b] = "EXPIRED" /\ (A(r) # b => status'[A(r)] = status[A(r)])
      BY <1>1, <3>2
    <3> QED
      BY <3>2, <3>3 DEF SweepInv, GivenBack, A, Fresh, PCs, Working
  <2> QED
    BY <2>1, <2>2
<1>4. CASE SweepHistory(r)
  <2> DEFINE rest == frame[r].todo \ {frame[r].cur}
  <2>1. /\ UNCHANGED <<status, req, attempts>> /\ pc[r] = "expired"
        /\ frame'[r].todo = rest
        /\ pc'[r] = IF rest = {} THEN AfterSweep(r) ELSE "expire"
    BY <1>1, <1>4 DEF SweepHistory, Step, Goto, Frames
  <2>2. pc'[r] # "expired"
    BY <2>1 DEF AfterSweep
  <2>3. status[frame[r].cur] = "EXPIRED"
    BY <2>1 DEF SweepInv
  <2> QED
    BY <2>1, <2>2, <2>3 DEF SweepInv, GivenBack, A, Fresh, PCs, Working
<1>5. CASE \/ LookupKey(r) \/ Converge(r) \/ ReadAction(r) \/ ReadEdges(r)
           \/ CheckDependent(r) \/ BeginRefused(r) \/ PollAttempt(r)
           \/ ProjectAction(r)
  <2>1. /\ UNCHANGED <<status, req, attempts>>
        /\ pc[r] \in {"key", "converge", "read", "edges", "block", "begin", "poll",
                      "project"}
    BY <1>5 DEF LookupKey, Converge, ReadAction, ReadEdges, CheckDependent,
       BeginRefused, PollAttempt, ProjectAction, tables
  <2>2. pc'[r] \notin {"expire", "expired"}
    BY <1>1, <1>5 DEF LookupKey, Converge, UseKeyRecord, ReadAction, ReadEdges,
       CheckDependent, BeginRefused, PollAttempt, ProjectAction, Step, Respond, Goto
  <2> QED
    BY <2>1, <2>2 DEF SweepInv, GivenBack, A, Fresh, PCs, Working
<1>6. CASE ~ (\/ SweepSelect(r) \/ SweepExpire(r) \/ SweepHistory(r)
              \/ LookupKey(r) \/ Converge(r) \/ ReadAction(r) \/ ReadEdges(r)
              \/ CheckDependent(r) \/ BeginRefused(r) \/ PollAttempt(r)
              \/ ProjectAction(r))
  <2>1. pc'[r] \in {"sweep", "done", "call", "wait", "residue", "record", "status",
                    "history"}
    BY <1>1, <1>6 DEF Arrive, Abort, Handle, Begin, CallProvider, ReceiveAnswer,
       ProviderTimeout, RecordResidue, RecordAttempt, RecordStatus, RecordHistory,
       Step, Respond, Goto, AfterAnswer
  <2> QED
    BY <2>1 DEF SweepInv, Fresh, Working
<1> QED
  BY <1>2, <1>3, <1>4, <1>5, <1>6

\* Transaction A of a late request finds a failure on record.
LEMMA LateStep ==
  ASSUME IInv, EffectInv, [Next]_vars, LateOnlyAfterReturn,
         \A r \in Requests : SweepInv(r)
  PROVE  LateOnlyAfterReturn'
<1> SUFFICES ASSUME NEW t \in Attempts, attempts'[t].state # "NONE",
                    attempts'[t].requestedAt >= ExpiresAt[attempts'[t].action]
             PROVE  \E u \in Attempts \ {t} :
                      /\ attempts'[u].action = attempts'[t].action
                      /\ attempts'[u].observed \in {"CONFLICT", "REVERSE_FAILED"}
  BY DEF LateOnlyAfterReturn
<1>1. PICK a : a = attempts'[t].action
  OBVIOUS
<1>2. \E u \in Attempts \ {t} : /\ attempts[u].action = a
                                /\ attempts[u].observed \in {"CONFLICT", "REVERSE_FAILED"}
  <2>1. CASE attempts[t].state # "NONE"
    <3>1. /\ attempts'[t].action = attempts[t].action
          /\ attempts'[t].requestedAt = attempts[t].requestedAt
      BY <2>1, RowsStable
    <3> QED
      BY <1>1, <2>1, <3>1 DEF LateOnlyAfterReturn
  <2>2. CASE attempts[t].state = "NONE"
    <3>1. Begin(t)
      BY <2>2, RowsStable
    <3>2. /\ attempts'[t].action = A(t) /\ attempts'[t].requestedAt = req[t].now
          /\ status[A(t)] = "APPLIED" /\ pc[t] = "begin"
      BY <3>1 DEF Begin, CreateAttempt, UpdateRow, IInv, TypeInv, StoreOK, StoreTypeOK
    <3>3. GivenBack(a)
      BY <1>1, <3>2 DEF SweepInv, Fresh, PCs, Working
    <3>4. attempts[t].observed = None
      BY <2>2 DEF EffectInv, LocalInv, RowInv
    <3> QED
      BY <3>3, <3>4, NoneAssumption DEF GivenBack, ObservedResults
  <2> QED
    BY <2>1, <2>2
<1>3. PICK u \in Attempts \ {t} :
        /\ attempts[u].action = a
        /\ attempts[u].observed \in {"CONFLICT", "REVERSE_FAILED"}
  BY <1>2
<1>4. attempts[u].observed # None /\ attempts[u].state # "NONE"
  BY <1>3, NoneAssumption DEF ObservedResults, EffectInv, LocalInv, RowInv
<1> QED
  BY <1>1, <1>3, <1>4, RowsStable

-----------------------------------------------------------------------------
(* The dependents. *)

\* A dependent that was resolved when it was read is resolved for good.
LEMMA ResolvedStays ==
  ASSUME IInv, EffectInv, [Next]_vars, NEW d \in Actions, status[d] \in Resolved
  PROVE  status'[d] \in Resolved
  BY StatusMoves DEF Resolved

\* Every dependent that was read is checked before Transaction A.
LEMMA BlockStep ==
  ASSUME IInv, EffectInv, [Next]_vars, \A r \in Requests : BlockInv(r)
  PROVE  \A r \in Requests : BlockInv(r)'
<1>1. /\ HandlersOK /\ pc \in [Requests -> PCs] /\ frame \in [Requests -> Frames]
  BY DEF IInv, TypeInv, HandlersOK, HandlerTypeOK
<1>2. ASSUME NEW s \in Requests, pc'[s] = pc[s], frame'[s] = frame[s]
      PROVE  BlockInv(s)'
  <2>1. frame[s].edges \subseteq Actions
    BY <1>1 DEF Frames
  <2> QED
    BY <1>2, <2>1, ResolvedStays DEF BlockInv
<1>3. ASSUME NEW s \in Requests, pc'[s] \notin {"block", "begin"}
      PROVE  BlockInv(s)'
  BY <1>3 DEF BlockInv
<1>4. ASSUME NEW r \in Requests, ReadEdges(r) PROVE BlockInv(r)'
  BY <1>1, <1>4 DEF ReadEdges, Step, Goto, Frames, BlockInv
<1>5. ASSUME NEW r \in Requests, CheckDependent(r) PROVE BlockInv(r)'
  <2> SUFFICES ASSUME pc'[r] # "done" PROVE BlockInv(r)'
    BY DEF BlockInv
  <2>1. PICK d \in frame[r].todo :
          /\ status[d] \in Resolved
          /\ Step(r, IF frame[r].todo \ {d} = {} THEN "begin" ELSE "block",
                  [frame[r] EXCEPT !.todo = frame[r].todo \ {d}])
    BY <1>1, <1>5 DEF CheckDependent, Respond, Goto
  <2>2. /\ pc[r] = "block" /\ status' = status
        /\ frame'[r].edges = frame[r].edges /\ frame'[r].todo = frame[r].todo \ {d}
        /\ pc'[r] = IF frame[r].todo \ {d} = {} THEN "begin" ELSE "block"
    BY <1>1, <1>5, <2>1 DEF CheckDependent, Step, Goto, Frames, tables
  <2> QED
    BY <2>1, <2>2 DEF BlockInv
<1>6. ASSUME NEW r \in Requests, Arrive(r) \/ Handle(r) \/ Abort(r),
             ~ ReadEdges(r), ~ CheckDependent(r)
      PROVE  pc'[r] \notin {"block", "begin"}
  BY <1>1, <1>6 DEF Arrive, Abort, Handle, SweepSelect, SweepExpire, SweepHistory,
     LookupKey, Converge, UseKeyRecord, ReadAction, Begin, BeginRefused, CallProvider,
     ReceiveAnswer, ProviderTimeout, RecordResidue, RecordAttempt, RecordStatus,
     RecordHistory, PollAttempt, ProjectAction, Step, Respond, Goto, AfterAnswer,
     AfterSweep
<1>7. ASSUME NEW r \in Requests, Arrive(r) \/ Handle(r) \/ Abort(r)
      PROVE  \A s \in Requests : BlockInv(s)'
  BY <1>1, <1>2, <1>3, <1>4, <1>5, <1>6, <1>7, OneHandlerMoves
<1>8. CASE UNCHANGED handlers
  BY <1>2, <1>8 DEF handlers
<1>9. CASE Crash
  BY <1>3, <1>9 DEF Crash, InFlight
<1> QED
  BY <1>7, <1>8, <1>9, OtherSteps

-----------------------------------------------------------------------------
(* What stays RUNNING. *)

\* An answer once given is not given again, and aborts are not forgotten.
LEMMA AnswersStay ==
  ASSUME IInv, EffectInv, [Next]_vars
  PROVE  /\ \A t \in Attempts : answer[t] = "UNRECOGNIZED" => answer'[t] = answer[t]
         /\ aborts' = 0 => aborts = 0 /\ \A r \in Requests : ~ Abort(r)
<1>1. \/ answer' = answer \/ \E r \in Requests : ProviderActs(r)
  BY DEF Next, Handle, Arrive, SweepSelect, SweepExpire, SweepHistory, LookupKey,
     Converge, ReadAction, ReadEdges, CheckDependent, Begin, BeginRefused,
     CallProvider, Call, ReceiveAnswer, ProviderTimeout, RecordResidue, RecordAttempt,
     RecordStatus, RecordHistory, PollAttempt, ProjectAction, Abort, Crash, Recover,
     RecoverScan, RecoverMark, RecoverStatus, RecoverHistory, Tick, AddDependency,
     AllAnswered, vars, provider
<1>2. ASSUME NEW t \in Attempts, answer[t] = "UNRECOGNIZED" PROVE answer'[t] = answer[t]
  <2>1. t \notin calls
    BY <1>2, HeldCall, AnswersAssumption DEF AllAnswers
  <2> QED
    BY <1>1, <2>1 DEF ProviderActs, ActOnCall, IInv, TypeInv, ProviderTypeOK
<1>3. \/ aborts' = aborts
      \/ aborts' = aborts + 1
  BY DEF Next, Handle, Arrive, SweepSelect, SweepExpire, SweepHistory, LookupKey,
     Converge, ReadAction, ReadEdges, CheckDependent, Begin, BeginRefused,
     CallProvider, ProviderActs, ReceiveAnswer, ProviderTimeout, RecordResidue,
     RecordAttempt, RecordStatus, RecordHistory, PollAttempt, ProjectAction, Abort,
     Crash, Recover, RecoverScan, RecoverMark, RecoverStatus, RecoverHistory, Tick,
     AddDependency, AllAnswered, vars, server
<1>4. aborts \in Nat /\ \A r \in Requests : Abort(r) => aborts' = aborts + 1
  BY DEF IInv, TypeInv, ServerTypeOK, Abort
<1> QED
  BY <1>2, <1>3, <1>4

\* While the server is up or scanning, recovery leaves what it has to park.
LEMMA BootMoves ==
  ASSUME IInv, [Next]_vars, NEW r \in Requests, attempts'[r].state = "RUNNING",
         attempts[r].state = "RUNNING",
         boot = "scan" \/ (boot # "up" /\ r \in parking)
  PROVE  boot' = "scan" \/ (boot' # "up" /\ r \in parking')
<1>1. r \in RunningAttempts
  BY DEF RunningAttempts
<1>2. CASE RecoverScan
  BY <1>1, <1>2 DEF RecoverScan
<1>3. CASE \E t \in Attempts : RecoverHistory(t)
  <2>1. PICK t \in Attempts : RecoverHistory(t)
    BY <1>3
  <2>2. r # t /\ r \in parking
    BY <1>1, <2>1 DEF RecoverHistory
  <2> QED
    BY <2>1, <2>2 DEF RecoverHistory
<1>4. CASE \E t \in Attempts : RecoverMark(t) \/ RecoverStatus(t)
  BY <1>4 DEF RecoverMark, RecoverStatus
<1>5. CASE Crash
  BY <1>5 DEF Crash
<1>6. CASE UNCHANGED <<boot, parking>>
  BY <1>6
<1>7. ASSUME NEW x \in Requests,
             Arrive(x) \/ Handle(x) \/ ProviderActs(x) \/ Abort(x)
      PROVE  UNCHANGED <<boot, parking>>
  <2>1. CASE Abort(x)
    BY <2>1 DEF Abort
  <2>2. CASE Arrive(x) \/ ProviderActs(x)
    BY <2>2 DEF Arrive, ProviderActs, server
  <2>3. CASE Handle(x)
    BY <2>3 DEF Handle, SweepSelect, SweepExpire, SweepHistory, LookupKey, Converge,
       ReadAction, ReadEdges, CheckDependent, Begin, BeginRefused, CallProvider,
       ReceiveAnswer, ProviderTimeout, RecordResidue, RecordAttempt, RecordStatus,
       RecordHistory, PollAttempt, ProjectAction, server
  <2> QED
    BY <1>7, <2>1, <2>2, <2>3
<1>8. CASE Tick \/ AddDependency \/ AllAnswered \/ UNCHANGED vars
  <2>1. UNCHANGED <<boot, parking>>
    BY <1>8 DEF Tick, AddDependency, AllAnswered, vars, server
  <2> QED
    BY <1>6, <2>1
<1> QED
  BY <1>2, <1>3, <1>4, <1>5, <1>6, <1>7, <1>8 DEF Next, Recover

\* A handler leaves its attempt RUNNING only where execute does not know the
\* provider's answer.
LEMMA StayMoves ==
  ASSUME IInv, EffectInv, [Next]_vars, NEW r \in Requests, StayInv(r),
         Arrive(r) \/ Handle(r) \/ Abort(r)
  PROVE  StayInv(r)'
<1>1. /\ pc \in [Requests -> PCs] /\ attempts \in [Attempts -> AttemptRows]
  BY DEF IInv, TypeInv, HandlersOK, HandlerTypeOK, StoreOK, StoreTypeOK
<1>2. pc[r] \in Fresh /\ ~ Begin(r) => attempts'[r].state = "NONE"
  BY RowsStable DEF EffectInv, LocalInv, RowInv
<1>3. pc'[r] \in {"history", "done"} => ~ Begin(r)
  BY <1>1 DEF Begin, Step, Goto
<1>4. attempts'[r].state = "RUNNING" =>
        attempts[r].state = "RUNNING" \/ Begin(r)
  BY RowsStable
<1>5. pc[r] \in {"status", "history"} => attempts[r].state # "RUNNING"
  BY DEF IInv, OwnsAttempt, StayInv
<1>6. ASSUME pc'[r] \in {"history", "done"}, attempts'[r].state = "RUNNING",
             ~ Abort(r)
      PROVE  ReceiveAnswer(r) /\ answer[r] = "UNRECOGNIZED" /\ pc'[r] = "done"
  <2>1. pc[r] \notin Fresh \cup {"status", "history"}
    BY <1>2, <1>3, <1>4, <1>5, <1>6
  <2>2. CallProvider(r) \/ ReceiveAnswer(r) \/ ProviderTimeout(r)
        \/ RecordResidue(r) \/ RecordAttempt(r)
    BY <1>6, <2>1 DEF Arrive, Handle, SweepSelect, SweepExpire, SweepHistory,
       LookupKey, Converge, ReadAction, ReadEdges, CheckDependent, Begin,
       BeginRefused, RecordStatus, RecordHistory, PollAttempt, ProjectAction,
       Fresh, PCs, Working
  <2> QED
    BY <1>1, <1>6, <2>2 DEF CallProvider, ReceiveAnswer, ProviderTimeout,
       RecordResidue, RecordAttempt, Step, Respond, Goto, AfterAnswer
<1>7. Abort(r) => pc'[r] = "done"
  BY <1>1 DEF Abort, Respond, Goto
<1>8. pc'[r] = "history" => attempts'[r].state # "RUNNING"
  BY <1>6, <1>7
<1>9. aborts' = 0 => ~ Abort(r)
  BY AnswersStay
<1>10. ReceiveAnswer(r) => answer' = answer
  BY DEF ReceiveAnswer, provider
<1> QED
  BY <1>6, <1>8, <1>9, <1>10 DEF StayInv

\* Every step keeps what is left RUNNING accounted for.
LEMMA StayStep ==
  ASSUME IInv, EffectInv, [Next]_vars, \A r \in Requests : StayInv(r)
  PROVE  \A r \in Requests : StayInv(r)'
<1>1. HandlersOK /\ pc \in [Requests -> PCs]
  BY DEF IInv, TypeInv, HandlersOK, HandlerTypeOK
<1>2. ASSUME NEW s \in Requests, pc'[s] = pc[s] PROVE StayInv(s)'
  <2>1. ~ Begin(s)
    BY <1>1, <1>2 DEF Begin, Step, Goto
  <2>2. attempts'[s].state = "RUNNING" => attempts[s].state = "RUNNING"
    BY <2>1, RowsStable
  <2> QED
    BY <1>2, <2>2, AnswersStay, BootMoves DEF StayInv
<1>3. CASE UNCHANGED handlers
  BY <1>2, <1>3 DEF handlers
<1>4. CASE Crash
  <2>1. \A s \in Requests : pc'[s] # "history" /\ boot' = "scan"
    BY <1>1, <1>4 DEF Crash, InFlight
  <2> QED
    BY <2>1 DEF StayInv
<1>5. ASSUME NEW r \in Requests, Arrive(r) \/ Handle(r) \/ Abort(r)
      PROVE  \A s \in Requests : StayInv(s)'
  BY <1>1, <1>2, <1>5, OneHandlerMoves, StayMoves
<1> QED
  BY <1>3, <1>4, <1>5, OtherSteps

-----------------------------------------------------------------------------
(* The theorems. *)

\* At the start no request has swept, read or left anything.
LEMMA WindowInit ==
  Init => WindowInv
<1> SUFFICES ASSUME Init PROVE WindowInv
  OBVIOUS
<1>1. \A r \in Requests : attempts[r].state = "NONE" /\ pc[r] = "idle"
  BY DEF Init, StoreInit, NoAttempt
<1> QED
  BY <1>1 DEF WindowInv, SweepInv, BlockInv, StayInv, LateOnlyAfterReturn

\* Every step keeps what was read true, and what stays RUNNING accounted for.
LEMMA WindowStep ==
  IInv /\ EffectInv /\ WindowInv /\ [Next]_vars => WindowInv'
<1> SUFFICES ASSUME IInv, EffectInv, WindowInv, [Next]_vars PROVE WindowInv'
  OBVIOUS
<1>1. HandlersOK
  BY DEF IInv, TypeInv
<1>2. \A s \in Requests : SweepInv(s)'
  <2>1. CASE UNCHANGED handlers
    BY <2>1, SweepKept DEF handlers, WindowInv
  <2>2. CASE Crash
    <3>1. \A s \in Requests : pc'[s] \in {"idle", "done"}
      BY <2>2 DEF Crash, InFlight, IInv, TypeInv, HandlersOK, HandlerTypeOK
    <3> QED
      BY <3>1 DEF SweepInv, Fresh
  <2>3. ASSUME NEW r \in Requests, Arrive(r) \/ Handle(r) \/ Abort(r)
        PROVE  \A s \in Requests : SweepInv(s)'
    BY <1>1, <2>3, OneHandlerMoves, SweepKept, SweepMoves DEF WindowInv
  <2> QED
    BY <2>1, <2>2, <2>3, OtherSteps
<1> QED
  BY <1>2, LateStep, BlockStep, StayStep DEF WindowInv

\* What a request has read about the window and the dependents holds until its
\* Transaction A, and what stays RUNNING is accounted for.
THEOREM WindowInductive == Spec => [](IInv /\ EffectInv /\ WindowInv)
<1>1. Init => IInv
  BY TypeInit, OwnershipInit DEF IInv, Ownership
<1> QED
  BY <1>1, WindowStep, WindowInit, EffectInit, OwnershipInductive, EffectStep, PTL DEF Spec

\* A sweep cannot be outrun: an attempt requested after the window ended exists
\* only where an earlier one was refused and gave the Action back.
THEOREM NoLateAttempt == Spec => []LateOnlyAfterReturn
<1>1. WindowInv => LateOnlyAfterReturn
  BY DEF WindowInv
<1> QED
  BY <1>1, WindowInductive, PTL

\* What a request has read of its dependents holds at its Transaction A.
LEMMA BlockedWaits ==
  ASSUME WindowInv
  PROVE  \A r \in Requests : pc[r] = "begin" /\ pc'[r] = "call" =>
           \A d \in frame[r].edges : status[d] \in Resolved
  BY DEF WindowInv, BlockInv

\* No reversal begins over an active dependent that its request has read.
THEOREM BlockedNeverBegins == Spec => NoBeginWhileBlocked
  BY BlockedWaits, WindowInductive, PTL DEF NoBeginWhileBlocked

\* Who left an attempt RUNNING got an answer execute does not know, and its
\* Action stays REVERSING and out of every other request's reach.
LEMMA StayingIsUnknown ==
  ASSUME IInv, EffectInv, WindowInv
  PROVE  OnlyUnrecognizedStays
<1> SUFFICES ASSUME aborts = 0, NEW r \in Requests,
                    boot = "up", pc[r] = "done", attempts[r].state = "RUNNING"
             PROVE  /\ answer[r] = "UNRECOGNIZED"
                    /\ status[A(r)] = "REVERSING"
                    /\ \A s \in Requests \ {r} :
                         A(s) = A(r) => pc[s] \notin {"call", "wait"}
  BY DEF OnlyUnrecognizedStays
<1>1. answer[r] = "UNRECOGNIZED"
  BY DEF WindowInv, StayInv
<1>2. attempts[r].action = A(r) /\ Busy(r)
  BY DEF EffectInv, LocalInv, RowInv, Busy, Open
<1>3. status[A(r)] = "REVERSING"
  BY <1>2 DEF IInv, RunningIsReversing
<1>4. ASSUME NEW s \in Requests \ {r}, A(s) = A(r), pc[s] \in {"call", "wait"}
      PROVE  FALSE
  <2>1. attempts[s].action = A(s) /\ Busy(s)
    BY <1>4 DEF IInv, OwnsAttempt, Busy, Open
  <2> QED
    BY <1>2, <1>4, <2>1 DEF IInv, BusyInv
<1> QED
  BY <1>1, <1>3, <1>4

\* While no request is cut off, an attempt is left RUNNING only by an answer
\* that execute does not know, and then nobody else calls for its Action.
THEOREM OnlyUnknownStays == Spec => []OnlyUnrecognizedStays
  BY StayingIsUnknown, WindowInductive, PTL
=============================================================================
