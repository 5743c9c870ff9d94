--------------------------- MODULE Inquiry_proofs ---------------------------
(***************************************************************************)
(* Theorems about receipts, plans and verifications: what a document says, *)
(* put together from statements at different times, is still true of the   *)
(* Action when the client reads it; and inquiries, which write too, keep   *)
(* every guarantee of the reversal service beside them.                    *)
(***************************************************************************)
EXTENDS Inquiry, Service_proofs

\* The statements at which inquiries of each kind are found.
KindsAt(label) ==
  CASE label \in {"sweep", "expire", "expired", "residue"} -> {"receipt", "plan"}
    [] label \in {"edges", "block"} -> {"plan"}
    [] label = "provider" -> {"plan", "verification"}
    [] label = "record" -> {"verification"}
    [] OTHER -> InquiryKinds

\* The documents: what a client may read, now or later.
Complete(i) == ipc[i] = "done" /\ view[i].told = "DOCUMENT"
Late(i)     == ask[i].now >= ExpiresAt[Asked(i)]

\* What an inquiry asks and holds fits the statement it is at.
AskInv(i) ==
  /\ ipc[i] \notin {"idle", "done"} =>
       Asked(i) \in Actions /\ ask[i].kind \in KindsAt(ipc[i])
  /\ Complete(i) => Asked(i) \in Actions /\ ask[i].kind \in InquiryKinds
  /\ ipc[i] = "expired" => view[i].cur \in Actions
  /\ ipc[i] = "record" => view[i].verdict \in VerificationStatuses

\* A partial reversal that a receipt has read about is final, so its residue,
\* recorded before the status, is there when the residue is read.
ReceiptInv(i) ==
  /\ ask[i].kind = "receipt" /\ ipc[i] = "residue"
       /\ view[i].status = "PARTIALLY_REVERSED"
       => status[Asked(i)] = "PARTIALLY_REVERSED"
  /\ ask[i].kind = "receipt" /\ Complete(i) /\ view[i].status = "PARTIALLY_REVERSED"
       => "DISCOVERED" \in view[i].residue

\* Dependents that a plan has checked and found resolved are resolved for good.
PlanInv(i) ==
  ask[i].kind = "plan" =>
    /\ ipc[i] = "block" =>
         \A d \in view[i].edges \ (view[i].blocking \cup view[i].todo) :
           status[d] \in Resolved
    /\ ipc[i] \in {"residue", "provider"} \/ Complete(i) =>
         \A d \in view[i].edges \ view[i].blocking : status[d] \in Resolved

\* A late inquiry finds its Action APPLIED only while its own sweep has still
\* to expire it, or where a failure gave the Action back.
LateInv(i) ==
  /\ ipc[i] = "expired" => status[view[i].cur] = "EXPIRED"
  /\ ask[i].kind \in {"receipt", "plan"} /\ Late(i) =>
       /\ ipc[i] \in {"expire", "expired", "action"}
            /\ status[Asked(i)] = "APPLIED"
            => \/ ipc[i] # "action" /\ Asked(i) \in view[i].todo
               \/ GivenBack(Asked(i))
       /\ ipc[i] \in {"edges", "block", "residue", "provider"} \/ Complete(i) =>
            (view[i].status = "APPLIED" => GivenBack(Asked(i)))

\* A verification is positive only of an Action the provider has acted on.
VerdictInv(i) ==
  ipc[i] = "record" /\ view[i].verdict = "VERIFIED" => Done(Asked(i)) # {}

VerifiedInv ==
  \A a \in Actions : "VERIFIED" \in verifications[a] => Done(a) # {}

ReaderInv(i) ==
  AskInv(i) /\ ReceiptInv(i) /\ PlanInv(i) /\ LateInv(i) /\ VerdictInv(i)

\* What inquiries have read and recorded, at each of their statements.
ReadersInv ==
  InquiryTypeOK /\ (\A i \in Inquiries : ReaderInv(i)) /\ VerifiedInv

\* Everything the theorems about inquiries rest on; the service's own
\* invariants hold beside them.
InquiryInv == IInv /\ EffectInv /\ AnswerInv /\ WindowInv /\ ReadersInv

-----------------------------------------------------------------------------
(* What inquiries do to the service, and the service to what they have read. *)

\* The two statements of an inquiry that write, seen from the service.
Leaves == UNCHANGED <<attempts, idem, residue, handlers, provider, deps, now, server>>
Expiry ==
  /\ \E a \in Actions : UpdateRow(a, "APPLIED", "EXPIRED")
  /\ UNCHANGED history /\ Leaves
Ledger ==
  /\ \E a \in Actions : AppendHistory(a, "APPLIED", "EXPIRED")
  /\ UNCHANGED status /\ Leaves

ServedInv == IInv /\ EffectInv /\ AnswerInv /\ WindowInv

\* A step is one of the service or one of these two.
LEMMA ServiceMoves ==
  ASSUME InquiryTypeOK, \A i \in Inquiries : AskInv(i), [InquiryNext]_inquiryVars
  PROVE  [Next]_vars \/ Expiry \/ Ledger
<1>1. ASSUME NEW i \in Inquiries, InquiryExpires(i) PROVE Expiry \/ UNCHANGED vars
  <2>1. view[i].todo \subseteq Actions
    BY DEF InquiryTypeOK, Views
  <2> QED
    BY <1>1, <2>1 DEF InquiryExpires, Expiry, Leaves, Unwritten, vars, tables
<1>2. ASSUME NEW i \in Inquiries, InquiryRecordsExpiry(i) PROVE Ledger
  BY <1>2 DEF InquiryRecordsExpiry, Ledger, Leaves, Unwritten, AskInv
<1>3. ASSUME NEW i \in Inquiries, ArriveInquiry(i) \/ AbortInquiry(i) \/ InquirySweeps(i)
             \/ InquiryReadsAction(i) \/ InquiryReadsEdges(i)
             \/ InquiryChecksDependent(i) \/ InquiryReadsResidue(i)
             \/ PlanningProvider(i) \/ VerifyingProvider(i) \/ InquiryRecords(i)
      PROVE  UNCHANGED vars
  BY <1>3 DEF ArriveInquiry, AbortInquiry, InquirySweeps, InquiryReadsAction,
     InquiryReadsEdges, InquiryChecksDependent, InquiryReadsResidue,
     PlanningProvider, VerifyingProvider, InquiryRecords
<1>4. ReversalStep \/ CrashAll \/ Idle => Next
  BY DEF ReversalStep, CrashAll, Idle, Next
<1>5. UNCHANGED inquiryVars => UNCHANGED vars
  BY DEF inquiryVars
<1> QED
  BY <1>1, <1>2, <1>3, <1>4, <1>5 DEF InquiryNext, Inquire

\* The expiry of an APPLIED Action by an inquiry disturbs nobody who owns it.
LEMMA ExpiryKeepsOwners ==
  ASSUME IInv, Expiry
  PROVE  IInv'
<1>1. PICK a \in Actions : UpdateRow(a, "APPLIED", "EXPIRED")
  BY DEF Expiry
<1>2. /\ UNCHANGED <<history, attempts, idem, residue, pc, req, frame, reply>>
      /\ UNCHANGED <<calls, answer, effect, deps, now, boot, parking, crashes, aborts>>
  BY DEF Expiry, Leaves, handlers, provider, server
<1>3. status \in [Actions -> Statuses]
  BY DEF IInv, TypeInv, StoreOK, StoreTypeOK
<1>4. /\ status[a] = "APPLIED" /\ status'[a] = "EXPIRED"
      /\ \A b \in Actions \ {a} : status'[b] = status[b]
      /\ \A b : status[b] \in {"REVERSING", "OUTCOME_UNKNOWN"} => status'[b] = status[b]
  BY <1>1, <1>3 DEF UpdateRow
<1>5. TypeInv'
  <2>1. status' \in [Actions -> Statuses]
    BY <1>1, <1>3, UpdateRowType
  <2> QED
    BY <1>2, <2>1
    DEF IInv, TypeInv, StoreOK, StoreTypeOK, ProviderTypeOK, HandlersOK,
        HandlerTypeOK, LocalsFit, ServerTypeOK
<1>6. \A r \in Requests : OwnsAttempt(r)'
  BY <1>2, <1>4 DEF IInv, OwnsAttempt, A
<1>7. BusyInv'
  BY <1>2, <1>4 DEF IInv, BusyInv, Busy, Open
<1>8. RunningIsReversing'
  BY <1>2, <1>4 DEF IInv, RunningIsReversing
<1>9. RecoveryInv'
  BY <1>2 DEF IInv, RecoveryInv, InFlight, Open
<1> QED
  BY <1>5, <1>6, <1>7, <1>8, <1>9 DEF IInv

\* Nor does it hide an effect: nobody had acted on the Action or still could.
LEMMA ExpiryKeepsHonest ==
  ASSUME IInv, EffectInv, Expiry
  PROVE  EffectInv'
<1>1. PICK a \in Actions : UpdateRow(a, "APPLIED", "EXPIRED")
  BY DEF Expiry
<1>2. UNCHANGED <<attempts, residue, pc, req, frame, calls, answer, effect>>
  BY DEF Expiry, Leaves, handlers, provider
<1>3. status \in [Actions -> Statuses]
  BY DEF IInv, TypeInv, StoreOK, StoreTypeOK
<1>4. /\ status[a] = "APPLIED" /\ status'[a] = "EXPIRED"
      /\ \A b \in Actions \ {a} : status'[b] = status[b]
      /\ \A b : b # a => status'[b] = status[b]
  BY <1>1, <1>3 DEF UpdateRow
<1>5. \A t \in Attempts : LocalInv(t)'
  BY <1>2 DEF EffectInv, LocalInv, RowInv, CallInv, OutcomeInv, Proven, A
<1>6. \A t \in Attempts : MayAct(t)' = MayAct(t)
  BY <1>2 DEF MayAct, Busy, Open
<1>7. OneActor'
  BY <1>2, <1>4, <1>6, AppliedIsFree DEF EffectInv, OneActor
<1>8. \A b : Done(b)' = Done(b) /\ Pending(b)' = Pending(b)
  BY <1>2 DEF Done, Pending
<1>9. StatusHonest'
  <2> SUFFICES ASSUME NEW b \in Actions
               PROVE  /\ status'[b] = "REVERSED" => \E t \in Done(b) : effect[t] = "full"
                      /\ status'[b] = "PARTIALLY_REVERSED" =>
                           \E t \in Done(b) : effect[t] = "partial" /\ t \in residue
                      /\ status'[b] \in {"APPLIED", "REVERSE_FAILED", "EXPIRED",
                                         "IRREVERSIBLE"}
                           => Done(b) = {} /\ ~ Pending(b)
    BY <1>2, <1>8 DEF StatusHonest
  <2>1. CASE b = a
    BY <1>4, <2>1, AppliedIsFree
  <2>2. CASE b # a
    BY <1>4, <2>2 DEF EffectInv, StatusHonest
  <2> QED
    BY <2>1, <2>2
<1> QED
  BY <1>5, <1>7, <1>9 DEF EffectInv

\* Nor does it concern keys, replies or reads of other Actions' statuses.
LEMMA ExpiryKeepsReads ==
  ASSUME IInv, EffectInv, AnswerInv, WindowInv, Expiry
  PROVE  AnswerInv' /\ WindowInv'
<1>1. PICK a \in Actions : UpdateRow(a, "APPLIED", "EXPIRED")
  BY DEF Expiry
<1>2. /\ UNCHANGED <<attempts, idem, pc, req, frame, reply, answer>>
      /\ UNCHANGED <<boot, parking, aborts>>
  BY DEF Expiry, Leaves, handlers, provider, server
<1>3. /\ status \in [Actions -> Statuses] /\ frame \in [Requests -> Frames]
      /\ \A r \in Requests : LocalsFit(pc[r], req[r], frame[r])
  BY DEF IInv, TypeInv, StoreOK, StoreTypeOK, HandlersOK, HandlerTypeOK
<1>4. /\ \A b : status'[b] = "APPLIED" => status[b] = "APPLIED"
      /\ \A b : status[b] # "APPLIED" => status'[b] = status[b]
  BY <1>1, <1>3 DEF UpdateRow
<1>5. AnswerInv'
  BY <1>2 DEF AnswerInv, KeyInv, ReplayInv, ReplyInv, RepliesRecorded, A
<1>6. \A r \in Requests : SweepInv(r)'
  BY <1>2, <1>4 DEF WindowInv, SweepInv, GivenBack, A
<1>7. \A r \in Requests : BlockInv(r)'
  BY <1>2, <1>4 DEF WindowInv, BlockInv, Resolved
<1>8. (\A r \in Requests : StayInv(r)') /\ LateOnlyAfterReturn'
  BY <1>2 DEF WindowInv, StayInv, LateOnlyAfterReturn
<1> QED
  BY <1>5, <1>6, <1>7, <1>8 DEF WindowInv

\* The history is read by nobody.
LEMMA LedgerKeeps ==
  ASSUME ServedInv, Ledger
  PROVE  ServedInv'
<1>1. PICK a \in Actions : AppendHistory(a, "APPLIED", "EXPIRED")
  BY DEF Ledger
<1>2. /\ UNCHANGED <<status, attempts, idem, residue, pc, req, frame, reply>>
      /\ UNCHANGED <<calls, answer, effect, deps, now, boot, parking, crashes, aborts>>
  BY DEF Ledger, Leaves, handlers, provider, server
<1>3. TypeInv'
  <2>1. history' \in [Actions -> Seq(Statuses \X Statuses)]
    BY <1>1, AppendHistoryType
    DEF ServedInv, IInv, TypeInv, StoreOK, StoreTypeOK, Statuses
  <2> QED
    BY <1>2, <2>1
    DEF ServedInv, IInv, TypeInv, StoreOK, StoreTypeOK, ProviderTypeOK, HandlersOK,
        HandlerTypeOK, LocalsFit, ServerTypeOK
<1>4. IInv'
  BY <1>2, <1>3 DEF ServedInv, IInv, OwnsAttempt, BusyInv, Busy, Open,
     RunningIsReversing, RecoveryInv, InFlight, A
<1>5. EffectInv'
  BY <1>2 DEF ServedInv, EffectInv, LocalInv, RowInv, CallInv, OutcomeInv, Proven, A,
     OneActor, MayAct, Busy, Open, StatusHonest, Done, Pending
<1>6. AnswerInv'
  BY <1>2 DEF ServedInv, AnswerInv, KeyInv, ReplayInv, ReplyInv, RepliesRecorded, A
<1>7. WindowInv'
  BY <1>2 DEF ServedInv, WindowInv, SweepInv, GivenBack, BlockInv, StayInv,
     LateOnlyAfterReturn, A
<1> QED
  BY <1>4, <1>5, <1>6, <1>7 DEF ServedInv

\* The service's invariants hold whatever inquiries run beside it.
LEMMA ServedStep ==
  ASSUME ServedInv, [Next]_vars \/ Expiry \/ Ledger
  PROVE  ServedInv'
  BY OwnershipInductive, EffectStep, AnswerStep, WindowStep, ExpiryKeepsOwners,
     ExpiryKeepsHonest, ExpiryKeepsReads, LedgerKeeps DEF ServedInv

\* An effect stays on record with its attempt.
LEMMA DoneStays ==
  ASSUME IInv, EffectInv, [Next]_vars, NEW a, Done(a) # {}
  PROVE  Done(a)' # {}
<1>1. PICK t \in Attempts : attempts[t].action = a /\ effect[t] # "none"
  BY DEF Done
<1>2. attempts[t].state # "NONE"
  BY <1>1 DEF EffectInv, LocalInv, CallInv
<1>3. attempts'[t].action = a
  BY <1>1, <1>2, RowsStable
<1>4. t \notin calls
  BY <1>1, HeldCall
<1>5. \/ effect' = effect \/ \E r \in Requests : ProviderActs(r)
  BY DEF Next, Handle, Arrive, SweepSelect, SweepExpire, SweepHistory, LookupKey,
     Converge, ReadAction, ReadEdges, CheckDependent, Begin, BeginRefused,
     CallProvider, Call, ReceiveAnswer, ProviderTimeout, RecordResidue, RecordAttempt,
     RecordStatus, RecordHistory, PollAttempt, ProjectAction, Abort, Crash, Recover,
     RecoverScan, RecoverMark, RecoverStatus, RecoverHistory, Tick, AddDependency,
     AllAnswered, vars, provider
<1>6. effect'[t] = effect[t]
  BY <1>4, <1>5 DEF ProviderActs, ActOnCall, IInv, TypeInv, ProviderTypeOK
<1> QED
  BY <1>1, <1>3, <1>6 DEF Done

\* What an inquiry may rely on after it has read it, whoever moves: a final
\* status and a closed window stay, an Action gets APPLIED again only by a
\* recorded failure, and failures and effects stay on record.
LEMMA WhatLasts ==
  ASSUME ServedInv, [Next]_vars \/ Expiry \/ Ledger, NEW a \in Actions
  PROVE  /\ status[a] \in {"REVERSED", "PARTIALLY_REVERSED", "EXPIRED"}
              => status'[a] = status[a]
         /\ status'[a] = "APPLIED" => status[a] = "APPLIED" \/ GivenBack(a)
         /\ GivenBack(a) => GivenBack(a)'
         /\ Done(a) # {} => Done(a)' # {}
<1>1. CASE [Next]_vars
  BY <1>1, StatusMoves, GivenBackStays, DoneStays DEF ServedInv
<1>2. CASE Expiry
  <2>1. UNCHANGED <<attempts, effect>>
    BY <1>2 DEF Expiry, Leaves, provider
  <2>2. (GivenBack(a) <=> GivenBack(a)') /\ Done(a)' = Done(a)
    BY <2>1 DEF GivenBack, Done
  <2>3. status' = status \/ \E b \in Actions : /\ status[b] = "APPLIED"
                                               /\ status' = [status EXCEPT ![b] = "EXPIRED"]
    BY <1>2 DEF Expiry, UpdateRow
  <2>4. status \in [Actions -> Statuses]
    BY DEF ServedInv, IInv, TypeInv, StoreOK, StoreTypeOK
  <2> QED
    BY <2>2, <2>3, <2>4
<1>3. CASE Ledger
  <2>1. UNCHANGED <<attempts, effect, status>>
    BY <1>3 DEF Ledger, Leaves, provider
  <2> QED
    BY <2>1 DEF GivenBack, Done
<1> QED
  BY <1>1, <1>2, <1>3

-----------------------------------------------------------------------------
(* Inquiries that do not move, and those that end without a document. *)

\* What an inquiry has read stays as true as it was while it does not move.
LEMMA ReaderKept ==
  ASSUME InquiryTypeOK, ServedInv, [Next]_vars \/ Expiry \/ Ledger,
         NEW i \in Inquiries, ReaderInv(i),
         ipc'[i] = ipc[i], ask'[i] = ask[i], view'[i] = view[i]
  PROVE  ReaderInv(i)'
<1>1. PICK a : a = Asked(i)
  OBVIOUS
<1>2. Asked(i)' = a
  BY <1>1 DEF Asked
<1>3. ipc[i] \notin {"idle", "done"} \/ Complete(i) => a \in Actions
  BY <1>1 DEF ReaderInv, AskInv
<1>4. /\ view[i].edges \subseteq Actions
      /\ ipc[i] = "expired" => view[i].cur \in Actions
  BY DEF InquiryTypeOK, Views, ReaderInv, AskInv
<1>5. AskInv(i)'
  BY <1>1, <1>2 DEF ReaderInv, AskInv, Complete
<1>6. ReceiptInv(i)'
  <2>1. ipc[i] = "residue" /\ status[a] = "PARTIALLY_REVERSED" =>
          status'[a] = "PARTIALLY_REVERSED"
    BY <1>3, WhatLasts
  <2> QED
    BY <1>1, <1>2, <2>1 DEF ReaderInv, ReceiptInv, Complete
<1>7. PlanInv(i)'
  <2>1. \A d \in view[i].edges : status[d] \in Resolved => status'[d] \in Resolved
    BY <1>4, WhatLasts DEF Resolved
  <2> QED
    BY <2>1 DEF ReaderInv, PlanInv, Complete
<1>8. LateInv(i)'
  <2>1. ipc[i] = "expired" => status'[view[i].cur] = "EXPIRED"
    BY <1>4, WhatLasts DEF ReaderInv, LateInv
  <2>2. ipc[i] \notin {"idle", "done"} \/ Complete(i) =>
          /\ status'[a] = "APPLIED" => status[a] = "APPLIED" \/ GivenBack(a)
          /\ GivenBack(a) => GivenBack(a)'
    BY <1>3, WhatLasts
  <2>3. Late(i)' <=> Late(i)
    BY <1>1, <1>2 DEF Late
  <2> QED
    BY <1>1, <1>2, <2>1, <2>2, <2>3 DEF ReaderInv, LateInv, Complete, GivenBack
<1>9. VerdictInv(i)'
  <2>1. ipc[i] = "record" /\ Done(a) # {} => Done(a)' # {}
    BY <1>3, WhatLasts
  <2> QED
    BY <1>1, <1>2, <2>1 DEF ReaderInv, VerdictInv, Done
<1> QED
  BY <1>5, <1>6, <1>7, <1>8, <1>9 DEF ReaderInv

\* Nothing is claimed to a client that gets no document.
LEMMA ReaderEnds ==
  ASSUME NEW i \in Inquiries, ipc'[i] = "done", view'[i].told # "DOCUMENT"
  PROVE  ReaderInv(i)'
  BY DEF ReaderInv, AskInv, ReceiptInv, PlanInv, LateInv, VerdictInv, Complete

\* Recorded verifications stay backed by an effect.
LEMMA VerifiedKept ==
  ASSUME ServedInv, [Next]_vars \/ Expiry \/ Ledger, VerifiedInv,
         verifications' = verifications
  PROVE  VerifiedInv'
<1> SUFFICES ASSUME NEW a \in Actions, "VERIFIED" \in verifications[a]
             PROVE  Done(a)' # {}
  BY DEF VerifiedInv
<1> QED
  BY WhatLasts DEF VerifiedInv

-----------------------------------------------------------------------------
(* One statement of an inquiry. *)

\* The statement that follows another in a handler of the kind.
Following(kind, label) ==
  CASE label = "sweep"    -> "action"
    [] label = "action"   -> CASE kind = "receipt" -> "residue"
                               [] kind = "plan" -> "edges"
                               [] OTHER -> "provider"
    [] label = "edges"    -> "residue"
    [] label = "residue"  -> IF kind = "plan" THEN "provider" ELSE "done"
    [] label = "provider" -> IF kind = "plan" THEN "done" ELSE "record"
    [] OTHER              -> "done"

Ordered == {"sweep", "action", "edges", "residue", "provider", "record"}

\* Proceed goes to the statement that follows, and completes the document
\* after the last one.
LEMMA Proceeds ==
  ASSUME NEW i \in Inquiries, NEW label \in Ordered, NEW seen,
         NEW kind, kind = ask[i].kind, kind \in KindsAt(label), Proceed(i, label, seen)
  PROVE  LET next == Following(kind, label) IN
         Go(i, next, IF next = "done" THEN [seen EXCEPT !.told = "DOCUMENT"] ELSE seen)
<1>1. CASE kind = "receipt"
  <2>1. Statements(kind) = <<"sweep", "action", "residue">>
    BY <1>1 DEF Statements
  <2>2. label \in {"sweep", "action", "residue"}
    BY <1>1 DEF KindsAt, Ordered
  <2> DEFINE s == <<"sweep", "action", "residue">>
             n == CASE label = "sweep" -> 1 [] label = "action" -> 2 [] OTHER -> 3
  <2>3. \A m \in DOMAIN s : s[m] = label <=> m = n
    BY <2>2
  <2>4. (CHOOSE m \in DOMAIN s : s[m] = label) = n
    BY <2>2, <2>3
  <2>5. n = 3 <=> Following(kind, label) = "done"
    BY <1>1, <2>2 DEF Following
  <2>6. n # 3 => s[n + 1] = Following(kind, label)
    BY <1>1, <2>2 DEF Following
  <2>7. Len(s) = 3
    OBVIOUS
  <2>8. IF n = Len(s) THEN Go(i, "done", [seen EXCEPT !.told = "DOCUMENT"])
        ELSE Go(i, s[n + 1], seen)
    BY <2>1, <2>4 DEF Proceed
  <2> QED
    BY <2>5, <2>6, <2>7, <2>8
<1>2. CASE kind = "plan"
  <2>1. Statements(kind) = <<"sweep", "action", "edges", "residue", "provider">>
    BY <1>2 DEF Statements
  <2>2. label \in {"sweep", "action", "edges", "residue", "provider"}
    BY <1>2 DEF KindsAt, Ordered
  <2> DEFINE s == <<"sweep", "action", "edges", "residue", "provider">>
             n == CASE label = "sweep" -> 1 [] label = "action" -> 2
                    [] label = "edges" -> 3 [] label = "residue" -> 4 [] OTHER -> 5
  <2>3. \A m \in DOMAIN s : s[m] = label <=> m = n
    BY <2>2
  <2>4. (CHOOSE m \in DOMAIN s : s[m] = label) = n
    BY <2>2, <2>3
  <2>5. n = 5 <=> Following(kind, label) = "done"
    BY <1>2, <2>2 DEF Following
  <2>6. n # 5 => s[n + 1] = Following(kind, label)
    BY <1>2, <2>2 DEF Following
  <2>7. Len(s) = 5
    OBVIOUS
  <2>8. IF n = Len(s) THEN Go(i, "done", [seen EXCEPT !.told = "DOCUMENT"])
        ELSE Go(i, s[n + 1], seen)
    BY <2>1, <2>4 DEF Proceed
  <2> QED
    BY <2>5, <2>6, <2>7, <2>8
<1>3. CASE kind = "verification"
  <2>1. Statements(kind) = <<"action", "provider", "record">>
    BY <1>3 DEF Statements
  <2>2. label \in {"action", "provider", "record"}
    BY <1>3 DEF KindsAt, Ordered
  <2> DEFINE s == <<"action", "provider", "record">>
             n == CASE label = "action" -> 1 [] label = "provider" -> 2 [] OTHER -> 3
  <2>3. \A m \in DOMAIN s : s[m] = label <=> m = n
    BY <2>2
  <2>4. (CHOOSE m \in DOMAIN s : s[m] = label) = n
    BY <2>2, <2>3
  <2>5. n = 3 <=> Following(kind, label) = "done"
    BY <1>3, <2>2 DEF Following
  <2>6. n # 3 => s[n + 1] = Following(kind, label)
    BY <1>3, <2>2 DEF Following
  <2>7. Len(s) = 3
    OBVIOUS
  <2>8. IF n = Len(s) THEN Go(i, "done", [seen EXCEPT !.told = "DOCUMENT"])
        ELSE Go(i, s[n + 1], seen)
    BY <2>1, <2>4 DEF Proceed
  <2> QED
    BY <2>5, <2>6, <2>7, <2>8
<1>4. kind \in InquiryKinds
  BY DEF KindsAt, InquiryKinds, Ordered
<1> QED
  BY <1>1, <1>2, <1>3, <1>4 DEF InquiryKinds

\* A view with one of its columns read anew.
LEMMA ViewUpdates ==
  ASSUME NEW v \in Views
  PROVE  /\ [v EXCEPT !.told = "DOCUMENT"] \in Views
         /\ \A S \in SUBSET Actions : [v EXCEPT !.todo = S] \in Views
         /\ \A S, T \in SUBSET Actions : [v EXCEPT !.todo = S, !.blocking = T] \in Views
         /\ \A S \in SUBSET Actions : [v EXCEPT !.edges = S, !.todo = S] \in Views
         /\ \A a \in Actions : [v EXCEPT !.cur = a] \in Views
         /\ \A S \in SUBSET Actions : [v EXCEPT !.todo = S, !.cur = None] \in Views
         /\ \A s \in Statuses : [v EXCEPT !.status = s] \in Views
         /\ \A S \in SUBSET Sources : [v EXCEPT !.residue = S] \in Views
         /\ \A w \in VerificationStatuses : [v EXCEPT !.verdict = w] \in Views
  BY DEF Views

\* A handler that goes on keeps the locals of all inquiries well typed.
LEMMA Goes ==
  ASSUME InquiryTypeOK, NEW i \in Inquiries, NEW label \in InquiryPCs,
         NEW seen \in Views, Go(i, label, seen)
  PROVE  /\ ipc' \in [Inquiries -> InquiryPCs] /\ ask' \in [Inquiries -> Asks]
         /\ view' \in [Inquiries -> Views]
         /\ ipc'[i] = label /\ view'[i] = seen /\ ask'[i] = ask[i]
         /\ \A j \in Inquiries \ {i} :
              ipc'[j] = ipc[j] /\ view'[j] = view[j] /\ ask'[j] = ask[j]
  BY DEF InquiryTypeOK, Go

\* A handler that proceeds keeps all it has seen; the document is complete
\* after the last statement.
LEMMA GoesOn ==
  ASSUME InquiryTypeOK, NEW i \in Inquiries, NEW label \in Ordered,
         NEW seen \in Views, ask[i].kind \in KindsAt(label), Proceed(i, label, seen)
  PROVE  /\ ipc' \in [Inquiries -> InquiryPCs] /\ ask' \in [Inquiries -> Asks]
         /\ view' \in [Inquiries -> Views]
         /\ ipc'[i] = Following(ask[i].kind, label) /\ ask'[i] = ask[i]
         /\ view'[i].status = seen.status /\ view'[i].todo = seen.todo
         /\ view'[i].edges = seen.edges /\ view'[i].blocking = seen.blocking
         /\ view'[i].residue = seen.residue /\ view'[i].verdict = seen.verdict
         /\ \A j \in Inquiries \ {i} :
              ipc'[j] = ipc[j] /\ view'[j] = view[j] /\ ask'[j] = ask[j]
<1> DEFINE next == Following(ask[i].kind, label)
           told == IF next = "done" THEN [seen EXCEPT !.told = "DOCUMENT"] ELSE seen
<1>1. Go(i, next, told)
  BY Proceeds
<1>2. next \in InquiryPCs
  BY DEF Following, InquiryPCs
<1>3. told \in Views
  BY ViewUpdates
<1>4. /\ told.status = seen.status /\ told.todo = seen.todo
      /\ told.edges = seen.edges /\ told.blocking = seen.blocking
      /\ told.residue = seen.residue /\ told.verdict = seen.verdict
  BY DEF Views
<1> HIDE DEF next, told
<1>5. /\ ipc' \in [Inquiries -> InquiryPCs] /\ ask' \in [Inquiries -> Asks]
      /\ view' \in [Inquiries -> Views]
      /\ ipc'[i] = next /\ view'[i] = told /\ ask'[i] = ask[i]
      /\ \A j \in Inquiries \ {i} :
           ipc'[j] = ipc[j] /\ view'[j] = view[j] /\ ask'[j] = ask[j]
  BY <1>1, <1>2, <1>3, Goes
<1>6. next = Following(ask[i].kind, label)
  BY DEF next
<1> QED
  BY <1>4, <1>5, <1>6

\* A failure ends the handler without a document.
LEMMA Fails ==
  ASSUME InquiryTypeOK, NEW i \in Inquiries,
         NEW problem \in {"IRREVERSIBLE", "INTERNAL", "LOST"}, Fail(i, problem)
  PROVE  /\ ipc' \in [Inquiries -> InquiryPCs] /\ ask' \in [Inquiries -> Asks]
         /\ view' \in [Inquiries -> Views]
         /\ ipc'[i] = "done" /\ view'[i].told # "DOCUMENT"
         /\ \A j \in Inquiries \ {i} :
              ipc'[j] = ipc[j] /\ view'[j] = view[j] /\ ask'[j] = ask[j]
<1>1. NoAsk \in Asks /\ [EmptyView EXCEPT !.told = problem] \in Views
      /\ [EmptyView EXCEPT !.told = problem].told # "DOCUMENT"
  BY DEF NoAsk, Asks, EmptyView, Views
<1> QED
  BY <1>1 DEF InquiryTypeOK, Fail, InquiryPCs

-----------------------------------------------------------------------------
(* Each statement keeps what is said of its inquiry. *)

\* An inquiry that does not move.
Still(j) == ipc'[j] = ipc[j] /\ ask'[j] = ask[j] /\ view'[j] = view[j]

\* What an inquiry holds where it stands.
LEMMA ReaderHas ==
  ASSUME InquiryTypeOK, NEW i \in Inquiries, ReaderInv(i), ipc[i] \notin {"idle", "done"}
  PROVE  /\ Asked(i) \in Actions /\ ask[i].kind \in KindsAt(ipc[i])
         /\ view[i] \in Views /\ view[i].todo \subseteq Actions
         /\ view[i].edges \subseteq Actions /\ view[i].blocking \subseteq Actions
         /\ ask[i].now \in Nat
  BY DEF InquiryTypeOK, ReaderInv, AskInv, Views, Asks

\* A new inquiry starts with the first statement of its kind.
LEMMA ArriveMoves ==
  ASSUME InquiryTypeOK, ServedInv, NEW i \in Inquiries, ReaderInv(i), ArriveInquiry(i)
  PROVE  InquiryTypeOK' /\ ReaderInv(i)' /\ \A j \in Inquiries \ {i} : Still(j)
<1>1. PICK kind \in InquiryKinds, a \in Actions :
        /\ ask' = [ask EXCEPT ![i] = [kind |-> kind, action |-> a, now |-> now]]
        /\ ipc' = [ipc EXCEPT ![i] = Head(Statements(kind))]
        /\ UNCHANGED <<view, verifications>>
  BY DEF ArriveInquiry
<1>2. Head(Statements(kind)) = IF kind = "verification" THEN "action" ELSE "sweep"
  BY DEF Statements, InquiryKinds
<1>3. [kind |-> kind, action |-> a, now |-> now] \in Asks
  BY DEF Asks, ServedInv, IInv, TypeInv, ServerTypeOK
<1>4. /\ ipc'[i] = (IF kind = "verification" THEN "action" ELSE "sweep")
      /\ ask'[i].kind = kind /\ ask'[i].action = a
  BY <1>1, <1>2 DEF InquiryTypeOK
<1>5. InquiryTypeOK'
  BY <1>1, <1>2, <1>3 DEF InquiryTypeOK, InquiryPCs
<1>6. ReaderInv(i)'
  BY <1>4 DEF ReaderInv, AskInv, ReceiptInv, PlanInv, LateInv, VerdictInv, Complete,
     Asked, KindsAt, InquiryKinds
<1> QED
  BY <1>1, <1>5, <1>6 DEF Still, InquiryTypeOK

\* The sweep's SELECT finds the asked Action if it is APPLIED and late.
LEMMA SweepsMoves ==
  ASSUME InquiryTypeOK, ServedInv, NEW i \in Inquiries, ReaderInv(i), InquirySweeps(i)
  PROVE  InquiryTypeOK' /\ ReaderInv(i)' /\ \A j \in Inquiries \ {i} : Still(j)
<1>1. ipc[i] = "sweep" /\ UNCHANGED <<status, attempts, verifications>>
  BY DEF InquirySweeps, vars, tables
<1>2. /\ Asked(i) \in Actions /\ ask[i].kind \in {"receipt", "plan"}
      /\ view[i] \in Views /\ ask[i].now \in Nat
  BY <1>1, ReaderHas DEF KindsAt
<1> DEFINE due == Due(ask[i].now)
<1>3. Late(i) /\ status[Asked(i)] = "APPLIED" => Asked(i) \in due
  BY <1>2, ExpiresAtAssumption DEF Late, Due
<1>4. CASE due = {}
  <2>1. Proceed(i, "sweep", view[i])
    BY <1>4 DEF InquirySweeps
  <2>2. "sweep" \in Ordered /\ ask[i].kind \in KindsAt("sweep")
        /\ Following(ask[i].kind, "sweep") = "action"
    BY <1>2 DEF Ordered, KindsAt, Following
  <2>3. /\ ipc' \in [Inquiries -> InquiryPCs] /\ ask' \in [Inquiries -> Asks]
        /\ view' \in [Inquiries -> Views] /\ ipc'[i] = "action" /\ ask'[i] = ask[i]
        /\ \A j \in Inquiries \ {i} : Still(j)
    BY <1>2, <2>1, <2>2, GoesOn DEF Still
  <2>4. ReaderInv(i)'
    BY <1>1, <1>2, <1>3, <1>4, <2>3 DEF ReaderInv, AskInv, ReceiptInv, PlanInv, LateInv,
       VerdictInv, Complete, Asked, KindsAt, InquiryKinds, Late
  <2> QED
    BY <1>1, <2>3, <2>4 DEF InquiryTypeOK
<1>5. CASE due # {}
  <2>1. Go(i, "expire", [view[i] EXCEPT !.todo = due])
    BY <1>5 DEF InquirySweeps
  <2>2. due \in SUBSET Actions /\ "expire" \in InquiryPCs
    BY DEF Due, InquiryPCs
  <2> DEFINE seen == [view[i] EXCEPT !.todo = due]
  <2>3. seen \in Views /\ Go(i, "expire", seen)
    BY <1>2, <2>1, <2>2, ViewUpdates
  <2>4. seen.todo = due
    BY <1>2 DEF Views
  <2> HIDE DEF seen
  <2>5. /\ ipc' \in [Inquiries -> InquiryPCs] /\ ask' \in [Inquiries -> Asks]
        /\ view' \in [Inquiries -> Views] /\ ipc'[i] = "expire" /\ ask'[i] = ask[i]
        /\ view'[i].todo = due
        /\ \A j \in Inquiries \ {i} : Still(j)
    BY <2>2, <2>3, <2>4, Goes DEF Still
  <2>6. ReaderInv(i)'
    BY <1>1, <1>2, <1>3, <2>5 DEF ReaderInv, AskInv, ReceiptInv, PlanInv, LateInv,
       VerdictInv, Complete, Asked, KindsAt, InquiryKinds, Late
  <2> QED
    BY <1>1, <2>5, <2>6 DEF InquiryTypeOK
<1> QED
  BY <1>4, <1>5

\* The UPDATE of the sweep expires one row, or fails the call.
LEMMA ExpiresMoves ==
  ASSUME InquiryTypeOK, ServedInv, NEW i \in Inquiries, ReaderInv(i), InquiryExpires(i)
  PROVE  InquiryTypeOK' /\ ReaderInv(i)' /\ \A j \in Inquiries \ {i} : Still(j)
<1>1. ipc[i] = "expire" /\ UNCHANGED <<attempts, verifications>>
  BY DEF InquiryExpires, Unwritten
<1>2. /\ Asked(i) \in Actions /\ ask[i].kind \in {"receipt", "plan"}
      /\ view[i] \in Views /\ view[i].todo \subseteq Actions
  BY <1>1, ReaderHas DEF KindsAt
<1>3. PICK a \in view[i].todo :
        \/ UpdateRow(a, "APPLIED", "EXPIRED")
           /\ Go(i, "expired", [view[i] EXCEPT !.cur = a])
        \/ Fail(i, "INTERNAL")
  BY DEF InquiryExpires
<1>4. CASE Fail(i, "INTERNAL")
  <2>1. /\ ipc' \in [Inquiries -> InquiryPCs] /\ ask' \in [Inquiries -> Asks]
        /\ view' \in [Inquiries -> Views]
        /\ ipc'[i] = "done" /\ view'[i].told # "DOCUMENT"
        /\ \A j \in Inquiries \ {i} : Still(j)
    BY <1>4, Fails DEF Still
  <2> QED
    BY <1>1, <2>1, ReaderEnds DEF InquiryTypeOK
<1>5. CASE /\ UpdateRow(a, "APPLIED", "EXPIRED")
           /\ Go(i, "expired", [view[i] EXCEPT !.cur = a])
  <2>1. a \in Actions /\ "expired" \in InquiryPCs
    BY <1>2 DEF InquiryPCs
  <2> DEFINE seen == [view[i] EXCEPT !.cur = a]
  <2>2. seen \in Views /\ Go(i, "expired", seen)
    BY <1>2, <1>5, <2>1, ViewUpdates
  <2>3. seen.cur = a /\ seen.todo = view[i].todo
    BY <1>2 DEF Views
  <2> HIDE DEF seen
  <2>4. /\ ipc' \in [Inquiries -> InquiryPCs] /\ ask' \in [Inquiries -> Asks]
        /\ view' \in [Inquiries -> Views] /\ ipc'[i] = "expired" /\ ask'[i] = ask[i]
        /\ view'[i].cur = a /\ view'[i].todo = view[i].todo
        /\ \A j \in Inquiries \ {i} : Still(j)
    BY <2>1, <2>2, <2>3, Goes DEF Still
  <2>5. status'[a] = "EXPIRED" /\ \A b \in Actions \ {a} : status'[b] = status[b]
    BY <1>5, <2>1 DEF UpdateRow, ServedInv, IInv, TypeInv, StoreOK, StoreTypeOK
  <2>6. LateInv(i)'
    <3>1. Asked(i)' = Asked(i) /\ (Late(i)' <=> Late(i))
          /\ (GivenBack(Asked(i)))' = GivenBack(Asked(i))
      BY <1>1, <2>4 DEF Asked, Late, GivenBack
    <3> QED
      BY <1>1, <1>2, <2>4, <2>5, <3>1 DEF ReaderInv, LateInv, Complete
  <2>7. ReaderInv(i)'
    BY <1>2, <2>1, <2>4, <2>6 DEF ReaderInv, AskInv, ReceiptInv, PlanInv,
       VerdictInv, Complete, Asked, KindsAt, InquiryKinds
  <2> QED
    BY <1>1, <2>4, <2>7 DEF InquiryTypeOK
<1> QED
  BY <1>3, <1>4, <1>5

\* Its INSERT leaves that row behind, expired for good.
LEMMA RecordsExpiryMoves ==
  ASSUME InquiryTypeOK, ServedInv, NEW i \in Inquiries, ReaderInv(i),
         InquiryRecordsExpiry(i)
  PROVE  InquiryTypeOK' /\ ReaderInv(i)' /\ \A j \in Inquiries \ {i} : Still(j)
<1>1. ipc[i] = "expired" /\ UNCHANGED <<status, attempts, verifications>>
  BY DEF InquiryRecordsExpiry, Unwritten
<1>2. /\ Asked(i) \in Actions /\ ask[i].kind \in {"receipt", "plan"}
      /\ view[i] \in Views /\ view[i].todo \subseteq Actions
  BY <1>1, ReaderHas DEF KindsAt
<1> DEFINE rest == view[i].todo \ {view[i].cur}
           left == [view[i] EXCEPT !.todo = rest, !.cur = None]
<1>3. IF rest = {} THEN Proceed(i, "sweep", left) ELSE Go(i, "expire", left)
  BY DEF InquiryRecordsExpiry
<1>4. left \in Views /\ left.todo = rest
  <2>1. rest \in SUBSET Actions
    BY <1>2
  <2>2. left \in Views
    BY <1>2, <2>1, ViewUpdates
  <2> QED
    BY <1>2, <2>2 DEF Views
<1>5. "sweep" \in Ordered /\ ask[i].kind \in KindsAt("sweep") /\ "expire" \in InquiryPCs
      /\ Following(ask[i].kind, "sweep") = "action"
  BY <1>2 DEF Ordered, KindsAt, Following, InquiryPCs
<1>6. rest = view[i].todo \ {view[i].cur}
  OBVIOUS
<1> HIDE DEF left, rest
<1>7. /\ ipc' \in [Inquiries -> InquiryPCs] /\ ask' \in [Inquiries -> Asks]
      /\ view' \in [Inquiries -> Views] /\ ask'[i] = ask[i] /\ view'[i].todo = rest
      /\ ipc'[i] = (IF rest = {} THEN "action" ELSE "expire")
      /\ \A j \in Inquiries \ {i} : Still(j)
  <2>1. CASE rest = {}
    BY <1>3, <1>4, <1>5, <2>1, GoesOn DEF Still
  <2>2. CASE rest # {}
    BY <1>3, <1>4, <1>5, <2>2, Goes DEF Still
  <2> QED
    BY <2>1, <2>2
<1>8. LateInv(i)'
  <2>1. Asked(i)' = Asked(i) /\ (Late(i)' <=> Late(i))
        /\ (GivenBack(Asked(i)))' = GivenBack(Asked(i))
    BY <1>1, <1>7 DEF Asked, Late, GivenBack
  <2>2. status[view[i].cur] = "EXPIRED"
    BY <1>1 DEF ReaderInv, LateInv
  <2> QED
    BY <1>1, <1>2, <1>6, <1>7, <2>1, <2>2 DEF ReaderInv, LateInv, Complete
<1>9. ReaderInv(i)'
  BY <1>2, <1>7, <1>8 DEF ReaderInv, AskInv, ReceiptInv, PlanInv,
     VerdictInv, Complete, Asked, KindsAt, InquiryKinds
<1> QED
  BY <1>1, <1>7, <1>9 DEF InquiryTypeOK

\* The Action is read after the sweep: late, it is APPLIED only where it was
\* given back.
LEMMA ReadsActionMoves ==
  ASSUME InquiryTypeOK, ServedInv, NEW i \in Inquiries, ReaderInv(i),
         InquiryReadsAction(i)
  PROVE  InquiryTypeOK' /\ ReaderInv(i)' /\ \A j \in Inquiries \ {i} : Still(j)
<1>1. ipc[i] = "action" /\ UNCHANGED <<status, attempts, verifications>>
  BY DEF InquiryReadsAction, vars, tables
<1>2. Asked(i) \in Actions /\ ask[i].kind \in InquiryKinds /\ view[i] \in Views
  BY <1>1, ReaderHas DEF KindsAt, InquiryKinds
<1> DEFINE seen == [view[i] EXCEPT !.status = status[Asked(i)]]
<1>3. Fail(i, "IRREVERSIBLE") \/ Proceed(i, "action", seen)
  BY DEF InquiryReadsAction
<1>4. seen \in Views /\ seen.status = status[Asked(i)]
  <2>1. status[Asked(i)] \in Statuses
    BY <1>2 DEF ServedInv, IInv, TypeInv, StoreOK, StoreTypeOK
  <2>2. seen \in Views
    BY <1>2, <2>1, ViewUpdates
  <2> QED
    BY <1>2, <2>2 DEF Views
<1> HIDE DEF seen
<1>5. CASE Fail(i, "IRREVERSIBLE")
  <2>1. /\ ipc' \in [Inquiries -> InquiryPCs] /\ ask' \in [Inquiries -> Asks]
        /\ view' \in [Inquiries -> Views]
        /\ ipc'[i] = "done" /\ view'[i].told # "DOCUMENT"
        /\ \A j \in Inquiries \ {i} : Still(j)
    BY <1>5, Fails DEF Still
  <2> QED
    BY <1>1, <2>1, ReaderEnds DEF InquiryTypeOK
<1>6. CASE Proceed(i, "action", seen)
  <2>1. "action" \in Ordered /\ ask[i].kind \in KindsAt("action")
    BY <1>2 DEF Ordered, KindsAt
  <2>2. /\ ipc' \in [Inquiries -> InquiryPCs] /\ ask' \in [Inquiries -> Asks]
        /\ view' \in [Inquiries -> Views] /\ ask'[i] = ask[i]
        /\ view'[i].status = status[Asked(i)]
        /\ ipc'[i] = Following(ask[i].kind, "action")
        /\ \A j \in Inquiries \ {i} : Still(j)
    BY <1>4, <1>6, <2>1, GoesOn DEF Still
  <2>3. ipc'[i] = IF ask[i].kind = "receipt" THEN "residue"
                  ELSE IF ask[i].kind = "plan" THEN "edges" ELSE "provider"
    BY <1>2, <2>2 DEF Following, InquiryKinds
  <2>4. Asked(i)' = Asked(i) /\ (Late(i)' <=> Late(i))
        /\ (GivenBack(Asked(i)))' = GivenBack(Asked(i))
    BY <1>1, <2>2 DEF Asked, Late, GivenBack
  <2>5. LateInv(i)'
    BY <1>1, <1>2, <2>2, <2>3, <2>4 DEF ReaderInv, LateInv, Complete
  <2>6. ReaderInv(i)'
    BY <1>1, <1>2, <2>2, <2>3, <2>4, <2>5 DEF ReaderInv, AskInv, ReceiptInv, PlanInv,
       VerdictInv, Complete, KindsAt, InquiryKinds
  <2> QED
    BY <1>1, <2>2, <2>6 DEF InquiryTypeOK
<1> QED
  BY <1>3, <1>5, <1>6

\* What a plan's statements over the dependents leave it with.
LEMMA DependentsRead ==
  ASSUME InquiryTypeOK, NEW i \in Inquiries, ReaderInv(i),
         ipc[i] \in {"edges", "block"}, UNCHANGED <<status, attempts, verifications>>,
         NEW seen \in Views, seen.status = view[i].status,
         IF seen.todo = {} THEN Proceed(i, "edges", seen) ELSE Go(i, "block", seen),
         \A d \in seen.edges \ (seen.blocking \cup seen.todo) : status[d] \in Resolved
  PROVE  InquiryTypeOK' /\ ReaderInv(i)' /\ \A j \in Inquiries \ {i} : Still(j)
<1>1. Asked(i) \in Actions /\ ask[i].kind = "plan"
  BY ReaderHas DEF KindsAt
<1>2. /\ "edges" \in Ordered /\ ask[i].kind \in KindsAt("edges")
      /\ "block" \in InquiryPCs /\ Following(ask[i].kind, "edges") = "residue"
  BY <1>1 DEF Ordered, KindsAt, Following, InquiryPCs
<1>3. /\ ipc' \in [Inquiries -> InquiryPCs] /\ ask' \in [Inquiries -> Asks]
      /\ view' \in [Inquiries -> Views] /\ ask'[i] = ask[i]
      /\ view'[i].status = view[i].status /\ view'[i].todo = seen.todo
      /\ view'[i].edges = seen.edges /\ view'[i].blocking = seen.blocking
      /\ ipc'[i] = (IF seen.todo = {} THEN "residue" ELSE "block")
      /\ \A j \in Inquiries \ {i} : Still(j)
  <2>1. CASE seen.todo = {}
    BY <1>2, <2>1, GoesOn DEF Still
  <2>2. CASE seen.todo # {}
    BY <1>2, <2>2, Goes DEF Still
  <2> QED
    BY <2>1, <2>2
<1>4. Asked(i)' = Asked(i) /\ (Late(i)' <=> Late(i))
      /\ (GivenBack(Asked(i)))' = GivenBack(Asked(i))
  BY <1>3 DEF Asked, Late, GivenBack
<1>5. LateInv(i)'
  BY <1>1, <1>3, <1>4 DEF ReaderInv, LateInv, Complete
<1>6. PlanInv(i)'
  BY <1>3 DEF PlanInv, Complete
<1>7. ReaderInv(i)'
  BY <1>1, <1>3, <1>4, <1>5, <1>6 DEF ReaderInv, AskInv, ReceiptInv, VerdictInv,
     Complete, KindsAt
<1> QED
  BY <1>3, <1>7 DEF InquiryTypeOK

\* The dependents read are all still to check.
LEMMA ReadsEdgesMoves ==
  ASSUME InquiryTypeOK, ServedInv, NEW i \in Inquiries, ReaderInv(i),
         InquiryReadsEdges(i)
  PROVE  InquiryTypeOK' /\ ReaderInv(i)' /\ \A j \in Inquiries \ {i} : Still(j)
<1>1. ipc[i] = "edges" /\ UNCHANGED <<status, attempts, verifications>>
  BY DEF InquiryReadsEdges, vars, tables
<1> DEFINE seen == [view[i] EXCEPT !.edges = Dependents(Asked(i)),
                                   !.todo = Dependents(Asked(i))]
<1>2. IF seen.todo = {} THEN Proceed(i, "edges", seen) ELSE Go(i, "block", seen)
  BY DEF InquiryReadsEdges
<1>3. view[i] \in Views /\ Dependents(Asked(i)) \in SUBSET Actions
  BY <1>1, ReaderHas DEF Dependents
<1>4. seen \in Views
  BY <1>3, ViewUpdates
<1>5. seen.status = view[i].status /\ seen.edges = seen.todo
  BY <1>3 DEF Views
<1> HIDE DEF seen
<1> QED
  BY <1>1, <1>2, <1>4, <1>5, DependentsRead

\* Each dependent checked is blocking, or resolved for good.
LEMMA ChecksDependentMoves ==
  ASSUME InquiryTypeOK, ServedInv, NEW i \in Inquiries, ReaderInv(i),
         InquiryChecksDependent(i)
  PROVE  InquiryTypeOK' /\ ReaderInv(i)' /\ \A j \in Inquiries \ {i} : Still(j)
<1>1. ipc[i] = "block" /\ UNCHANGED <<status, attempts, verifications>>
  BY DEF InquiryChecksDependent, vars, tables
<1>2. /\ view[i] \in Views /\ view[i].todo \subseteq Actions
      /\ view[i].blocking \subseteq Actions /\ ask[i].kind = "plan"
  BY <1>1, ReaderHas DEF KindsAt
<1>3. PICK d \in view[i].todo :
        LET rest == view[i].todo \ {d}
            read == [view[i] EXCEPT !.todo = rest,
                       !.blocking = IF status[d] \in Resolved THEN @ ELSE @ \cup {d}]
        IN IF rest = {} THEN Proceed(i, "edges", read) ELSE Go(i, "block", read)
  BY DEF InquiryChecksDependent
<1> DEFINE rest == view[i].todo \ {d}
           blocking == IF status[d] \in Resolved THEN view[i].blocking
                       ELSE view[i].blocking \cup {d}
           seen == [view[i] EXCEPT !.todo = rest, !.blocking = blocking]
<1>4. IF rest = {} THEN Proceed(i, "edges", seen) ELSE Go(i, "block", seen)
  BY <1>2, <1>3 DEF Views
<1>5. rest \in SUBSET Actions /\ blocking \in SUBSET Actions
  BY <1>2
<1>6. \A e \in view[i].edges \ (blocking \cup rest) : status[e] \in Resolved
  BY <1>1, <1>2 DEF ReaderInv, PlanInv
<1> HIDE DEF rest, blocking
<1>7. seen \in Views
  BY <1>2, <1>5, ViewUpdates
<1>8. /\ seen.status = view[i].status /\ seen.todo = rest
      /\ seen.edges = view[i].edges /\ seen.blocking = blocking
  BY <1>2 DEF Views
<1> HIDE DEF seen
<1> QED
  BY <1>1, <1>4, <1>6, <1>7, <1>8, DependentsRead

\* A final partial reversal has recorded its residue by now.
LEMMA ReadsResidueMoves ==
  ASSUME InquiryTypeOK, ServedInv, NEW i \in Inquiries, ReaderInv(i),
         InquiryReadsResidue(i)
  PROVE  InquiryTypeOK' /\ ReaderInv(i)' /\ \A j \in Inquiries \ {i} : Still(j)
<1>1. ipc[i] = "residue" /\ UNCHANGED <<status, attempts, verifications>>
  BY DEF InquiryReadsResidue, vars, tables
<1>2. Asked(i) \in Actions /\ ask[i].kind \in {"receipt", "plan"} /\ view[i] \in Views
  BY <1>1, ReaderHas DEF KindsAt
<1> DEFINE found == IF ask[i].kind = "plan" THEN SourcesOf(Asked(i)) \cap {"DECLARED"}
                    ELSE SourcesOf(Asked(i))
           seen == [view[i] EXCEPT !.residue = found]
<1>3. Proceed(i, "residue", seen)
  BY DEF InquiryReadsResidue
<1>4. found \in SUBSET Sources
  BY DEF SourcesOf, Sources
<1>5. ask[i].kind = "receipt" /\ view[i].status = "PARTIALLY_REVERSED"
        => "DISCOVERED" \in found
  <2> SUFFICES ASSUME ask[i].kind = "receipt", view[i].status = "PARTIALLY_REVERSED"
               PROVE  "DISCOVERED" \in found
    OBVIOUS
  <2>1. status[Asked(i)] = "PARTIALLY_REVERSED"
    BY <1>1 DEF ReaderInv, ReceiptInv
  <2>2. \E t \in residue : attempts[t].action = Asked(i)
    BY <1>2, <2>1 DEF ServedInv, EffectInv, StatusHonest, Done
  <2> QED
    BY <2>2 DEF SourcesOf
<1> HIDE DEF found
<1>6. seen \in Views
  BY <1>2, <1>4, ViewUpdates
<1>7. /\ seen.status = view[i].status /\ seen.residue = found
      /\ seen.edges = view[i].edges /\ seen.blocking = view[i].blocking
  BY <1>2 DEF Views
<1> HIDE DEF seen
<1>8. /\ "residue" \in Ordered /\ ask[i].kind \in KindsAt("residue")
      /\ Following(ask[i].kind, "residue") =
           IF ask[i].kind = "plan" THEN "provider" ELSE "done"
  BY <1>2 DEF Ordered, KindsAt, Following
<1>9. /\ ipc' \in [Inquiries -> InquiryPCs] /\ ask' \in [Inquiries -> Asks]
      /\ view' \in [Inquiries -> Views] /\ ask'[i] = ask[i]
      /\ view'[i].status = view[i].status /\ view'[i].residue = found
      /\ view'[i].edges = view[i].edges /\ view'[i].blocking = view[i].blocking
      /\ ipc'[i] = (IF ask[i].kind = "plan" THEN "provider" ELSE "done")
      /\ \A j \in Inquiries \ {i} : Still(j)
  BY <1>3, <1>6, <1>7, <1>8, GoesOn DEF Still
<1>10. Asked(i)' = Asked(i) /\ (Late(i)' <=> Late(i))
       /\ (GivenBack(Asked(i)))' = GivenBack(Asked(i))
  BY <1>1, <1>9 DEF Asked, Late, GivenBack
<1>11. LateInv(i)'
  BY <1>1, <1>2, <1>9, <1>10 DEF ReaderInv, LateInv, Complete
<1>12. ReceiptInv(i)'
  BY <1>2, <1>5, <1>9 DEF ReceiptInv, Complete
<1>13. PlanInv(i)'
  BY <1>1, <1>2, <1>9 DEF ReaderInv, PlanInv, Complete
<1>14. ReaderInv(i)'
  BY <1>2, <1>9, <1>10, <1>11, <1>12, <1>13 DEF ReaderInv, AskInv, VerdictInv,
     Complete, KindsAt, InquiryKinds
<1> QED
  BY <1>1, <1>9, <1>14 DEF InquiryTypeOK

\* What the provider plans replaces the residue that was read, and nothing else.
LEMMA PlanningMoves ==
  ASSUME InquiryTypeOK, ServedInv, NEW i \in Inquiries, ReaderInv(i),
         PlanningProvider(i)
  PROVE  InquiryTypeOK' /\ ReaderInv(i)' /\ \A j \in Inquiries \ {i} : Still(j)
<1>1. ipc[i] = "provider" /\ UNCHANGED <<status, attempts, verifications>>
      /\ ask[i].kind = "plan"
  BY DEF PlanningProvider, vars, tables
<1>2. Asked(i) \in Actions /\ view[i] \in Views /\ view[i].residue \subseteq Sources
  BY <1>1, ReaderHas DEF Views
<1>3. CASE Fail(i, "INTERNAL")
  <2>1. /\ ipc' \in [Inquiries -> InquiryPCs] /\ ask' \in [Inquiries -> Asks]
        /\ view' \in [Inquiries -> Views]
        /\ ipc'[i] = "done" /\ view'[i].told # "DOCUMENT"
        /\ \A j \in Inquiries \ {i} : Still(j)
    BY <1>3, Fails DEF Still
  <2> QED
    BY <1>1, <2>1, ReaderEnds DEF InquiryTypeOK
<1>4. CASE ~ Fail(i, "INTERNAL")
  <2>1. PICK planned \in {view[i].residue, {}, {"PLANNED"}} :
          Proceed(i, "provider", [view[i] EXCEPT !.residue = planned])
    BY <1>4 DEF PlanningProvider
  <2>2. planned \in SUBSET Sources
    BY <1>2 DEF Sources
  <2> DEFINE seen == [view[i] EXCEPT !.residue = planned]
  <2>3. seen \in Views
    BY <1>2, <2>2, ViewUpdates
  <2>4. /\ seen.status = view[i].status /\ seen.edges = view[i].edges
        /\ seen.blocking = view[i].blocking
    BY <1>2 DEF Views
  <2>5. Proceed(i, "provider", seen)
    BY <2>1
  <2> HIDE DEF seen
  <2>6. /\ "provider" \in Ordered /\ ask[i].kind \in KindsAt("provider")
        /\ Following(ask[i].kind, "provider") = "done"
    BY <1>1 DEF Ordered, KindsAt, Following
  <2>7. /\ ipc' \in [Inquiries -> InquiryPCs] /\ ask' \in [Inquiries -> Asks]
        /\ view' \in [Inquiries -> Views] /\ ask'[i] = ask[i] /\ ipc'[i] = "done"
        /\ view'[i].status = view[i].status
        /\ view'[i].edges = view[i].edges /\ view'[i].blocking = view[i].blocking
        /\ \A j \in Inquiries \ {i} : Still(j)
    BY <2>3, <2>4, <2>5, <2>6, GoesOn DEF Still
  <2>8. Asked(i)' = Asked(i) /\ (Late(i)' <=> Late(i))
        /\ (GivenBack(Asked(i)))' = GivenBack(Asked(i))
    BY <1>1, <2>7 DEF Asked, Late, GivenBack
  <2>9. LateInv(i)'
    BY <1>1, <1>2, <2>7, <2>8 DEF ReaderInv, LateInv, Complete
  <2>10. PlanInv(i)'
    BY <1>1, <1>2, <2>7 DEF ReaderInv, PlanInv, Complete
  <2>11. ReaderInv(i)'
    BY <1>1, <1>2, <2>7, <2>8, <2>9, <2>10 DEF ReaderInv, AskInv, ReceiptInv,
       VerdictInv, Complete, InquiryKinds
  <2> QED
    BY <1>1, <2>7, <2>11 DEF InquiryTypeOK
<1> QED
  BY <1>3, <1>4

\* The provider calls an Action reversed only if it has acted on it.
LEMMA VerifyingMoves ==
  ASSUME InquiryTypeOK, ServedInv, NEW i \in Inquiries, ReaderInv(i),
         VerifyingProvider(i)
  PROVE  InquiryTypeOK' /\ ReaderInv(i)' /\ \A j \in Inquiries \ {i} : Still(j)
<1>1. /\ ipc[i] = "provider" /\ ask[i].kind = "verification"
      /\ UNCHANGED <<status, attempts, effect, verifications>>
  BY DEF VerifyingProvider, vars, tables, provider
<1>2. Asked(i) \in Actions /\ view[i] \in Views
  BY <1>1, ReaderHas
<1>3. PICK v \in Verdicts(Asked(i)) :
        Proceed(i, "provider", [view[i] EXCEPT !.verdict = v])
  BY DEF VerifyingProvider
<1>4. v \in VerificationStatuses /\ (v = "VERIFIED" => Done(Asked(i)) # {})
  BY DEF Verdicts, VerificationStatuses
<1> DEFINE seen == [view[i] EXCEPT !.verdict = v]
<1>5. seen \in Views
  BY <1>2, <1>4, ViewUpdates
<1>6. seen.verdict = v
  BY <1>2 DEF Views
<1>7. Proceed(i, "provider", seen)
  BY <1>3
<1> HIDE DEF seen
<1>8. /\ "provider" \in Ordered /\ ask[i].kind \in KindsAt("provider")
      /\ Following(ask[i].kind, "provider") = "record"
  BY <1>1 DEF Ordered, KindsAt, Following
<1>9. /\ ipc' \in [Inquiries -> InquiryPCs] /\ ask' \in [Inquiries -> Asks]
      /\ view' \in [Inquiries -> Views] /\ ask'[i] = ask[i] /\ ipc'[i] = "record"
      /\ view'[i].verdict = v
      /\ \A j \in Inquiries \ {i} : Still(j)
  BY <1>5, <1>6, <1>7, <1>8, GoesOn DEF Still
<1>10. Asked(i)' = Asked(i) /\ Done(Asked(i))' = Done(Asked(i))
  BY <1>1, <1>9 DEF Asked, Done
<1>11. ReaderInv(i)'
  BY <1>1, <1>2, <1>4, <1>9, <1>10 DEF ReaderInv, AskInv, ReceiptInv, PlanInv, LateInv,
     VerdictInv, Complete, KindsAt
<1> QED
  BY <1>1, <1>9, <1>11 DEF InquiryTypeOK

\* A verification that says VERIFIED is recorded for an Action acted on.
LEMMA RecordsMoves ==
  ASSUME InquiryTypeOK, ServedInv, NEW i \in Inquiries, ReaderInv(i), VerifiedInv,
         InquiryRecords(i)
  PROVE  /\ InquiryTypeOK' /\ ReaderInv(i)' /\ \A j \in Inquiries \ {i} : Still(j)
         /\ VerifiedInv'
<1>1. /\ ipc[i] = "record" /\ UNCHANGED <<attempts, effect>>
      /\ verifications' =
           [verifications EXCEPT ![Asked(i)] = @ \cup {view[i].verdict}]
      /\ Proceed(i, "record", view[i])
  BY DEF InquiryRecords, vars, tables, provider
<1>2. /\ Asked(i) \in Actions /\ view[i] \in Views /\ ask[i].kind = "verification"
      /\ view[i].verdict \in VerificationStatuses
      /\ view[i].verdict = "VERIFIED" => Done(Asked(i)) # {}
  BY <1>1, ReaderHas DEF KindsAt, ReaderInv, AskInv, VerdictInv
<1>3. /\ "record" \in Ordered /\ ask[i].kind \in KindsAt("record")
      /\ Following(ask[i].kind, "record") = "done"
  BY <1>2 DEF Ordered, KindsAt, Following
<1>4. /\ ipc' \in [Inquiries -> InquiryPCs] /\ ask' \in [Inquiries -> Asks]
      /\ view' \in [Inquiries -> Views] /\ ask'[i] = ask[i] /\ ipc'[i] = "done"
      /\ \A j \in Inquiries \ {i} : Still(j)
  BY <1>1, <1>2, <1>3, GoesOn DEF Still
<1>5. verifications' \in [Actions -> SUBSET VerificationStatuses]
  BY <1>1, <1>2 DEF InquiryTypeOK
<1>6. ReaderInv(i)'
  BY <1>2, <1>4 DEF ReaderInv, AskInv, ReceiptInv, PlanInv, LateInv,
     VerdictInv, Complete, Asked, InquiryKinds
<1>7. VerifiedInv'
  <2>1. \A a : Done(a)' = Done(a)
    BY <1>1 DEF Done
  <2>2. \A a \in Actions : "VERIFIED" \in verifications'[a] =>
          \/ "VERIFIED" \in verifications[a]
          \/ a = Asked(i) /\ view[i].verdict = "VERIFIED"
    BY <1>1, <1>2 DEF InquiryTypeOK
  <2> QED
    BY <1>2, <2>1, <2>2 DEF VerifiedInv
<1> QED
  BY <1>4, <1>5, <1>6, <1>7 DEF InquiryTypeOK

-----------------------------------------------------------------------------
(* The theorems. *)

\* A step of one inquiry keeps what is said of all of them.
LEMMA OneInquiryMoves ==
  ASSUME InquiryInv, [Next]_vars \/ Expiry \/ Ledger, NEW i \in Inquiries,
         InquiryTypeOK', ReaderInv(i)', \A j \in Inquiries \ {i} : Still(j),
         verifications' = verifications \/ VerifiedInv'
  PROVE  InquiryInv'
<1>1. ServedInv /\ ServedInv'
  BY ServedStep DEF InquiryInv, ReadersInv, ServedInv
<1>2. \A j \in Inquiries : ReaderInv(j)'
  BY <1>1, ReaderKept DEF InquiryInv, ReadersInv, Still
<1>3. VerifiedInv'
  BY <1>1, VerifiedKept DEF InquiryInv, ReadersInv
<1> QED
  BY <1>1, <1>2, <1>3 DEF InquiryInv, ReadersInv, ServedInv

\* Every step of the service and of the inquiries keeps the invariant.
LEMMA InquiryStep ==
  ASSUME InquiryInv, [InquiryNext]_inquiryVars
  PROVE  InquiryInv'
<1>1. /\ InquiryTypeOK /\ ServedInv /\ VerifiedInv
      /\ \A i \in Inquiries : ReaderInv(i)
  BY DEF InquiryInv, ReadersInv, ServedInv
<1>2. [Next]_vars \/ Expiry \/ Ledger
  BY <1>1, ServiceMoves DEF ReaderInv
<1>3. ServedInv'
  BY <1>1, <1>2, ServedStep
<1>4. CASE UNCHANGED <<inquiries, verifications>>
  <2>1. UNCHANGED <<ipc, ask, view, verifications>>
    BY <1>4 DEF inquiries
  <2>2. \A i \in Inquiries : ReaderInv(i)'
    BY <1>1, <1>2, <2>1, ReaderKept
  <2>3. InquiryTypeOK' /\ VerifiedInv'
    BY <1>1, <1>2, <2>1, VerifiedKept DEF InquiryTypeOK
  <2> QED
    BY <1>3, <2>2, <2>3 DEF InquiryInv, ReadersInv, ServedInv
<1>5. CASE CrashAll
  <2>1. /\ verifications' = verifications /\ NoAsk \in Asks
        /\ [EmptyView EXCEPT !.told = "LOST"] \in Views
        /\ [EmptyView EXCEPT !.told = "LOST"].told # "DOCUMENT"
    BY <1>5 DEF CrashAll, NoAsk, Asks, EmptyView, Views
  <2>2. InquiryTypeOK'
    BY <1>1, <1>5, <2>1 DEF CrashAll, InquiryTypeOK, InquiryPCs
  <2>3. \A i \in Inquiries : \/ ipc'[i] = "done" /\ view'[i].told # "DOCUMENT"
                             \/ /\ ipc'[i] = ipc[i] /\ ask'[i] = ask[i]
                                /\ view'[i] = view[i]
    BY <1>5, <2>1 DEF CrashAll
  <2>4. \A i \in Inquiries : ReaderInv(i)'
    BY <1>1, <1>2, <2>3, ReaderEnds, ReaderKept
  <2>5. VerifiedInv'
    BY <1>1, <1>2, <2>1, VerifiedKept
  <2> QED
    BY <1>3, <2>2, <2>4, <2>5 DEF InquiryInv, ReadersInv, ServedInv
<1>6. ASSUME NEW i \in Inquiries, AbortInquiry(i) PROVE InquiryInv'
  <2>1. /\ ipc' \in [Inquiries -> InquiryPCs] /\ ask' \in [Inquiries -> Asks]
        /\ view' \in [Inquiries -> Views] /\ verifications' = verifications
        /\ ipc'[i] = "done" /\ view'[i].told # "DOCUMENT"
        /\ \A j \in Inquiries \ {i} : Still(j)
    BY <1>1, <1>6, Fails DEF AbortInquiry, Still
  <2>2. InquiryTypeOK' /\ ReaderInv(i)'
    BY <1>1, <2>1, ReaderEnds DEF InquiryTypeOK
  <2> QED
    BY <1>2, <2>1, <2>2, OneInquiryMoves
<1>7. ASSUME NEW i \in Inquiries, InquiryRecords(i) PROVE InquiryInv'
  BY <1>1, <1>2, <1>7, RecordsMoves, OneInquiryMoves
<1>8. ASSUME NEW i \in Inquiries,
             \/ ArriveInquiry(i) \/ InquirySweeps(i) \/ InquiryExpires(i)
             \/ InquiryRecordsExpiry(i) \/ InquiryReadsAction(i)
             \/ InquiryReadsEdges(i) \/ InquiryChecksDependent(i)
             \/ InquiryReadsResidue(i) \/ PlanningProvider(i) \/ VerifyingProvider(i)
      PROVE  InquiryInv'
  <2>1. verifications' = verifications
    BY <1>8 DEF ArriveInquiry, InquirySweeps, InquiryExpires, InquiryRecordsExpiry,
       InquiryReadsAction, InquiryReadsEdges, InquiryChecksDependent,
       InquiryReadsResidue, PlanningProvider, VerifyingProvider
  <2>2. InquiryTypeOK' /\ ReaderInv(i)' /\ \A j \in Inquiries \ {i} : Still(j)
    BY <1>1, <1>8, ArriveMoves, SweepsMoves, ExpiresMoves, RecordsExpiryMoves,
       ReadsActionMoves, ReadsEdgesMoves, ChecksDependentMoves, ReadsResidueMoves,
       PlanningMoves, VerifyingMoves
  <2> QED
    BY <1>2, <2>1, <2>2, OneInquiryMoves
<1>9. CASE UNCHANGED inquiryVars
  BY <1>4, <1>9 DEF inquiryVars, inquiries
<1> QED
  BY <1>4, <1>5, <1>6, <1>7, <1>8, <1>9
  DEF InquiryNext, ReversalStep, Idle, Inquire

\* Before any inquiry nothing is asked, seen or recorded.
LEMMA InquiryStart ==
  InquiryInit => InquiryInv
<1> SUFFICES ASSUME InquiryInit PROVE InquiryInv
  OBVIOUS
<1>1. IInv /\ EffectInv /\ AnswerInv /\ WindowInv
  BY TypeInit, OwnershipInit, EffectInit, AnswerInit, WindowInit
  DEF InquiryInit, IInv, Ownership
<1>2. InquiryTypeOK
  BY DEF InquiryInit, InquiryTypeOK, InquiryPCs, NoAsk, Asks, EmptyView, Views
<1>3. \A i \in Inquiries : ReaderInv(i)
  BY DEF InquiryInit, ReaderInv, AskInv, ReceiptInv, PlanInv, LateInv, VerdictInv,
     Complete
<1>4. VerifiedInv
  BY DEF InquiryInit, VerifiedInv
<1> QED
  BY <1>1, <1>2, <1>3, <1>4 DEF InquiryInv, ReadersInv

\* The service keeps its invariants beside inquiries.
THEOREM InquiryInductive == InquirySpec => []InquiryInv
  BY InquiryStart, InquiryStep, PTL DEF InquirySpec

\* What inquiries have read stays true while they run, at every statement.
THEOREM ReadersInformed == InquirySpec => []ReadersInv
<1>1. InquiryInv => ReadersInv
  BY DEF InquiryInv
<1> QED
  BY <1>1, InquiryInductive, PTL

\* Every local of an inquiry and every recorded verification has its type.
THEOREM InquiryTypeCorrect == InquirySpec => []InquiryTypeOK
<1>1. InquiryInv => InquiryTypeOK
  BY DEF InquiryInv, ReadersInv
<1> QED
  BY <1>1, InquiryInductive, PTL

\* A receipt that says PARTIALLY_REVERSED also says what remains, although it
\* reads the Action and its residue at different times.
THEOREM ReceiptsAreWhole == InquirySpec => []ReceiptShowsWhatRemains
<1>1. InquiryInv => ReceiptShowsWhatRemains
  BY DEF InquiryInv, ReadersInv, ReaderInv, ReceiptInv, Complete, ReceiptShowsWhatRemains, Shown
<1> QED
  BY <1>1, InquiryInductive, PTL

\* A dependent that a plan has read and does not list as blocking is resolved,
\* and does not block any later request.
THEOREM PlansAreStanding == InquirySpec => []PlanNamesStandingBlockers
<1>1. InquiryInv => PlanNamesStandingBlockers
  BY DEF InquiryInv, ReadersInv, ReaderInv, PlanInv, Complete, PlanNamesStandingBlockers, Shown
<1> QED
  BY <1>1, InquiryInductive, PTL

\* No document shows an Action as APPLIED to a client that asked after the end
\* of its window, unless a refused attempt gave the Action back.
THEOREM LateIsNeverApplied == InquirySpec => []AppliedLateOnlyAfterReturn
<1>1. InquiryInv => AppliedLateOnlyAfterReturn
  BY DEF InquiryInv, ReadersInv, ReaderInv, LateInv, Late, GivenBack, Complete,
     AppliedLateOnlyAfterReturn, Shown
<1> QED
  BY <1>1, InquiryInductive, PTL

\* An Action with a recorded VERIFIED result is in no status that says nothing
\* was reversed.
THEOREM VerifiedIsHonest == InquirySpec => []VerifiedNeverDenied
<1>1. InquiryInv => VerifiedNeverDenied
  BY DEF InquiryInv, ReadersInv, VerifiedInv, VerifiedNeverDenied, EffectInv, OneActor, MayAct, Done
<1> QED
  BY <1>1, InquiryInductive, PTL

-----------------------------------------------------------------------------
(* The service beside inquiries still implements its contract. *)

\* An inquiry's expiry is one the contract allows; its history row is silent.
LEMMA InquiryContractStep ==
  ASSUME InquiryInv, InquiryInv', [InquiryNext]_inquiryVars
  PROVE  [Contract!Next]_Contract!vars
<1>1. IInv /\ EffectInv /\ EffectInv' /\ InquiryTypeOK
      /\ \A i \in Inquiries : AskInv(i)
  BY DEF InquiryInv, ReadersInv, ReaderInv
<1>2. [Next]_vars \/ Expiry \/ Ledger
  BY <1>1, ServiceMoves
<1>3. CASE Expiry
  <2>1. UNCHANGED <<attempts, effect>>
    BY <1>3 DEF Expiry, Leaves, provider
  <2>2. TrueEffect' = TrueEffect
    BY <1>1, <2>1, TruthKept DEF Done
  <2> QED
    BY <1>3, <2>2
    DEF Expiry, Contract!Next, Contract!Expire, Contract!Move, Contract!vars, UpdateRow
<1>4. CASE Ledger
  BY <1>1, <1>4, SilentStep DEF Ledger, Leaves, provider
<1> QED
  BY <1>1, <1>2, <1>3, <1>4, ContractStep

\* Receipts and plans, which expire Actions themselves, take no Action where
\* the contract of the reversal service would not let it go.
THEOREM InquiriesKeepContract == InquirySpec => ImplementsContract
<1>1. InquiryInit => Contract!Init
  BY ContractInit DEF InquiryInit
<1> QED
  BY <1>1, InquiryInductive, InquiryContractStep, PTL
  DEF InquirySpec, ImplementsContract, Contract!Spec

\* Beside inquiries too, an Action is reversed at most once and no status
\* contradicts the provider.
THEOREM InquiriesKeepHonesty == InquirySpec => [](StatusHonest /\ EffectOnce)
<1>1. InquiryInv => StatusHonest /\ EffectOnce
  BY DEF InquiryInv, ReadersInv, EffectInv, OneActor, EffectOnce, Done, MayAct
<1> QED
  BY <1>1, InquiryInductive, PTL

\* What requests are promised holds beside inquiries, which expire Actions in
\* between any two of their statements: one attempt for a key, outcomes told are
\* recorded ones, nothing is left behind an answer that blames the client, the
\* sweep is not outrun, and the rows recovery parks are the ones it can.
THEOREM PromisesBesideInquiries ==
  InquirySpec => [](/\ KeyBindsOneAttempt /\ RepliesRecorded /\ ClientErrorMeansUntouched
                    /\ LateOnlyAfterReturn /\ OnlyUnrecognizedStays
                    /\ RunningIsReversing /\ OpenAttemptOwnsAction)
<1>1. InquiryInv =>
        /\ KeyBindsOneAttempt /\ RepliesRecorded /\ ClientErrorMeansUntouched
        /\ LateOnlyAfterReturn /\ OnlyUnrecognizedStays
        /\ RunningIsReversing /\ OpenAttemptOwnsAction
  <2>1. InquiryInv => RunningIsReversing /\ OpenAttemptOwnsAction
    BY DEF InquiryInv, ReadersInv, IInv, BusyInv, Busy, OpenAttemptOwnsAction
  <2>2. InquiryInv => RepliesRecorded /\ LateOnlyAfterReturn
    BY DEF InquiryInv, ReadersInv, AnswerInv, WindowInv
  <2> QED
    BY <2>1, <2>2, KeysAreHonoured, BlamedHasNothing, StayingIsUnknown DEF InquiryInv, ReadersInv
<1> QED
  BY <1>1, InquiryInductive, PTL
=============================================================================
