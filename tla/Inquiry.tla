------------------------------ MODULE Inquiry ------------------------------
(***************************************************************************)
(* The read side of the server beside Reverse requests: a client asks for  *)
(* the receipt of an Action, for a reversal plan or for a verification.    *)
(* Each inquiry is a thread of statements over the store of module         *)
(* Reversal, with one reading of the clock on arrival, and answers with a  *)
(* document put together from what its statements saw at different times.  *)
(*                                                                         *)
(* Receipts and plans sweep expired Actions first, so an inquiry writes    *)
(* too; a verification appends its result.                                 *)
(***************************************************************************)
EXTENDS Reversal

CONSTANTS
  Inquiries,    \* the calls
  Declared      \* Actions recorded with residue declared beforehand

ASSUME DeclaredAssumption == Declared \subseteq Actions

VARIABLES
  ipc,             \* per inquiry: the statement it is at
  ask,             \* per inquiry: what is asked, of which Action, and when
  view,            \* per inquiry: what it has read, in the end its answer
  verifications    \* verification_results: per Action, the statuses recorded

inquiries   == <<ipc, ask, view>>
inquiryVars == <<vars, inquiries, verifications>>

\* Mutant: the receipt reads the residue before the Action.
ResidueFirst(kind) ==
  CASE kind = "receipt"      -> <<"sweep", "residue", "action">>
    [] kind = "plan"         -> <<"sweep", "action", "edges", "residue", "provider">>
    [] kind = "verification" -> <<"action", "provider", "record">>

\* The statements of each handler, in the order of its code.
Statements(kind) ==
  CASE kind = "receipt"      -> <<"sweep", "action", "residue">>
    [] kind = "plan"         -> <<"sweep", "action", "edges", "residue", "provider">>
    [] kind = "verification" -> <<"action", "provider", "record">>

InquiryKinds == {"receipt", "plan", "verification"}
InquiryPCs == {"idle", "sweep", "expire", "expired", "action", "edges", "block",
               "residue", "provider", "record", "done"}
Sources == {"DECLARED", "DISCOVERED", "PLANNED"}
VerificationStatuses == {"VERIFIED", "FAILED", "UNKNOWN"}

Asks == [kind   : InquiryKinds \cup {None},
         action : Actions \cup {None},
         now    : Nat]
Views == [told     : {"NONE", "DOCUMENT", "IRREVERSIBLE", "INTERNAL", "LOST"},
          status   : Statuses \cup {None},     \* of the Action, when read
          todo     : SUBSET Actions,           \* rows left to expire or check
          cur      : Actions \cup {None},      \* row being expired
          edges    : SUBSET Actions,           \* dependents that were read
          blocking : SUBSET Actions,           \* those that were unresolved
          residue  : SUBSET Sources,
          verdict  : VerificationStatuses \cup {None}]
NoAsk == [kind |-> None, action |-> None, now |-> 0]
EmptyView == [told |-> "NONE", status |-> None, todo |-> {}, cur |-> None,
              edges |-> {}, blocking |-> {}, residue |-> {}, verdict |-> None]

InquiryInit ==
  /\ Init
  /\ ipc = [i \in Inquiries |-> "idle"]
  /\ ask = [i \in Inquiries |-> NoAsk]
  /\ view = [i \in Inquiries |-> EmptyView]
  /\ verifications = [a \in Actions |-> {}]

-----------------------------------------------------------------------------
Go(i, label, seen) ==
  /\ ipc' = [ipc EXCEPT ![i] = label]
  /\ view' = [view EXCEPT ![i] = seen]
  /\ UNCHANGED ask

\* The handler is gone with its locals, and shows no document.
Fail(i, problem) ==
  /\ ipc' = [ipc EXCEPT ![i] = "done"]
  /\ view' = [view EXCEPT ![i] = [EmptyView EXCEPT !.told = problem]]
  /\ ask' = [ask EXCEPT ![i] = NoAsk]

\* The statement after label; after the last one the document is complete.
Proceed(i, label, seen) ==
  LET s == Statements(ask[i].kind)
      n == CHOOSE n \in DOMAIN s : s[n] = label
  IN IF n = Len(s) THEN Go(i, "done", [seen EXCEPT !.told = "DOCUMENT"])
     ELSE Go(i, s[n + 1], seen)

Asked(i) == ask[i].action
Unwritten == <<attempts, idem, residue, handlers, provider, deps, now, server>>

ArriveInquiry(i) ==
  /\ ipc[i] = "idle" /\ boot = "up"
  /\ \E kind \in InquiryKinds, a \in Actions :
       /\ ask' = [ask EXCEPT ![i] = [kind |-> kind, action |-> a, now |-> now]]
       /\ ipc' = [ipc EXCEPT ![i] = Head(Statements(kind))]
  /\ UNCHANGED <<vars, view, verifications>>

\* SweepExpiry, as in a Reverse request: the SELECT, then two statements a row.
InquirySweeps(i) ==
  /\ ipc[i] = "sweep"
  /\ LET due == Due(ask[i].now) IN
       IF due = {} THEN Proceed(i, "sweep", view[i])
       ELSE Go(i, "expire", [view[i] EXCEPT !.todo = due])
  /\ UNCHANGED <<vars, verifications>>

InquiryExpires(i) ==
  /\ ipc[i] = "expire"
  /\ \E a \in view[i].todo :
       \/ /\ UpdateRow(a, "APPLIED", "EXPIRED")
          /\ Go(i, "expired", [view[i] EXCEPT !.cur = a])
       \/ /\ status[a] # "APPLIED"
          /\ Fail(i, "INTERNAL")
          /\ UNCHANGED status
  /\ UNCHANGED <<Unwritten, history, verifications>>

InquiryRecordsExpiry(i) ==
  /\ ipc[i] = "expired"
  /\ AppendHistory(view[i].cur, "APPLIED", "EXPIRED")
  /\ LET rest == view[i].todo \ {view[i].cur}
         left == [view[i] EXCEPT !.todo = rest, !.cur = None]
     IN IF rest = {} THEN Proceed(i, "sweep", left) ELSE Go(i, "expire", left)
  /\ UNCHANGED <<Unwritten, status, verifications>>

\* GetAction.  Plans and verifications refuse an IRREVERSIBLE Action.
InquiryReadsAction(i) ==
  /\ ipc[i] = "action"
  /\ LET s == status[Asked(i)] IN
       IF s = "IRREVERSIBLE" /\ ask[i].kind # "receipt" THEN Fail(i, "IRREVERSIBLE")
       ELSE Proceed(i, "action", [view[i] EXCEPT !.status = s])
  /\ UNCHANGED <<vars, verifications>>

\* Dependencies.Blocking: the edges, then each dependent in a query of its own.
InquiryReadsEdges(i) ==
  /\ ipc[i] = "edges"
  /\ LET read == [view[i] EXCEPT !.edges = Dependents(Asked(i)),
                                 !.todo = Dependents(Asked(i))]
     IN IF read.todo = {} THEN Proceed(i, "edges", read) ELSE Go(i, "block", read)
  /\ UNCHANGED <<vars, verifications>>

\* Mutant: dependents that are being reversed are not reported.
InquiryChecksApplied(i) ==
  /\ ipc[i] = "block"
  /\ \E d \in view[i].todo :
       LET rest == view[i].todo \ {d}
           read == [view[i] EXCEPT !.todo = rest,
                      !.blocking = IF status[d] = "APPLIED" THEN @ \cup {d} ELSE @]
       IN IF rest = {} THEN Proceed(i, "edges", read) ELSE Go(i, "block", read)
  /\ UNCHANGED <<vars, verifications>>

InquiryChecksDependent(i) ==
  /\ ipc[i] = "block"
  /\ \E d \in view[i].todo :
       LET rest == view[i].todo \ {d}
           read == [view[i] EXCEPT !.todo = rest,
                      !.blocking = IF status[d] \in Resolved THEN @ ELSE @ \cup {d}]
       IN IF rest = {} THEN Proceed(i, "edges", read) ELSE Go(i, "block", read)
  /\ UNCHANGED <<vars, verifications>>

\* ResidueForAction; a plan keeps only what was declared.
SourcesOf(a) ==
  {s \in {"DECLARED"} : a \in Declared}
    \cup {s \in {"DISCOVERED"} : \E t \in residue : attempts[t].action = a}

InquiryReadsResidue(i) ==
  /\ ipc[i] = "residue"
  /\ LET found == IF ask[i].kind = "plan" THEN SourcesOf(Asked(i)) \cap {"DECLARED"}
                  ELSE SourcesOf(Asked(i))
     IN Proceed(i, "residue", [view[i] EXCEPT !.residue = found])
  /\ UNCHANGED <<vars, verifications>>

\* PlanFunc, where there is one: what it says of residue replaces what was
\* read.  Its error fails the call.
PlanningProvider(i) ==
  /\ ipc[i] = "provider" /\ ask[i].kind = "plan"
  /\ \/ \E planned \in {view[i].residue, {}, {"PLANNED"}} :
          Proceed(i, "provider", [view[i] EXCEPT !.residue = planned])
     \/ Fail(i, "INTERNAL")
  /\ UNCHANGED <<vars, verifications>>

\* Mutant: the error of VerifyFunc is recorded as it is.
VerdictsAsReturned(a) ==
  {"FAILED", None} \cup {v \in {"VERIFIED"} : Done(a) # {}}

\* What VerifyFunc may answer: the postconditions hold only if the provider
\* has acted, they may fail at any time, and an error counts as UNKNOWN.
Verdicts(a) ==
  {"FAILED", "UNKNOWN"} \cup {v \in {"VERIFIED"} : Done(a) # {}}

VerifyingProvider(i) ==
  /\ ipc[i] = "provider" /\ ask[i].kind = "verification"
  /\ \E v \in Verdicts(Asked(i)) :
       Proceed(i, "provider", [view[i] EXCEPT !.verdict = v])
  /\ UNCHANGED <<vars, verifications>>

\* RecordVerification appends, whatever has become of the Action meanwhile.
InquiryRecords(i) ==
  /\ ipc[i] = "record"
  /\ verifications' = [verifications EXCEPT ![Asked(i)] = @ \cup {view[i].verdict}]
  /\ Proceed(i, "record", view[i])
  /\ UNCHANGED vars

Inquire(i) ==
  \/ InquirySweeps(i) \/ InquiryExpires(i) \/ InquiryRecordsExpiry(i)
  \/ InquiryReadsAction(i) \/ InquiryReadsEdges(i) \/ InquiryChecksDependent(i)
  \/ InquiryReadsResidue(i) \/ PlanningProvider(i) \/ VerifyingProvider(i)
  \/ InquiryRecords(i)

\* The client's context is cancelled or a statement fails.
AbortInquiry(i) ==
  /\ ipc[i] \notin {"idle", "done"}
  /\ Fail(i, "LOST")
  /\ UNCHANGED <<vars, verifications>>

\* A process crash ends every inquiry with the requests.
CrashAll ==
  /\ Crash
  /\ LET running == {i \in Inquiries : ipc[i] \notin {"idle", "done"}} IN
       /\ ipc' = [i \in Inquiries |-> IF i \in running THEN "done" ELSE ipc[i]]
       /\ view' = [i \in Inquiries |-> IF i \in running
                     THEN [EmptyView EXCEPT !.told = "LOST"] ELSE view[i]]
       /\ ask' = [i \in Inquiries |-> IF i \in running THEN NoAsk ELSE ask[i]]
  /\ UNCHANGED verifications

ReversalStep ==
  /\ \/ \E r \in Requests : Arrive(r) \/ Handle(r) \/ ProviderActs(r) \/ Abort(r)
     \/ Recover \/ Tick \/ AddDependency
  /\ UNCHANGED <<inquiries, verifications>>

Idle == /\ AllAnswered /\ \A i \in Inquiries : ipc[i] = "done"
        /\ UNCHANGED <<inquiries, verifications>>

InquiryNext ==
  \/ ReversalStep \/ CrashAll \/ Idle
  \/ \E i \in Inquiries : ArriveInquiry(i) \/ Inquire(i) \/ AbortInquiry(i)

InquirySpec == InquiryInit /\ [][InquiryNext]_inquiryVars

-----------------------------------------------------------------------------
(* Properties *)

Shown(i, kinds) ==
  ipc[i] = "done" /\ view[i].told = "DOCUMENT" /\ ask[i].kind \in kinds

\* Every local of an inquiry and every recorded verification has its type.
InquiryTypeOK ==
  /\ ipc \in [Inquiries -> InquiryPCs]
  /\ ask \in [Inquiries -> Asks]
  /\ view \in [Inquiries -> Views]
  /\ verifications \in [Actions -> SUBSET VerificationStatuses]

\* A receipt that says PARTIALLY_REVERSED also says what remains, although
\* the Action and its residue are read at different times, written in three
\* statements, and a crash may come between any two of them.
ReceiptShowsWhatRemains ==
  \A i \in Inquiries :
    Shown(i, {"receipt"}) /\ view[i].status = "PARTIALLY_REVERSED"
      => "DISCOVERED" \in view[i].residue

\* A plan's silence about a dependent that it read is never withdrawn: what
\* it does not list as blocking does not block a later request either.
PlanNamesStandingBlockers ==
  \A i \in Inquiries : Shown(i, {"plan"}) =>
    \A d \in view[i].edges \ view[i].blocking : status[d] \in Resolved

\* No document shows an Action as APPLIED to a client that asked after the end
\* of its window, unless a refused attempt gave the Action back meanwhile.
AppliedLateOnlyAfterReturn ==
  \A i \in Inquiries :
    /\ Shown(i, {"receipt", "plan"})
    /\ view[i].status = "APPLIED"
    /\ ask[i].now >= ExpiresAt[Asked(i)]
    => \E t \in Attempts : /\ attempts[t].action = Asked(i)
                           /\ attempts[t].observed \in {"CONFLICT", "REVERSE_FAILED"}

\* Verification and reversal never contradict each other: an Action with a
\* recorded VERIFIED result is in no status that says nothing was reversed.
VerifiedNeverDenied ==
  \A a \in Actions : "VERIFIED" \in verifications[a] =>
    status[a] \in {"REVERSING", "OUTCOME_UNKNOWN", "REVERSED", "PARTIALLY_REVERSED"}
=============================================================================
