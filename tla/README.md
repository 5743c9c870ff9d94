# A TLA+ model of the Reversible Operations Protocol server

ROP records business operations as *Actions* and reverses them later through
the provider that performed them.  The server (`cmd/ropd`, Go, SQLite) keeps the
durable record; the provider keeps the truth.  The hard part is everything in
between: concurrent requests, retries with an idempotency key, a client that
gives up, a provider that answers late or never, a process that dies.

This directory holds TLA+ modules for that part of the program, TLC
configurations that check them on small instances, and proofs that TLAPS checks.
Each definition names the code it comes from in `PROJECT.json` (`map`).

## 1. Inventory

| Component | State it keeps | Operations | Correct when |
|---|---|---|---|
| Action state machine (`internal/action`) | none | `CanTransition`, `Validate` | every status change is one of ten listed transitions |
| Store (`internal/store`, `migrations/`) | `actions`, `action_status_history`, `reversal_attempts`, `idempotency_keys`, residue, observations, dependencies | one SQL statement each; Transaction A is the only larger one | an Action has one open attempt; a key has one record; statuses move by compare-and-set |
| Reversal service (`internal/reversal`) | the locals of each handler | `Reverse`, `replay`, `execute`, `RecoverAll` | one execution per Action; the status never contradicts the provider; every attempt is concluded or parked |
| Reconciliation service (`internal/reconciliation`) | the locals of each round | `Reconcile` | uncertainty is left on recorded evidence only |
| Dependency service (`internal/dependency`) | the locals of each walk | `Add`, `Blocking` | no cycle; no reversal below an active dependent |
| Provider operations (`internal/operation`) | a registry fixed at start | `PlanFunc`, `ReverseFunc`, `VerifyFunc`, `ReconcileFunc` | the contract of section 3 |
| Planner (`internal/planner`) | the locals of each call | `Plan` (after an expiry sweep) | what it does not list as blocking does not block later |
| Verification (`internal/verification`) | `verification_results` | `Verify` | no recorded `VERIFIED` ever denies the Action's status |
| HTTP binding (`internal/httpapi`) | the locals of the receipt handler | receipts, problem statuses | a receipt of two reads is still true; a client error means that nothing was done |
| Authorization, clock, wire types, `ropctl` | none | checks, `Now`, encoding | see `PROJECT.json` |
| Reference provider (`examples/resource-api`) | resources with versions | create, update, notify, publish, their plans and reversals | it keeps the provider's contract |

The components interact by calls within one process and through the tables.
The pool has one connection, so every statement outside a transaction is atomic
and so is a whole transaction; between two statements of a handler any other
handler may run.  The provider is called outside any transaction.  Only the
tables survive a crash; `ropd` runs `RecoverAll` before it listens.

What is hard: the gap between a check and the write that relies on it; the gap
between the update of the attempt and of the Action; a call that the provider
executes after its caller stopped waiting; a second request with the same key at
every one of these points; recovery that dies halfway.  `PROJECT.json`
(`hazards`) lists each at its line with the properties that address it.

## 2. Modules

```
ActionStates --- Store --- Provider --- Reversal --+-- Rop --- MCRop
      |                       |                    +-- Inquiry --- MCInquiry
      |                       |                    +-- MCReversal
      |                       +-- Reconciliation ----- Rop
      +--- ReversalContract  (instantiated in Reversal, Rop, ResourceApi)
      +--- ResourceApi --- MCResourceApi
Dependency --- MCDependency

Reversal_proofs --- Effect_proofs --- Service_proofs --+-- History_proofs
                                                       +-- Inquiry_proofs
                                                       +-- Rop_proofs
ResourceApi_proofs            Dependency_proofs
```

The upper half models, the lower half proves: `Reversal_proofs`, `Effect_proofs`,
`Service_proofs` and `History_proofs` are about `Reversal`, each of the others about
the module it is named after.  `MCReversal_proofs`, `MCRop_proofs`, `MCInquiry_proofs`,
`MCResourceApi_proofs` and `MCDependency_proofs` join an MC module with the proofs, so
that TLC evaluates their inductive invariants on the instances of section 4.

| Module | Code | Correspondence |
|---|---|---|
| `ActionStates` | `internal/action/action.go` | the eight statuses and the transition table |
| `Store` | `internal/store`, `migrations` | one operator per statement with its WHERE clause, `CHECK`s and unique indexes |
| `Provider` | `internal/operation/operation.go` | an external party: it holds a call, acts on it once at any later time, and answers |
| `Reversal` | `internal/reversal/service.go`, the start of `cmd/ropd/main.go` | `pc[r]` is the next statement of handler `r`, `req`/`frame` its arguments and locals, `reply` its answer |
| `Reconciliation` | `internal/reconciliation/service.go` | the same for a round: `rpc`, `round`, `told` |
| `Rop` | the server as a whole | requests and rounds over one store, crashing together; the fairness of all of them |
| `Inquiry` | `internal/planner/service.go`, `internal/verification/service.go`, receipts in `internal/httpapi/server.go` | `ipc[i]` is the next statement of a call that reads, `ask` its arguments, `view` what it has read and in the end its answer |
| `Dependency` | `internal/dependency/service.go` | a call of `Add` is a walk, one query a step, and an insert |
| `ResourceApi` | `examples/resource-api/resourceapi.go` | the provider `ropd` serves: one action per business call (a transaction) and per reverse function (one conditional statement), over a service reduced to its contract |
| `ReversalContract` | abstract | what a client may rely on, without attempts, keys or handlers |

### Reversal, step by step

| Action(s) | Code in `Reverse` / `execute` / `replay` / `RecoverAll` |
|---|---|
| `Arrive` | the clock is read once |
| `SweepSelect`, `SweepExpire`, `SweepHistory` | `SweepExpiry`: a SELECT, then `UpdateStatus` per row, which is an UPDATE and an INSERT |
| `LookupKey`, `UseKeyRecord` | `GetIdempotency`; a different fingerprint is a conflict, the same one a replay |
| `ReadAction` | `GetAction` and the switch on its status |
| `ReadEdges`, `CheckDependent` | `Blocking`: the edges, then each dependent's status in a query of its own; the refusal is given at the first active one, where the code reads the rest to list them |
| `Begin`, `BeginRefused`, `Converge` | Transaction A, its rollback by the first refused statement, and `replayOrConflict` |
| `CallProvider`, `ProviderActs`, `ReceiveAnswer`, `ProviderTimeout` | the call; what the provider does is not synchronised with what the adapter reports |
| `RecordResidue`, `RecordAttempt`, `RecordStatus`, `RecordHistory` | what `execute` writes, one statement a step |
| `PollAttempt`, `ProjectAction` | `replay`: the attempt, then the Action |
| `Abort` | the request's context is cancelled or a statement fails, at any statement |
| `Crash`, `RecoverScan`, `RecoverMark`, `RecoverStatus`, `RecoverHistory` | a crash, also during recovery, and `RecoverAll` statement by statement |

### Inquiry, step by step

| Step | Receipt (`actionStatus`) | Plan (`Plan`) | Verification (`Verify`) |
|---|---|---|---|
| `InquirySweeps`, `InquiryExpires`, `InquiryRecordsExpiry` | first | first | - |
| `InquiryReadsAction` | then | then; `IRREVERSIBLE` is refused | first; `IRREVERSIBLE` is refused |
| `InquiryReadsEdges`, `InquiryChecksDependent` | - | `Blocking` | - |
| `InquiryReadsResidue` | all of it | what was declared | - |
| `PlanningProvider`, `VerifyingProvider` | - | `PlanFunc` | `VerifyFunc`; an error is the verdict `UNKNOWN` |
| `InquiryRecords` | - | - | `RecordVerification` |

`Statements` gives the order.  The sweep writes, and fails the call when another
sweep was faster.  `VerifyFunc` is an external party: it may deny at any time and
confirms only what the provider has done; `PlanFunc` may replace the residue.

### The reference provider

`ResourceApi` turns the view round: the provider in full, the service reduced to
four steps (`ReadDependents`, `Begin`, `Settle`, `LoseOutcome`) that `Reversal` has
been shown to refine, and planning to the provider's part (`Plan`).  A client
holds a plan until the reversal answers or none can come (`Forget`); `MaxPlans` bounds how many are held.  Between `ReadDependents` and `Begin` any business call may
commit, and a request may rely on dependents read any time ago.  A dependent that
is resolved stays so, hence its own query may count at `Begin`.  A resource is
named by the Action that created it and every write writes a value of its own, so
that a lost or misplaced write shows.  The reverse functions run inside the
handler, so that a lost outcome is never followed by a late effect.

### Abstractions

- The attempt id is drawn by the call that creates the attempt, at most once a
  call, so it is represented by the call: `Attempts` is the set of requests.
- A key stands for its hash and the fingerprint for the Action it is computed
  from; there is one scope, because every query is restricted to one.
- Times are naturals.  The store compares times as text in a format of fixed
  width, so the order of the text is the order of the times.
- Every outcome class of `operation.Outcome` that `execute` treats alike is one
  value.  Messages, notes and the columns nobody decides on are left out.
- Polling in `replay` is one step: the read that is returned.  Reading a
  `RUNNING` attempt there is the deadline of two seconds having passed.
- A guard of an `UPDATE` that no reachable state fails is kept, and proved never
  to fail where it matters (section 5).

Definitions whose comment begins with "Mutant" are small errors in the code
(a dropped guard, a swapped class, a missing row).  No specification uses them:
each shows that some property would catch the error it makes.

## 3. Properties and what they assume of the provider

`Provider` assumes what `internal/operation` and `docs/failure-model.md` ask of
an adapter: it acts on a call at most once; an answer `REVERSED` or
`PARTIALLY_REVERSED` is true; `CONFLICT`, `REVERSE_FAILED` and the classified
failures before execution mean that nothing was done; in every other case,
anything may have been done.  A lookup answers "proven not reversed" only if the
call is no longer held.  Everything else is the server's duty:

- `StatusHonest`: a status that claims an outcome is true, and `APPLIED`,
  `REVERSE_FAILED`, `EXPIRED` mean that nothing was or can still be done.
- `EffectOnce`: at most one of an Action's attempts has an effect.
- `OpenAttemptOwnsAction`, `RunningIsReversing`: attempts and statuses, updated
  by separate statements, agree as far as the next writer needs.
- `KeyBindsOneAttempt`, `RepliesRecorded`: a key never gets two attempts, and
  a client is told an outcome only of the attempt its key is bound to.
- `LateOnlyAfterReturn`, `NoBeginWhileBlocked`, `OnlyUnrecognizedStays`,
  `HistoryBalanced`, `HistoryOrder`: the window, the dependency gate, every exit
  path, the ledger and its order, each as far as the code guarantees it.  The
  window holds also when the clock is set back.
- `ClientErrorMeansUntouched`: a status line from 400 to 499 (`StatusFor`) reaches
  only clients whose request created no attempt.
- `UnknownLeavesOnEvidence`, `UnknownIsReconcilable`: racing rounds, crashes and
  recoveries leave `OUTCOME_UNKNOWN` only on recorded evidence, and whenever the
  server is quiet a round can still resolve it; the one exception is a round that
  was cut off, with the proof recorded (section 6).
- `RoundsTellTruth`: what a round answers was read in two statements, and of the
  attempt requested last; it is true of that attempt, and where it differs from
  the status another attempt explains the status.
- `EveryRequestAnswered`, `EveryRoundAnswered`, `EveryAttemptSettles`,
  `EvidenceSettles`: liveness; evidence once recorded settles the Action, also when
  the round that found it loses a race, unless a round is cut off that holds it.
- `ReceiptShowsWhatRemains`, `PlanNamesStandingBlockers`, `AppliedLateOnlyAfterReturn`:
  documents put together from reads at different times.  The first relies on the
  provider naming residue with `PARTIALLY_REVERSED`, which `operation.go:87` asks for.
- `VerifiedNeverDenied`: a verification recorded after the status has moved does
  not contradict it.
- `ImplementsContract`, `RopImplementsContract`: status and true effect of every
  Action move as `ReversalContract` allows.
- `VersionsAreHistory`, `RestoreIsExact`: a restore lowers the version, so version
  numbers are reused; the updates not undone are nevertheless always the history
  of the resource, and the version alone is a safe anchor for a restore.
- `PublishedStays`, `DeleteSparesSeenChanges`, `VerifiedMeansDone`: the irreversible
  boundary, the dependency gate seen from the data, and what a verification proves.
- `FreshPlanForetells`: a plan of an update whose basis version is the current one
  foretells the reversal's answer, although version numbers recur.
- `KeepsContract`: the reference provider, with the reduced service, implements
  `ReversalContract`, which is what `Provider` assumes of any provider.
- `VisibleCyclesRejected`, `RejectedOnlyCycles`: what remains true of `Add` when
  calls overlap and the walk is bounded: no call closes a cycle whose other
  edges were there when it began, if the walk met at most `MaxDepth + 1` Actions,
  and none is refused without a cycle.

## 4. Runs

| Run | Instance | Shows |
|---|---|---|
| `reversal_safety` | three requests, one Action with a window, one key, provider answers of every treatment, one crash, one abort | the safety invariants of the service |
| `reversal_deps` | two requests, a parent and a dependent recorded meanwhile, one key, one crash | the gate, the replies, the exit paths, until a crash the ledger; the contract; the inductive invariants of answers, reads and the history (`AccountInv`) |
| `rop_safety` | two requests, two rounds, one crash, one abort | evidence, the answers of rounds, and the contract of the whole; the inductive invariants of ownership, effects, requests and rounds (`ServerInv`) |
| `rop_liveness` | up to three calls: two racing rounds and a request, or two requests with one key and a round; one crash; answers `REVERSED`, `CONFLICT` or none | requests and rounds are answered, attempts settle, evidence settles, whichever round wins |
| `inquiry_safety` | two requests on a parent and its dependent, one inquiry of any kind, perhaps cut off, a window that ends, one crash | the documents of the read side; the invariant of what is read (`ReadersInv`) |
| `resource_api` | one resource, three updates, a notification, a publication, lost outcomes, one plan held | the reference provider's data, its contract and its plans; the inductive invariant (`ApiInv`) |
| `dependency_overlap` | three overlapping calls, five Actions, a diamond recorded beforehand, `MaxDepth` 2 | what the walk guarantees; the inductive invariant (`DependencyInv`) |
| `abort_leaves_running` and four more | the smallest instance that shows it | a divergence, section 6 |

Bounds.  Two requests reach every race of one statement of one handler with one
of another; the third adds a request that comes after a first attempt returned
the Action, while a duplicate of it is still on its way.  One Action is enough
where no property relates two; a parent and a dependent, or a key used for two
Actions, need two.  Two instants are before and at the end of the window, and
the clock moves between them in both directions.  One
crash already falls between any two statements, one abort likewise; together
they give an abort before a crash and the reverse.  A second crash during
recovery adds nothing that the inductive invariant does not cover: the proofs
have no bound.  `inquiry_safety` aborts no request: a reader cannot tell a handler
that is gone from one that still waits.  With `CONFLICT` and with
`RETRYABLE` alike `execute` gives the Action back, and it treats `OUTCOME_UNKNOWN` as a
timeout, so that no run needs both of each (`CoreAnswers`, `SomeAnswers`).  The code's `maxDepth` of 64 is a constant of
`Dependency`; with 2 in its place five Actions reach it.  One inquiry is enough
because inquiries share nothing but the sweep, whose race with a request is the
same.  One plan held is enough because a property speaks of one plan.  Three updates
give a history in which one is restored, another written at the same version and
a third on top; resources do not share rows, so that one is enough.  Requests, calls
and rounds are symmetric; no `CHOOSE` or order distinguishes them except
`TrueEffect`, where `EffectOnce` leaves one candidate.  `rop_liveness`
uses no symmetry, which would be unsound there.  Its specification `FewSpec` (module
`MCRop`) is `FairSpec` with a bound on what arrives: three calls of the four
(`MaxCalls`), and once a crash has happened one request with both rounds or two
requests alone (`FewCalls`).  Two rounds therefore race over one attempt, before
and after the crash, and two requests race beside a round.  The mutants of
`EveryRoundAnswered` and `EvidenceSettles` go wrong only when two rounds race.  The first request
to arrive is named `r1` and the first round `c1` (`NamedInTurn`): calls of a kind are
interchangeable, so that every behaviour is a renaming of one of these.  Only arrivals
are bounded, of which no fairness is asked.

Fairness.  `FairSpec` (module `Rop`) asks for weak fairness of each handler's next
statement, of each round's and of each statement of recovery.  A handler runs in a
goroutine of its own that the scheduler does not starve; a statement returns; an
adapter has a transport timeout (`ProviderTimeout` is always enabled while a
handler waits), and the polling of `replay` ends after two seconds.  Nothing is
asked of the provider, of new requests, of time or of a crash; after a crash the
process is restarted, which is fairness of `Recover`.  Aborts are left out of the
liveness run: an aborted handler leaves its attempt `RUNNING` until the next
restart (section 6); an outcome that `execute` does not know does too, and is
left out for the same reason.

## 5. Proofs

TLAPS proves the following for any sets of requests, Actions, keys, rounds and inquiries, any
windows, edges, answers and bounds.  The assumptions are those that the modules
declare: `NoneAssumption` (the null value is no id and no status),
`AnswersAssumption` (the provider's answers are among those of `operation.Outcome`),
`ExpiresAtAssumption`, `EdgesAssumption`, `BoundsAssumption` (the constants have
their types), and for the other two components `KindsAssumption` and
`ScopeAssumption` (kinds of Actions are disjoint; the scope is finite).  TLC evaluates
each of them in a run.

### One attempt, one effect, one truth

| Module | Theorem | Statement |
|---|---|---|
| `Reversal_proofs` | `Inductive` | `Spec => []IInv` |
| | `TypeCorrect` | `Spec => []TypeOK` |
| | `RunningParkable` | `Spec => []RunningIsReversing` |
| | `OneOpenAttempt` | `Spec => []OpenAttemptOwnsAction` |
| `Effect_proofs` | `EffectInductive` | `Spec => [](IInv /\ EffectInv)` |
| | `HonestStatus` | `Spec => []StatusHonest` |
| | `ReversedOnce` | `Spec => []EffectOnce` |
| | `ServiceImplementsContract` | `Spec => ImplementsContract` |

`TypeOK` is not inductive: a handler reads its locals at labels that an earlier
step filled, so `TypeInv` adds `LocalsFit` (at `expired` there is a row being
expired, at `record` an outcome) and that a stored attempt names an Action.

`OpenAttemptOwnsAction` is not inductive either.  Its open attempts are those the
unique index sees.  Between `RecordAttempt` and `RecordStatus` an attempt is
concluded, the index would admit another, and only the status `REVERSING`
keeps others out.  `BusyInv` therefore extends ownership to that interval
(`Busy`), and `OwnsAttempt` ties each handler after Transaction A to the attempt
it created and, at `status`, to a `REVERSING` Action.  `RunningIsReversing` is
what recovery needs, and `RecoveryInv` says that recovery works while no handler
does and that what it has still to park is open.

`OwnsAttempt` also shows that the compare-and-set of `execute` never fails: the
refusal in `RecordStatus` is in the model because it is in the code, and no state
reaches it.  `RunningIsReversing` shows the same of the one in `RecoverStatus`.

`StatusHonest` and `EffectOnce` need more, because the provider may act when
nobody waits any longer.  `OneActor` is the core of `EffectInv`: of the attempts of
an Action at most one *may act* (it is busy, its call is still held, or it had its
effect), and while there is one the Action is neither `APPLIED` nor failed.
`RowInv`, `CallInv` and `OutcomeInv` say, label by label, what the row, the call and
the answer of a handler's attempt are; an answer that says "nothing was done" means
that its attempt has stopped being an actor before the Action is given back.

The refinement maps the provider's effects to one truth per Action (`TrueEffect`,
a `CHOOSE` that `OneActor` makes unique).  `ProviderActs`, `Begin`, `SweepExpire`,
`RecordStatus` and `RecoverStatus` are the contract's steps, all others stutter.

### Keys, answers, the window and the gate

| Module | Theorem | Statement |
|---|---|---|
| `Service_proofs` | `AnswerInductive` | `Spec => [](IInv /\ EffectInv /\ AnswerInv)` |
| | `KeyOnce` | `Spec => []KeyBindsOneAttempt` |
| | `ToldIsRecorded` | `Spec => []RepliesRecorded` |
| | `BlamedIsUntouched` | `Spec => []ClientErrorMeansUntouched` |
| | `WindowInductive` | `Spec => [](IInv /\ EffectInv /\ WindowInv)` |
| | `NoLateAttempt` | `Spec => []LateOnlyAfterReturn` |
| | `BlockedNeverBegins` | `Spec => NoBeginWhileBlocked` |
| | `OnlyUnknownStays` | `Spec => []OnlyUnrecognizedStays` |

`KeyInv` says that key record and attempt name each other, in both directions:
Transaction A writes them together, and no step rebinds either.  `ReplayInv`
carries what a replay has read across the statements up to its answer; the result
of a concluded attempt never changes, so it is still recorded when it is told.
For the window, `SweepInv` says why a late request cannot find its Action `APPLIED`:
its own sweep has still to expire it, or a failure gave the Action back after that
sweep (the exception in the property, and the run `conflict_reopens_window`).
`BlockInv` uses that a resolved status is final, `StayInv` follows a handler out of
`execute` by every exit.

### The history

| Module | Theorem | Statement |
|---|---|---|
| `History_proofs` | `ServiceInductive` | `Spec => []ServiceInv` |
| | `AccountsAgree` | `Spec => []AccountInv` |
| | `HistoryTellsOrder` | `Spec => []HistoryOrder` |
| | `HistoryIsLedger` | `Spec => []HistoryBalanced` |

`ServiceInv` joins `IInv` and `EffectInv` with `AccountInv`: `AnswerInv`, `WindowInv`
and `HistoryInv`. The last is needed because neither property is inductive: both
count rows, and a row is inserted by a statement of its own, some time after the
update it records, by whichever handler made the update. `CountInv` counts the rows
of an Action against its attempts instead of against each other. Transaction A
inserts a row into `REVERSING` with each attempt (`Begun`); a row that gives the
Action back is inserted together with the answer that says so (`Returned`). The
prefix of an order and the total of a ledger then follow from sets of attempts: a row
out of `REVERSING` is owed by an attempt that has its row in and not yet its row back
(`OrderStep`). `FinalInv` says that the row into a status an Action never leaves by a
request is owed by one writer only, and that a recorded one means that the status is
settled, so no row into `REVERSING` comes after it; `OneParked` says the same of
recovery, which works on one attempt at a time. A crash loses an owed row and so
keeps the order. For the ledger, `BalanceInv` says, until something is cut off, which
attempts have no row back (`Unreturned`: none of an `APPLIED` Action, exactly one of
one that was taken and kept) and that the row into its settled status is there or
owed. No induction on the sequence is needed: a step appends one row to it or none
(`RowsAppended`, `OrderAppended`).

### Receipts, plans and verifications beside requests

| Module | Theorem | Statement |
|---|---|---|
| `Inquiry_proofs` | `InquiryInductive` | `InquirySpec => []InquiryInv` |
| | `ReadersInformed` | `InquirySpec => []ReadersInv` |
| | `InquiryTypeCorrect` | `InquirySpec => []InquiryTypeOK` |
| | `ReceiptsAreWhole` | `InquirySpec => []ReceiptShowsWhatRemains` |
| | `PlansAreStanding` | `InquirySpec => []PlanNamesStandingBlockers` |
| | `LateIsNeverApplied` | `InquirySpec => []AppliedLateOnlyAfterReturn` |
| | `VerifiedIsHonest` | `InquirySpec => []VerifiedNeverDenied` |
| | `InquiriesKeepContract` | `InquirySpec => ImplementsContract` |
| | `InquiriesKeepHonesty` | `InquirySpec => [](StatusHonest /\ EffectOnce)` |
| | `PromisesBesideInquiries` | `InquirySpec => [](` the promises to requests listed above `)` |

A document is put together from statements between which anything may happen, so
`ReadersInv` says of each label that what was read is still good (`ReaderInv`). It is
inductive together with the service's `IInv`, `EffectInv`, `AnswerInv` and
`WindowInv`: that is `InquiryInv`. Each part rests on something that does not come
undone: `PARTIALLY_REVERSED` is final and its residue was recorded first
(`ReceiptInv`); a resolved dependent stays resolved (`PlanInv`); a late inquiry has
expired its Action itself or a recorded failure gave it back, and failures stay on
record (`LateInv`); an effect is never taken back (`VerdictInv`, `VerifiedInv`).
`WhatLasts` collects these facts once for all steps of the service. Inquiries write
too: their sweep expires Actions and appends rows. `ServiceMoves` reduces a step to
one of the service or one of these two (`Expiry`, `Ledger`), and `ServedStep` shows
that they leave the service's own invariants intact, hence the last three theorems.
The history is the exception: `HistoryBalanced` counts the rows that requests have
still to write, not an inquiry's.

### Rounds beside requests

| Module | Theorem | Statement |
|---|---|---|
| `Rop_proofs` | `RopInductive` | `RopSpec => []RopInv` |
| | `RopTypeCorrect` | `RopSpec => []RopTypeOK` |
| | `RopHonest` | `RopSpec => [](StatusHonest /\ EffectOnce)` |
| | `UncertainReconcilable` | `RopSpec => []UnknownIsReconcilable` |
| | `TruthTold` | `RopSpec => []RoundsTellTruth` |
| | `LeavesOnEvidence` | `RopSpec => UnknownLeavesOnEvidence` |
| | `RopKeepsContract` | `RopSpec => RopImplementsContract` |
| | `ServerInductive` | `RopSpec => []ServerInv` |
| | `PromisesBesideRounds` | `RopSpec => [](` `KeyBindsOneAttempt`, `RepliesRecorded`, `ClientErrorMeansUntouched`, `LateOnlyAfterReturn`, `OnlyUnrecognizedStays` `)` |
| | `OwnershipBesideRounds` | `RopSpec => [](RunningIsReversing /\ OpenAttemptOwnsAction)` |
| | `BlockedBesideRounds` | `RopSpec => NoBeginWhileBlocked` |

A round concludes an attempt it does not own, on the strength of a lookup made
before.  `TargetInv` is why that is safe: the attempt stays parked or is
concluded with a proved result, nobody else may act on the Action while it is
uncertain, and what the lookup proved stays true (an effect is never undone, and a
call that is gone does not come back).  `SameTarget` says that racing rounds work
on the same attempt, so that the loser of the race concludes with the winner's
result; `SettledInv`, `UncertainInv` and `ToldInv` say which attempt stands behind a
settled status, an uncertain one, and an answer already given.  What requests and
recovery do to rows and statuses is summed up in `RowsAge` and `StatusAges`, so that
each step of the service is examined once and not once per label of a round
(`RoundKept`, `ToldKept`, `RecordsKept`).  `OutcomeInv` allows a result that a
lookup has proved (`Proven`), so that the invariants of `Reversal` hold under `Rop` as
they stand and its step lemmas are used again.

The last four theorems carry what requests are promised over to the whole server.
A round writes rows that requests rely on, and `RoundTouches` sums up how: it
completes a parked attempt (`RoundKeepsRows`) and moves an uncertain status to a
settled one.  A replay, a sweep and a dependency check read nothing that this
takes back (`TouchedAnswers`, `TouchedWindow`).  `HistoryOrder` is not among them: a
round settles after recovery or a handler has written the row into
`OUTCOME_UNKNOWN`, and its own row comes after that one.

### The reference provider and the dependencies

| Module | Theorem | Statement |
|---|---|---|
| `ResourceApi_proofs` | `ApiInductive` | `Spec => []ApiInv` |
| | `HistoryOfVersions` | `Spec => []VersionsAreHistory` |
| | `VerifiedIsDone` | `Spec => []VerifiedMeansDone` |
| | `ExactRestore` | `Spec => RestoreIsExact` |
| | `PublishedForGood` | `Spec => PublishedStays` |
| | `SeenChangesSpared` | `Spec => DeleteSparesSeenChanges` |
| | `PlanForetells` | `Spec => FreshPlanForetells` |
| | `ApiKeepsContract` | `Spec => KeepsContract` |
| `Dependency_proofs` | `DependencyInductive` | `Spec => []DependencyInv` |
| | `OnlyCyclesRejected` | `Spec => []RejectedOnlyCycles` |
| | `VisibleCyclesFound` | `Spec => []VisibleCyclesRejected` |
| | `NoCycleAlone` | `Spec => []NoCycleRecorded`, if calls do not overlap and the bound covers the scope |

`HistoryInv` of `ResourceApi_proofs` is what makes reused version numbers safe: the updates not undone have
the expected versions `2 .. version`, each once (a count, and no two equal).  A
restore whose guard holds therefore takes away the last one.  `GateInv` carries the
dependents a request has read to its deletion, `PlanInv` a plan to its reversal, and
`StageInv` effects and answers to the status.

`DependencyInv` says of a walk what it has met (`WalkedInv`: ancestors only), what it
has expanded (`ExpandedInv`) and that each query popped one Action (`CountInv`), which
ties the bound on queries to the number of Actions met.  Ancestry is the least set
closed under "parent of" (`AncestorsIn`), defined without recursion.  `NoCycleAlone`
has hypotheses on the constants: it says that overlap and the bound are the
*only* ways to record a cycle, and the run `overlap_closes_cycle` shows that overlap
is one.  Its last step is that an edge closes a cycle only where its dependent is
already an ancestor of its parent.

### What stays with TLC

Every invariant and every action property of the passing runs is a theorem above.
The four liveness properties of `rop_liveness` (`EveryRequestAnswered`,
`EveryAttemptSettles`, `EveryRoundAnswered`, `EvidenceSettles`) are model-checked only:
they rest on fairness and so on `ENABLED`, which the prover does not handle.  That
the runs with a divergence find one is TLC's by nature.

## 6. Where the code and its documents disagree

Shown by a run (`PROJECT.json`, `findings`):

| Run | What happens |
|---|---|
| `abort_leaves_running` | a cancelled or failing statement after Transaction A leaves the attempt `RUNNING` in a live server; so does an outcome that `execute` does not know (`service.go:383`), which `OnlyUnrecognizedStays` allows and nothing else |
| `crash_leaves_reversing` | a crash between concluding the attempt and moving the Action leaves it `REVERSING` for good |
| `conflict_reopens_window` | a request after the window is accepted when an earlier attempt gave the Action back after its sweep |
| `overlap_closes_cycle` | two overlapping `Add`s record a cycle |
| `late_update_is_lost` | an update that commits after the dependency check is deleted with its resource |

Seen while modelling, part of the model, without a run of their own:

- The same gap in the service: a dependency recorded between the check
  (`service.go:108`) and Transaction A is not seen, while `spec/core.md:255-257` says
  that one created after planning still blocks.  `NoBeginWhileBlocked` therefore
  speaks of the dependents that the request has read.
- `reachable` returns false when it has made 65 queries and the stack is not empty
  (`internal/dependency/service.go:86`), so that an edge that closes a chain of more
  Actions is recorded, while `spec/core.md:250` rejects every cycle.
- A duplicate with the same key that meets an Action no longer `APPLIED` inside
  Transaction A gets an internal error (`service.go:160`), not the replay
  announced at `service.go:130-131`.
- A failure to read the key record after a lost race (`service.go:194-196`) is taken for
  "no record" and answered `IN_PROGRESS`; the model counts it among the aborts.
- `replay` reads attempt and Action in two statements (`service.go:209-232`) and may
  answer the result `REVERSED` with the status `REVERSING`.
- `UpdateStatus` outside a transaction loses the history row when the process dies
  between its statements (`internal/store/actions.go:202-215`).
- A crash or an abort between the two updates of a round
  (`internal/reconciliation/service.go:125-129`) leaves the Action `OUTCOME_UNKNOWN`
  with a concluded attempt; a later round takes the replay path and repairs
  nothing, while `docs/failure-model.md:172` says that every crash leaves a state
  recovery can classify.  It is the exception in `UnknownIsReconcilable` and in
  `EvidenceSettles`.
- A crash or an abort of a handler between `MarkAwaitingReconciliation` and
  `UpdateStatus` (`service.go:302` and `305`, `375` and `378`), or of recovery between the
  same two (`service.go:480` and `483`), leaves the Action `REVERSING` with a parked
  attempt.  Recovery looks only for `RUNNING` attempts, and a round that finds a parked attempt
  on an Action that is not `OUTCOME_UNKNOWN` ends in an internal error, so the Action
  stays there for good.  It is the twin of the run `crash_leaves_reversing`, where the
  attempt is concluded; the document's projection ("exists a non-concluded attempt")
  holds here, so that `ReversingHasOpenAttempt` does not show it.  The theorems allow any number
  of crashes: the stuck attempt keeps its Action and the status contradicts nothing.
- A round that finds no open attempt replays the one requested last
  (`internal/store/attempts.go:205`), which need not be the one that settled the
  Action: it may answer the outcome `CONFLICT` with the status `REVERSED`, or, as it
  reads attempt and Action separately, `OUTCOME_UNKNOWN` with `REVERSED`.
  `RoundsTellTruth` says how far such answers are true.
- Two calls whose sweeps select the same Action: the slower one's `UpdateStatus`
  is refused and the call, be it a read or a request on another Action, ends in an
  internal error (`internal/store/actions.go:298-303`).
- The planner's comment has declared residue "merged into the plan"
  (`internal/planner/service.go:81-82`); line 111 replaces it with the plan
  function's, even by none.
- `docs/architecture.md:236-237` has a reversal conflict when the resource's version
  is not the plan's basis.  No plan is kept or compared: an update planned at a
  later version is reversed once the later updates are, and the plan's text
  "reversal will conflict" (`resourceapi.go:537`) is then not fulfilled.
- The basis version of a create's plan may recur: planned at version 2,
  after an update, then the update reversed and the resource published, it is at
  version 2 again and the deletion that the plan foresaw is refused.  Hence `FreshPlanForetells` speaks
  of updates.
- `docs/failure-model.md:107-109` has a restarted execution re-enter; `RecoverAll`
  parks it as `AWAITING_RECONCILIATION`.

## 7. Not modelled

Authorization and the capability checks reject before the first write and keep
nothing.  The rest of the HTTP binding, `ropctl`, the wire types, row scanning and
message wording have no state; the registry of operations is filled before the
server starts.  Of the reference provider, the HTTP handlers and the residue
declared with a notification are left out (`Inquiry` has declared residue).
Migrations run once before anything else.  `ropd` wires no reconciliation service:
`Rop` composes what a host may.  `Inquiry` is composed with requests, not with
rounds; a round never makes an Action `PARTIALLY_REVERSED` or `APPLIED`.

## 8. Plan

1. `ResourceApi` over `Reversal` itself instead of the reduced service.
2. Inquiries beside reconciliation rounds, and a history that counts the rows of
   both.
