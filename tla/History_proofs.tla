--------------------------- MODULE History_proofs ---------------------------
(***************************************************************************)
(* Theorems about the history of an Action: rows are inserted after the    *)
(* updates they record, by whichever handler made them, and still tell the *)
(* order of what happened; while nothing crashes or aborts none is lost.   *)
(*                                                                         *)
(* The rows are counted against the attempts: a row into REVERSING for     *)
(* every attempt begun, a row back to APPLIED for every one that ended so. *)
(***************************************************************************)
EXTENDS Service_proofs, FiniteSetTheorems

USE DEF Requests

BeginRow  == <<"APPLIED", "REVERSING">>
ReturnRow == <<"REVERSING", "APPLIED">>
Settled(s) == s \notin {"APPLIED", "REVERSING"}

\* The rows of an Action that record a transition, by their numbers.
RowsOf(a, row) == {m \in 1..Len(history[a]) : history[a][m] = row}
HasFinalRow(a) == \E n \in 1..Len(history[a]) : Settled(history[a][n][2])

\* The attempts on an Action, those whose row back to APPLIED is inserted, and
\* those whose handler has still to insert it.
AllBegun    == {t \in Attempts : attempts[t].state # "NONE"}
Begun(a)    == {t \in AllBegun : attempts[t].action = a}
ToldApplied(t) ==
  reply[t].kind = "RESULT" /\ reply[t].attempt = t /\ reply[t].status = "APPLIED"
Returned(a) == {t \in Begun(a) : ToldApplied(t)}
Returning(a) == {t \in Attempts : /\ pc[t] = "history" /\ A(t) = a
                                  /\ StatusAfter(frame[t].outcome) = "APPLIED"}

\* A handler, or recovery, that has still to insert the row into a status that
\* an Action does not leave.
OwesFinal(r, a) ==
  \/ pc[r] = "history" /\ A(r) = a /\ StatusAfter(frame[r].outcome) # "APPLIED"
  \/ pc[r] = "expired" /\ frame[r].cur = a
OwedStatus(r) == IF pc[r] = "expired" THEN "EXPIRED" ELSE StatusAfter(frame[r].outcome)
BootOwes(a) ==
  boot = "history" /\ \E t \in parking \ RunningAttempts : attempts[t].action = a

\* Transitions between APPLIED and REVERSING are on record as attempts.
CountInv ==
  /\ IsFiniteSet(AllBegun)
  /\ \A r \in Requests : pc[r] = "history" => r \in AllBegun
  /\ \A a \in Actions : /\ Cardinality(RowsOf(a, BeginRow)) = Cardinality(Begun(a))
                        /\ Cardinality(RowsOf(a, ReturnRow)) = Cardinality(Returned(a))
                        /\ \A t \in Returned(a) : attempts[t].state = "CONCLUDED"

\* A final row is the last but for returns, and one writer owes it.
FinalInv(a) ==
  /\ HasFinalRow(a) => Settled(status[a])
  /\ \A r \in Requests : OwesFinal(r, a) =>
       /\ status[a] = OwedStatus(r) /\ ~ HasFinalRow(a)
       /\ \A s \in Requests : OwesFinal(s, a) => s = r
  /\ BootOwes(a) => Settled(status[a]) /\ ~ HasFinalRow(a)

\* Recovery works on one attempt at a time, and only after a crash.
OneParked ==
  /\ boot = "mark" => parking \subseteq RunningAttempts
  /\ boot \in {"status", "history"} => \E t \in Attempts : parking \ RunningAttempts = {t}
  /\ crashes = 0 => boot = "up"

\* While nothing is cut off: the attempts whose return is not on record or due
\* to be, and the row that records the status an Action has settled in.
Unreturned(a) == Begun(a) \ (Returned(a) \cup Returning(a))
FinalRow(s) == <<IF s = "EXPIRED" THEN "APPLIED" ELSE "REVERSING", s>>
RowShown(a) ==
  \/ \E n \in 1..Len(history[a]) : history[a][n] = FinalRow(status[a])
  \/ \E r \in Requests : OwesFinal(r, a)
BalanceInv(a) ==
  crashes + aborts = 0 =>
    /\ status[a] \in {"APPLIED", "EXPIRED"} => Unreturned(a) = {}
    /\ status[a] \notin {"APPLIED", "EXPIRED", "IRREVERSIBLE"} =>
         \E t \in Attempts : Unreturned(a) = {t}
    /\ status[a] \notin {"APPLIED", "REVERSING", "IRREVERSIBLE"} => RowShown(a)

HistoryInv == /\ CountInv /\ OneParked
              /\ \A a \in Actions : FinalInv(a) /\ BalanceInv(a)
              /\ HistoryOrder

-----------------------------------------------------------------------------
(* What inserting one row does to the history. *)

\* The rows of an Action are finitely many, each with a number.
LEMMA RowsCounted ==
  ASSUME IInv, NEW a \in Actions, NEW row
  PROVE  /\ Len(history[a]) \in Nat /\ history[a] \in Seq(Statuses \X Statuses)
         /\ RowsOf(a, row) \subseteq 1..Len(history[a])
         /\ IsFiniteSet(RowsOf(a, row)) /\ Cardinality(RowsOf(a, row)) \in Nat
<1>1. history[a] \in Seq(Statuses \X Statuses) /\ Len(history[a]) \in Nat
  BY DEF IInv, TypeInv, StoreOK, StoreTypeOK
<1>2. RowsOf(a, row) \subseteq 1..Len(history[a])
  BY DEF RowsOf
<1>3. IsFiniteSet(1..Len(history[a]))
  BY <1>1, FS_Interval
<1>4. IsFiniteSet(RowsOf(a, row))
  BY <1>2, <1>3, FS_Subset
<1> QED
  BY <1>1, <1>2, <1>4, FS_CardinalityType

\* The INSERT appends one row to the history of its Action.
LEMMA Appended ==
  ASSUME IInv, NEW a \in Actions, NEW from \in Statuses, NEW to \in Statuses,
         AppendHistory(a, from, to)
  PROVE  /\ Len(history'[a]) = Len(history[a]) + 1
         /\ history'[a][Len(history[a]) + 1] = <<from, to>>
         /\ \A n \in 1..Len(history[a]) : history'[a][n] = history[a][n]
         /\ \A b \in Actions \ {a} : history'[b] = history[b]
<1>1. history \in [Actions -> Seq(Statuses \X Statuses)]
  BY DEF IInv, TypeInv, StoreOK, StoreTypeOK
<1>2. /\ history'[a] = Append(history[a], <<from, to>>)
      /\ \A b \in Actions \ {a} : history'[b] = history[b]
  BY <1>1 DEF AppendHistory
<1>3. history[a] \in Seq(Statuses \X Statuses) /\ <<from, to>> \in Statuses \X Statuses
  BY <1>1
<1> QED
  BY <1>2, <1>3

\* It counts for its own transition only.
LEMMA RowsAppended ==
  ASSUME IInv, NEW a \in Actions, NEW from \in Statuses, NEW to \in Statuses,
         AppendHistory(a, from, to), NEW row
  PROVE  /\ Cardinality(RowsOf(a, row)') =
              IF row = <<from, to>> THEN Cardinality(RowsOf(a, row)) + 1
              ELSE Cardinality(RowsOf(a, row))
         /\ \A b \in Actions \ {a} : RowsOf(b, row)' = RowsOf(b, row)
         /\ HasFinalRow(a)' <=> HasFinalRow(a) \/ Settled(to)
         /\ \A b \in Actions \ {a} : HasFinalRow(b)' <=> HasFinalRow(b)
<1> DEFINE n == Len(history[a]) + 1
<1>1. /\ Len(history[a]) \in Nat /\ RowsOf(a, row) \subseteq 1..Len(history[a])
      /\ IsFiniteSet(RowsOf(a, row))
  BY RowsCounted
<1>2. /\ Len(history'[a]) = n /\ history'[a][n] = <<from, to>>
      /\ \A m \in 1..Len(history[a]) : history'[a][m] = history[a][m]
      /\ \A b \in Actions \ {a} : history'[b] = history[b]
  BY Appended
<1>3. \A m : m \in 1..n <=> m = n \/ m \in 1..Len(history[a])
  BY <1>1
<1>4. row = <<from, to>> => RowsOf(a, row)' = RowsOf(a, row) \cup {n}
  BY <1>1, <1>2, <1>3 DEF RowsOf
<1>5. row # <<from, to>> => RowsOf(a, row)' = RowsOf(a, row)
  BY <1>1, <1>2, <1>3 DEF RowsOf
<1>6. n \notin RowsOf(a, row)
  BY <1>1
<1>7. Cardinality(RowsOf(a, row) \cup {n}) = Cardinality(RowsOf(a, row)) + 1
  BY <1>1, <1>6, FS_AddElement
<1>8. HasFinalRow(a)' <=> HasFinalRow(a) \/ Settled(to)
  <2>1. <<from, to>>[2] = to
    OBVIOUS
  <2>2. Settled(history'[a][n][2]) <=> Settled(to)
    BY <1>2, <2>1 DEF Settled
  <2>3. \A m \in 1..Len(history[a]) :
          Settled(history'[a][m][2]) <=> Settled(history[a][m][2])
    BY <1>2 DEF Settled
  <2>4. HasFinalRow(a)' <=> \E m \in 1..n : Settled(history'[a][m][2])
    BY <1>2 DEF HasFinalRow, Settled
  <2> HIDE DEF n
  <2> QED
    BY <1>3, <2>2, <2>3, <2>4 DEF HasFinalRow
<1>9. \A b \in Actions \ {a} : /\ RowsOf(b, row)' = RowsOf(b, row)
                               /\ HasFinalRow(b)' <=> HasFinalRow(b)
  BY <1>2 DEF RowsOf, HasFinalRow
<1> HIDE DEF n
<1>10. Cardinality(RowsOf(a, row)') =
         IF row = <<from, to>> THEN Cardinality(RowsOf(a, row)) + 1
         ELSE Cardinality(RowsOf(a, row))
  BY <1>4, <1>5, <1>7
<1> QED
  BY <1>8, <1>9, <1>10

\* The order of the rows is kept by a row that may come next: one out of
\* REVERSING has an unmatched row into it, and after a final row comes a return.
LEMMA OrderAppended ==
  ASSUME IInv, HistoryOrder, NEW a \in Actions, NEW from \in Statuses,
         NEW to \in Statuses, AppendHistory(a, from, to),
         from = "REVERSING" => Cardinality(RowsOf(a, ReturnRow))
                                 < Cardinality(RowsOf(a, BeginRow)),
         HasFinalRow(a) => <<from, to>> = ReturnRow
  PROVE  HistoryOrder'
<1> DEFINE L == Len(history[a])
           upto(h, n, row) == {m \in 1..n : h[m] = row}
<1>1. L \in Nat
  BY RowsCounted
<1>2. /\ Len(history'[a]) = L + 1 /\ history'[a][L + 1] = <<from, to>>
      /\ \A m \in 1..L : history'[a][m] = history[a][m]
      /\ \A b \in Actions \ {a} : history'[b] = history[b]
  BY Appended
<1>3. ASSUME NEW n \in 1..L
      PROVE  /\ upto(history'[a], n, BeginRow) = upto(history[a], n, BeginRow)
             /\ upto(history'[a], n - 1, ReturnRow) = upto(history[a], n - 1, ReturnRow)
  <2>1. 1..n \subseteq 1..L /\ 1..(n - 1) \subseteq 1..L
    BY <1>1
  <2> QED
    BY <1>2, <2>1
<1>4. \A b \in Actions : \A n \in 1..Len(history[b]) :
        /\ history[b][n][1] = "REVERSING" =>
             Cardinality(upto(history[b], n - 1, ReturnRow))
               < Cardinality(upto(history[b], n, BeginRow))
        /\ history[b][n][2] \notin {"APPLIED", "REVERSING"} =>
             \A m \in n + 1..Len(history[b]) : history[b][m] = ReturnRow
  BY DEF HistoryOrder, BeginRow, ReturnRow
<1>5. \A n \in 1..L :
        history'[a][n][1] = "REVERSING" =>
          Cardinality(upto(history'[a], n - 1, ReturnRow))
            < Cardinality(upto(history'[a], n, BeginRow))
  BY <1>2, <1>3, <1>4
<1>6. from = "REVERSING" =>
        Cardinality(upto(history'[a], L, ReturnRow))
          < Cardinality(upto(history'[a], L + 1, BeginRow))
  <2> SUFFICES ASSUME from = "REVERSING"
               PROVE  Cardinality(upto(history'[a], L, ReturnRow))
                        < Cardinality(upto(history'[a], L + 1, BeginRow))
    OBVIOUS
  <2>1. upto(history'[a], L, ReturnRow) = RowsOf(a, ReturnRow)
    BY <1>2 DEF RowsOf
  <2>2. \A m : m \in 1..(L + 1) <=> m = L + 1 \/ m \in 1..L
    BY <1>1
  <2>3. history'[a][L + 1] # BeginRow
    BY <1>2 DEF BeginRow
  <2>4. upto(history'[a], L + 1, BeginRow) = RowsOf(a, BeginRow)
    BY <1>2, <2>2, <2>3 DEF RowsOf
  <2> QED
    BY <2>1, <2>4
<1>7. \A n \in 1..(L + 1) : history'[a][n][2] \notin {"APPLIED", "REVERSING"} =>
        \A m \in n + 1..L + 1 : history'[a][m] = ReturnRow
  <2> SUFFICES ASSUME NEW n \in 1..(L + 1), NEW m \in n + 1..L + 1,
                      history'[a][n][2] \notin {"APPLIED", "REVERSING"}
               PROVE  history'[a][m] = ReturnRow
    OBVIOUS
  <2>1. n \in 1..L /\ m \in 1..(L + 1) /\ (m # L + 1 => m \in n + 1..L /\ m \in 1..L)
    BY <1>1
  <2>2. history[a][n][2] \notin {"APPLIED", "REVERSING"}
    BY <1>2, <2>1
  <2>3. HasFinalRow(a)
    BY <2>1, <2>2 DEF HasFinalRow, Settled
  <2> QED
    BY <1>2, <1>4, <2>1, <2>2, <2>3
<1>8. \A n \in 1..(L + 1) :
        history'[a][n][1] = "REVERSING" =>
          Cardinality(upto(history'[a], n - 1, ReturnRow))
            < Cardinality(upto(history'[a], n, BeginRow))
  <2> SUFFICES ASSUME NEW n \in 1..(L + 1), history'[a][n][1] = "REVERSING"
               PROVE  Cardinality(upto(history'[a], n - 1, ReturnRow))
                        < Cardinality(upto(history'[a], n, BeginRow))
    OBVIOUS
  <2>1. n \in 1..L \/ (n = L + 1 /\ n - 1 = L)
    BY <1>1
  <2>2. CASE n = L + 1 /\ n - 1 = L
    <3>1. from = "REVERSING"
      BY <1>2, <2>2
    <3> QED
      BY <1>6, <2>2, <3>1
  <2> QED
    BY <1>5, <2>1, <2>2
<1>9. \A b \in Actions :
        LET h == history'[b] IN
        \A n \in 1..Len(h) :
          /\ h[n][1] = "REVERSING" =>
               Cardinality(upto(h, n - 1, ReturnRow)) < Cardinality(upto(h, n, BeginRow))
          /\ h[n][2] \notin {"APPLIED", "REVERSING"} =>
               \A m \in n + 1..Len(h) : h[m] = ReturnRow
  <2> SUFFICES ASSUME NEW b \in Actions
               PROVE  LET h == history'[b] IN
                      \A n \in 1..Len(h) :
                        /\ h[n][1] = "REVERSING" =>
                             Cardinality(upto(h, n - 1, ReturnRow))
                               < Cardinality(upto(h, n, BeginRow))
                        /\ h[n][2] \notin {"APPLIED", "REVERSING"} =>
                             \A m \in n + 1..Len(h) : h[m] = ReturnRow
    OBVIOUS
  <2>1. CASE b = a
    BY <1>2, <1>7, <1>8, <2>1
  <2>2. CASE b # a
    <3>1. history'[b] = history[b]
      BY <1>2, <2>2
    <3> QED
      BY <1>4, <3>1
  <2> QED
    BY <2>1, <2>2
<1> QED
  BY <1>9 DEF HistoryOrder, BeginRow, ReturnRow

-----------------------------------------------------------------------------
(* How the ledger's parts move. *)

\* Rows are inserted by the sweep, Transaction A, the end of execute and
\* recovery.
LEMMA HistoryWriters ==
  ASSUME [Next]_vars
  PROVE  \/ history' = history
         \/ \E r \in Requests : SweepHistory(r) \/ Begin(r) \/ RecordHistory(r)
         \/ \E t \in Attempts : RecoverHistory(t)
  BY DEF Next, Handle, Arrive, SweepSelect, SweepExpire, LookupKey, Converge,
     ReadAction, ReadEdges, CheckDependent, BeginRefused, CallProvider, ProviderActs,
     ReceiveAnswer, ProviderTimeout, RecordResidue, RecordAttempt, RecordStatus,
     PollAttempt, ProjectAction, Abort, Crash, Recover, RecoverScan, RecoverMark,
     RecoverStatus, Tick, AddDependency, AllAnswered, vars, tables

\* Only Transaction A begins an attempt.
LEMMA BegunMoves ==
  ASSUME IInv, EffectInv, [Next]_vars
  PROVE  /\ (\A r \in Requests : ~ Begin(r)) =>
              AllBegun' = AllBegun /\ \A a \in Actions : Begun(a)' = Begun(a)
         /\ \A r \in Requests : Begin(r) =>
              /\ r \notin AllBegun /\ AllBegun' = AllBegun \cup {r}
              /\ A(r) \in Actions
              /\ \A a \in Actions :
                   Begun(a)' = IF a = A(r) THEN Begun(a) \cup {r} ELSE Begun(a)
<1>1. \A t \in Attempts :
        /\ attempts[t].state # "NONE" =>
             attempts'[t].state # "NONE" /\ attempts'[t].action = attempts[t].action
        /\ attempts[t].state = "NONE" => attempts'[t] = attempts[t] \/ Begin(t)
  BY RowsStable
<1>2. (\A r \in Requests : ~ Begin(r)) =>
        AllBegun' = AllBegun /\ \A a \in Actions : Begun(a)' = Begun(a)
  BY <1>1 DEF AllBegun, Begun
<1>3. ASSUME NEW r \in Requests, Begin(r)
      PROVE  /\ r \notin AllBegun /\ AllBegun' = AllBegun \cup {r}
             /\ A(r) \in Actions
             /\ \A a \in Actions :
                  Begun(a)' = IF a = A(r) THEN Begun(a) \cup {r} ELSE Begun(a)
  <2>1. attempts[r].state = "NONE" /\ A(r) \in Actions
    BY <1>3 DEF Begin, EffectInv, LocalInv, RowInv, Fresh, PCs, Working, IInv, TypeInv,
       HandlersOK, LocalsFit, A
  <2>2. /\ attempts'[r].state = "RUNNING" /\ attempts'[r].action = A(r)
        /\ \A t \in Attempts \ {r} : attempts'[t] = attempts[t]
    BY <1>3 DEF Begin, CreateAttempt, IInv, TypeInv, StoreOK, StoreTypeOK
  <2> QED
    BY <2>1, <2>2 DEF AllBegun, Begun
<1> QED
  BY <1>2, <1>3

\* Only the end of execute tells a client that its own attempt gave the Action
\* back, and it does so once.
LEMMA ToldMoves ==
  ASSUME IInv, EffectInv, AnswerInv, [Next]_vars, NEW t \in Requests
  PROVE  /\ pc[t] # "done" => ~ ToldApplied(t)
         /\ ToldApplied(t)' <=>
              \/ ToldApplied(t)
              \/ RecordHistory(t) /\ StatusAfter(frame[t].outcome) = "APPLIED"
<1>1. pc[t] # "done" => ~ ToldApplied(t)
  BY DEF AnswerInv, ReplyInv, ToldApplied
<1>2. /\ HandlersOK /\ reply \in [Requests -> Replies] /\ pc \in [Requests -> PCs]
      /\ None \notin Attempts
  BY NoneAssumption DEF IInv, TypeInv, HandlersOK, HandlerTypeOK
<1>3. RecordHistory(t) =>
        /\ pc[t] = "history" /\ pc'[t] = "done"
        /\ ToldApplied(t)' <=> StatusAfter(frame[t].outcome) = "APPLIED"
  BY <1>2 DEF RecordHistory, Respond, Goto, ToldApplied
<1>4. ASSUME Arrive(t) \/ Handle(t) \/ Abort(t), ~ RecordHistory(t)
      PROVE  ~ ToldApplied(t)'
  <2>1. pc[t] # "done"
    BY <1>4, HowItAnswers
  <2>2. CASE \E label, locals : Step(t, label, locals)
    BY <1>1, <2>1, <2>2 DEF Step, ToldApplied
  <2>3. CASE \E kind \in ReplyKinds : Respond(t, Problem(kind))
    BY <1>2, <2>3 DEF Respond, Problem, ToldApplied
  <2>4. CASE ProjectAction(t)
    <3>1. frame[t].target # t
      BY <2>4 DEF ProjectAction, AnswerInv, ReplayInv, EffectInv, LocalInv, RowInv,
         Fresh, PCs, Working
    <3> QED
      BY <1>2, <2>4, <3>1 DEF ProjectAction, Respond, ToldApplied
  <2> QED
    BY <1>4, <2>2, <2>3, <2>4, HowItAnswers
<1>5. CASE \E r \in Requests : Arrive(r) \/ Handle(r) \/ Abort(r)
  <2>1. PICK r \in Requests : Arrive(r) \/ Handle(r) \/ Abort(r)
    BY <1>5
  <2>2. CASE r = t
    <3>1. pc[t] # "done"
      BY <2>1, <2>2, HowItAnswers
    <3> QED
      BY <1>1, <1>3, <1>4, <2>1, <2>2, <3>1
  <2>3. CASE r # t
    <3>1. reply'[t] = reply[t] /\ pc'[t] = pc[t]
      BY <1>2, <2>1, <2>3, OneHandlerMoves
    <3> QED
      BY <1>1, <1>3, <3>1 DEF ToldApplied
  <2> QED
    BY <2>2, <2>3
<1>6. CASE UNCHANGED handlers
  BY <1>1, <1>3, <1>6 DEF handlers, ToldApplied
<1>7. CASE Crash
  <2>1. /\ InFlight(t) => reply'[t].kind = "LOST"
        /\ ~ InFlight(t) => reply'[t] = reply[t]
    BY <1>7 DEF Crash, Problem
  <2>2. RecordHistory(t) => InFlight(t) /\ reply'[t].kind = "RESULT"
    BY <1>2 DEF RecordHistory, Respond, InFlight
  <2> QED
    BY <1>1, <2>1, <2>2 DEF ToldApplied, InFlight
<1> QED
  BY <1>1, <1>5, <1>6, <1>7, OtherSteps

\* A handler gets to owe a row by its UPDATE, and stops owing it by the INSERT
\* or by being cut off.
Owing == {"history", "expired"}
LEMMA OwersMove ==
  ASSUME IInv, [Next]_vars, NEW r \in Requests
  PROVE  \/ pc'[r] = pc[r] /\ A(r)' = A(r)
            /\ (pc[r] \in Owing => frame'[r] = frame[r])
         \/ pc[r] \notin Owing /\ pc'[r] \notin Owing
         \/ RecordStatus(r) \/ SweepExpire(r) \/ RecordHistory(r) \/ SweepHistory(r)
         \/ pc'[r] \notin Owing /\ (Abort(r) \/ Crash)
<1>1. HandlersOK /\ pc \in [Requests -> PCs]
  BY DEF IInv, TypeInv, HandlersOK, HandlerTypeOK
<1>2. CASE \E s \in Requests : Arrive(s) \/ Handle(s) \/ Abort(s)
  <2>1. PICK s \in Requests : Arrive(s) \/ Handle(s) \/ Abort(s)
    BY <1>2
  <2>2. CASE s # r
    BY <1>1, <2>1, <2>2, OneHandlerMoves DEF A
  <2>3. CASE s = r /\ Abort(r)
    BY <1>1, <2>3 DEF Abort, Respond, Goto, Owing
  <2>4. CASE /\ s = r
             /\ \/ Arrive(r) \/ SweepSelect(r) \/ LookupKey(r) \/ Converge(r)
                \/ ReadAction(r) \/ ReadEdges(r) \/ CheckDependent(r) \/ Begin(r)
                \/ BeginRefused(r)
    BY <1>1, <2>4 DEF Arrive, SweepSelect, AfterSweep, LookupKey, Converge,
       UseKeyRecord, ReadAction, ReadEdges, CheckDependent, Begin, BeginRefused,
       Step, Respond, Goto, Owing
  <2>5. CASE /\ s = r
             /\ \/ CallProvider(r) \/ ReceiveAnswer(r) \/ ProviderTimeout(r)
                \/ RecordResidue(r) \/ RecordAttempt(r) \/ PollAttempt(r)
                \/ ProjectAction(r)
    BY <1>1, <2>5 DEF CallProvider, ReceiveAnswer, AfterAnswer, ProviderTimeout,
       RecordResidue, RecordAttempt, PollAttempt, ProjectAction,
       Step, Respond, Goto, Owing
  <2> QED
    BY <2>1, <2>2, <2>3, <2>4, <2>5 DEF Handle
<1>3. CASE UNCHANGED handlers
  BY <1>3 DEF handlers, A
<1>4. CASE Crash
  BY <1>1, <1>4 DEF Crash, Owing, InFlight
<1> QED
  BY <1>2, <1>3, <1>4, OtherSteps

\* Recovery moves by itself, and while it works nothing else is written.
LEMMA BootSteps ==
  ASSUME IInv, [Next]_vars
  PROVE  \/ /\ boot' = boot /\ parking' = parking /\ crashes' = crashes
            /\ boot # "up" => attempts' = attempts
         \/ Crash \/ RecoverScan
         \/ \E t \in Attempts : RecoverMark(t) \/ RecoverStatus(t) \/ RecoverHistory(t)
<1>1. ASSUME NEW x \in Requests, Arrive(x) \/ Handle(x) \/ Abort(x)
      PROVE  boot' = boot /\ parking' = parking /\ crashes' = crashes /\ boot = "up"
  <2>1. boot = "up"
    BY <1>1 DEF IInv, RecoveryInv, Arrive, Abort, InFlight, Handle, SweepSelect,
       SweepExpire, SweepHistory, LookupKey, Converge, ReadAction, ReadEdges,
       CheckDependent, Begin, BeginRefused, CallProvider, ReceiveAnswer,
       ProviderTimeout, RecordResidue, RecordAttempt, RecordStatus, RecordHistory,
       PollAttempt, ProjectAction
  <2>2. boot' = boot /\ parking' = parking /\ crashes' = crashes
    BY <1>1 DEF Arrive, Abort, Handle, SweepSelect, SweepExpire, SweepHistory,
       LookupKey, Converge, ReadAction, ReadEdges, CheckDependent, Begin, BeginRefused,
       CallProvider, ReceiveAnswer, ProviderTimeout, RecordResidue, RecordAttempt,
       RecordStatus, RecordHistory, PollAttempt, ProjectAction, server
  <2> QED
    BY <2>1, <2>2
<1>2. ASSUME \/ \E r \in Requests : ProviderActs(r)
             \/ Tick \/ AddDependency \/ AllAnswered \/ UNCHANGED vars
      PROVE  boot' = boot /\ parking' = parking /\ crashes' = crashes
             /\ attempts' = attempts
  BY <1>2 DEF ProviderActs, Tick, AddDependency, AllAnswered, vars, server, tables
<1> QED
  BY <1>1, <1>2 DEF Next, Recover

-----------------------------------------------------------------------------
(* The rows are counted. *)

\* No attempt begins and no answer gives an Action back.
LedgerKept == AllBegun' = AllBegun /\ \A a \in Actions : /\ Begun(a)' = Begun(a)
                                                        /\ Returned(a)' = Returned(a)

\* A row that is neither into REVERSING nor back to APPLIED.
OtherRow(a, from, to) == /\ a \in Actions /\ AppendHistory(a, from, to)
                         /\ from \in Statuses /\ to \in Statuses
                         /\ <<from, to>> \notin {BeginRow, ReturnRow}

\* The request whose Action is given back: its attempt, not yet told of.
GivesBack(r) == /\ RecordHistory(r) /\ StatusAfter(frame[r].outcome) = "APPLIED"
                /\ r \in Begun(A(r)) \ Returned(A(r)) /\ A(r) \in Actions
                /\ attempts[r].state = "CONCLUDED" /\ attempts' = attempts
                /\ AllBegun' = AllBegun
                /\ \A a \in Actions :
                     /\ Begun(a)' = Begun(a)
                     /\ Returned(a)' = IF a = A(r) THEN Returned(a) \cup {r}
                                       ELSE Returned(a)

\* The statuses of transitions.
LEMMA StatusesAfter ==
  ASSUME NEW o \in Outcomes
  PROVE  /\ StatusAfter(o) \in Statuses \ {"REVERSING", "EXPIRED", "IRREVERSIBLE"}
         /\ StatusAfter(o) = "APPLIED" <=> o \in {"CONFLICT", "RETRYABLE"}
  BY DEF StatusAfter, Outcomes, Conclusive, ObservedResults, Statuses

\* A handler that is to insert its last row has its attempt begun, its Action
\* known, and its client not told.
LEMMA HistoryHolder ==
  ASSUME IInv, EffectInv, AnswerInv, CountInv, NEW r \in Requests, pc[r] = "history"
  PROVE  /\ A(r) \in Actions /\ r \in Begun(A(r)) \ Returned(A(r))
         /\ \A b \in Actions : r \in Begun(b) => b = A(r)
         /\ frame[r].outcome \in Outcomes
         /\ StatusAfter(frame[r].outcome) = "APPLIED" =>
              attempts[r].state = "CONCLUDED"
<1>1. A(r) \in Actions /\ frame[r].outcome \in Outcomes
  BY DEF IInv, TypeInv, HandlersOK, LocalsFit, A
<1>2. r \in AllBegun /\ attempts[r].action = A(r)
  BY DEF CountInv, AllBegun, EffectInv, LocalInv, RowInv
<1>3. ~ ToldApplied(r)
  BY DEF AnswerInv, ReplyInv, ToldApplied
<1>4. StatusAfter(frame[r].outcome) = "APPLIED" => frame[r].outcome \in Conclusive
  <2>1. StatusAfter(frame[r].outcome) = "APPLIED" <=>
          frame[r].outcome \in {"CONFLICT", "RETRYABLE"}
    BY <1>1, StatusesAfter
  <2> QED
    BY <2>1 DEF Conclusive, ObservedResults
<1>5. StatusAfter(frame[r].outcome) = "APPLIED" => attempts[r].state = "CONCLUDED"
  BY <1>4 DEF EffectInv, LocalInv, OutcomeInv
<1> QED
  BY <1>1, <1>2, <1>3, <1>5 DEF Begun, Returned

\* A handler that is to insert the row of an expiry knows its Action, and an
\* attempt that recovery parks names one.
LEMMA ExpiredHolder ==
  ASSUME IInv, NEW r \in Requests, pc[r] = "expired"
  PROVE  frame[r].cur \in Actions
  BY DEF IInv, TypeInv, HandlersOK, LocalsFit

LEMMA ParkedRow ==
  ASSUME IInv, NEW t \in parking
  PROVE  /\ t \in AllBegun /\ attempts[t].state # "CONCLUDED"
         /\ attempts[t].action \in Actions
  BY DEF IInv, RecoveryInv, Open, AllBegun, TypeInv, StoreOK, ServerTypeOK

\* The last row of execute.
LEMMA RecordHistoryMoves ==
  ASSUME IInv, EffectInv, AnswerInv, CountInv, [Next]_vars, NEW r \in Requests,
         RecordHistory(r)
  PROVE  /\ AppendHistory(A(r), "REVERSING", StatusAfter(frame[r].outcome))
         /\ \/ GivesBack(r)
            \/ /\ OtherRow(A(r), "REVERSING", StatusAfter(frame[r].outcome))
               /\ LedgerKept
<1>1. /\ pc[r] = "history" /\ attempts' = attempts
      /\ AppendHistory(A(r), "REVERSING", StatusAfter(frame[r].outcome))
  BY DEF RecordHistory
<1>2. /\ A(r) \in Actions /\ r \in Begun(A(r)) \ Returned(A(r))
      /\ \A b \in Actions : r \in Begun(b) => b = A(r)
      /\ frame[r].outcome \in Outcomes
      /\ StatusAfter(frame[r].outcome) = "APPLIED" => attempts[r].state = "CONCLUDED"
  BY <1>1, HistoryHolder
<1>3. AllBegun' = AllBegun /\ \A a \in Actions : Begun(a)' = Begun(a)
  BY <1>1 DEF AllBegun, Begun
<1>4. \A t \in Requests \ {r} : reply'[t] = reply[t]
  BY OneHandlerMoves DEF Handle, IInv, TypeInv
<1>5. \A t \in Requests \ {r} : ToldApplied(t)' <=> ToldApplied(t)
  BY <1>4 DEF ToldApplied
<1>6. CASE StatusAfter(frame[r].outcome) = "APPLIED"
  <2>1. ToldApplied(r)'
    BY <1>6, ToldMoves
  <2>2. \A a \in Actions :
          Returned(a)' = IF a = A(r) THEN Returned(a) \cup {r} ELSE Returned(a)
    BY <1>2, <1>3, <1>5, <2>1 DEF Returned, Begun, AllBegun
  <2> QED
    BY <1>1, <1>2, <1>3, <1>6, <2>2 DEF GivesBack
<1>7. CASE StatusAfter(frame[r].outcome) # "APPLIED"
  <2>1. ToldApplied(r)' <=> ToldApplied(r)
    BY <1>7, ToldMoves
  <2>2. \A a \in Actions : Returned(a)' = Returned(a)
    BY <1>3, <1>5, <2>1 DEF Returned, Begun, AllBegun
  <2>3. OtherRow(A(r), "REVERSING", StatusAfter(frame[r].outcome))
    BY <1>1, <1>2, <1>7, StatusesAfter DEF OtherRow, BeginRow, ReturnRow, Statuses
  <2> QED
    BY <1>1, <1>3, <2>2, <2>3 DEF LedgerKept
<1> QED
  BY <1>1, <1>6, <1>7

\* A step leaves the ledger alone, or inserts one row and counts it.
LEMMA LedgerMoves ==
  ASSUME IInv, EffectInv, AnswerInv, CountInv, [Next]_vars
  PROVE  \/ history' = history /\ LedgerKept
         \/ \E r \in Requests : Begin(r)
         \/ \E a, from, to : OtherRow(a, from, to) /\ LedgerKept
         \/ \E r \in Requests : GivesBack(r)
<1>1. \A r \in Requests : Begin(r) => history' # history
  <2> SUFFICES ASSUME NEW r \in Requests, Begin(r) PROVE history' # history
    OBVIOUS
  <2>1. A(r) \in Actions /\ AppendHistory(A(r), "APPLIED", "REVERSING")
    BY BegunMoves DEF Begin
  <2>2. Len(history'[A(r)]) = Len(history[A(r)]) + 1 /\ Len(history[A(r)]) \in Nat
    BY <2>1, Appended, RowsCounted DEF Statuses
  <2> QED
    BY <2>2
<1>2. CASE history' = history
  <2>1. \A r \in Requests : ~ RecordHistory(r)
    <3> SUFFICES ASSUME NEW r \in Requests, RecordHistory(r) PROVE FALSE
      OBVIOUS
    <3>1. /\ A(r) \in Actions /\ StatusAfter(frame[r].outcome) \in Statuses
          /\ AppendHistory(A(r), "REVERSING", StatusAfter(frame[r].outcome))
      BY HistoryHolder, StatusesAfter DEF RecordHistory
    <3>2. Len(history'[A(r)]) = Len(history[A(r)]) + 1 /\ Len(history[A(r)]) \in Nat
      BY <3>1, Appended, RowsCounted DEF Statuses
    <3> QED
      BY <1>2, <3>2
  <2>2. AllBegun' = AllBegun /\ \A a \in Actions : Begun(a)' = Begun(a)
    BY <1>1, <1>2, BegunMoves
  <2>3. \A t \in Requests : ToldApplied(t)' <=> ToldApplied(t)
    BY <2>1, ToldMoves
  <2>4. \A a \in Actions : Returned(a)' = Returned(a)
    BY <2>2, <2>3 DEF Returned, Begun, AllBegun
  <2> QED
    BY <1>2, <2>2, <2>4 DEF LedgerKept
<1>3. CASE \E r \in Requests : RecordHistory(r)
  <2>1. PICK r \in Requests : RecordHistory(r)
    BY <1>3
  <2>2. GivesBack(r) \/ (/\ OtherRow(A(r), "REVERSING", StatusAfter(frame[r].outcome))
                         /\ LedgerKept)
    BY <2>1, RecordHistoryMoves
  <2> QED
    BY <2>2
<1>4. ASSUME reply' = reply, attempts' = attempts PROVE LedgerKept
  BY <1>4 DEF LedgerKept, Returned, Begun, AllBegun, ToldApplied
<1>5. CASE \E r \in Requests : SweepHistory(r)
  <2>1. PICK r \in Requests : SweepHistory(r)
    BY <1>5
  <2>2. frame[r].cur \in Actions /\ AppendHistory(frame[r].cur, "APPLIED", "EXPIRED")
        /\ reply' = reply /\ attempts' = attempts
    BY <2>1, ExpiredHolder DEF SweepHistory, Step
  <2>3. OtherRow(frame[r].cur, "APPLIED", "EXPIRED")
    BY <2>2 DEF OtherRow, BeginRow, ReturnRow, Statuses
  <2> QED
    BY <1>4, <2>2, <2>3
<1>6. CASE \E t \in Attempts : RecoverHistory(t)
  <2>1. PICK t \in Attempts : RecoverHistory(t)
    BY <1>6
  <2>2. /\ t \in parking
        /\ AppendHistory(attempts[t].action, "REVERSING", "OUTCOME_UNKNOWN")
        /\ reply' = reply /\ attempts' = attempts
    BY <2>1 DEF RecoverHistory, handlers
  <2>3. OtherRow(attempts[t].action, "REVERSING", "OUTCOME_UNKNOWN")
    BY <2>2, ParkedRow DEF OtherRow, BeginRow, ReturnRow, Statuses
  <2> QED
    BY <1>4, <2>2, <2>3
<1> QED
  BY <1>2, <1>3, <1>5, <1>6, HistoryWriters

\* The attempts begun on an Action are finitely many.
LEMMA LedgerFinite ==
  ASSUME CountInv, NEW a \in Actions
  PROVE  /\ IsFiniteSet(Begun(a)) /\ Cardinality(Begun(a)) \in Nat
         /\ Returned(a) \subseteq Begun(a)
         /\ IsFiniteSet(Returned(a)) /\ Cardinality(Returned(a)) \in Nat
<1>1. Begun(a) \in SUBSET AllBegun /\ Returned(a) \in SUBSET Begun(a)
  BY DEF Begun, Returned
<1>2. IsFiniteSet(Begun(a))
  BY <1>1, FS_Subset DEF CountInv
<1>3. IsFiniteSet(Returned(a))
  BY <1>1, <1>2, FS_Subset
<1> QED
  BY <1>1, <1>2, <1>3, FS_CardinalityType

\* An attempt that is begun and not told of leaves a row into REVERSING
\* unmatched.
LEMMA CountsDiffer ==
  ASSUME CountInv, NEW a \in Actions, NEW t \in Begun(a) \ Returned(a)
  PROVE  Cardinality(RowsOf(a, ReturnRow)) < Cardinality(RowsOf(a, BeginRow))
<1>1. /\ IsFiniteSet(Begun(a)) /\ Cardinality(Begun(a)) \in Nat
      /\ Returned(a) \in SUBSET Begun(a) /\ Cardinality(Returned(a)) \in Nat
  BY LedgerFinite
<1>2. /\ Cardinality(Returned(a)) <= Cardinality(Begun(a))
      /\ Cardinality(Begun(a)) = Cardinality(Returned(a)) => Begun(a) = Returned(a)
  BY <1>1, FS_Subset
<1>3. Cardinality(Returned(a)) # Cardinality(Begun(a))
  BY <1>2
<1>4. Cardinality(Returned(a)) < Cardinality(Begun(a))
  BY <1>1, <1>2, <1>3
<1> QED
  BY <1>4 DEF CountInv

\* What is counted, over all Actions.
Counted(a) == /\ Cardinality(RowsOf(a, BeginRow)) = Cardinality(Begun(a))
              /\ Cardinality(RowsOf(a, ReturnRow)) = Cardinality(Returned(a))

LEMMA CountsMove ==
  ASSUME IInv, EffectInv, AnswerInv, CountInv, [Next]_vars, NEW a \in Actions
  PROVE  Counted(a)'
<1>1. BeginRow # ReturnRow /\ "APPLIED" \in Statuses /\ "REVERSING" \in Statuses
  BY DEF BeginRow, ReturnRow, Statuses
<1>2. Counted(a)
  BY DEF CountInv, Counted
<1>3. /\ IsFiniteSet(Begun(a)) /\ Cardinality(Begun(a)) \in Nat
      /\ IsFiniteSet(Returned(a)) /\ Cardinality(Returned(a)) \in Nat
  BY LedgerFinite
<1>4. CASE history' = history /\ LedgerKept
  BY <1>2, <1>4 DEF Counted, RowsOf, LedgerKept
<1>5. CASE \E b, from, to : OtherRow(b, from, to) /\ LedgerKept
  <2>1. PICK b, from, to : OtherRow(b, from, to) /\ LedgerKept
    BY <1>5
  <2>2. /\ b \in Actions /\ from \in Statuses /\ to \in Statuses
        /\ AppendHistory(b, from, to)
        /\ BeginRow # <<from, to>> /\ ReturnRow # <<from, to>>
    BY <2>1 DEF OtherRow
  <2>3. Cardinality(RowsOf(a, BeginRow)') = Cardinality(RowsOf(a, BeginRow))
    BY <2>2, RowsAppended
  <2>4. Cardinality(RowsOf(a, ReturnRow)') = Cardinality(RowsOf(a, ReturnRow))
    BY <2>2, RowsAppended
  <2>5. Begun(a)' = Begun(a) /\ Returned(a)' = Returned(a)
    BY <2>1 DEF LedgerKept
  <2> QED
    BY <1>2, <2>3, <2>4, <2>5 DEF Counted
<1>6. CASE \E r \in Requests : Begin(r)
  <2>1. PICK r \in Requests : Begin(r)
    BY <1>6
  <2>2. /\ r \notin AllBegun /\ A(r) \in Actions
        /\ Begun(a)' = IF a = A(r) THEN Begun(a) \cup {r} ELSE Begun(a)
    BY <2>1, BegunMoves
  <2>3. AppendHistory(A(r), "APPLIED", "REVERSING") /\ reply' = reply /\ pc[r] = "begin"
    BY <2>1 DEF Begin, Step
  <2>4. Returned(a)' = Returned(a)
    <3>1. ~ ToldApplied(r)
      BY <2>3, ToldMoves
    <3>2. \A t \in Attempts : ToldApplied(t)' <=> ToldApplied(t)
      BY <2>3 DEF ToldApplied
    <3>3. Begun(a) \subseteq Attempts /\ r \in Attempts
      BY DEF Begun, AllBegun
    <3> QED
      BY <2>2, <3>1, <3>2, <3>3 DEF Returned
  <2>5. /\ Cardinality(RowsOf(a, BeginRow)') =
             IF a = A(r) THEN Cardinality(RowsOf(a, BeginRow)) + 1
             ELSE Cardinality(RowsOf(a, BeginRow))
    BY <1>1, <2>2, <2>3, RowsAppended DEF BeginRow
  <2>6. Cardinality(RowsOf(a, ReturnRow)') = Cardinality(RowsOf(a, ReturnRow))
    <3>1. ReturnRow # <<"APPLIED", "REVERSING">>
      BY DEF ReturnRow
    <3> QED
      BY <1>1, <2>2, <2>3, <3>1, RowsAppended
  <2>7. r \notin Begun(a)
    BY <2>2 DEF Begun
  <2>8. Cardinality(Begun(a) \cup {r}) = Cardinality(Begun(a)) + 1
    BY <1>3, <2>7, FS_AddElement
  <2>9. Cardinality(RowsOf(a, BeginRow)') = Cardinality(Begun(a)')
    BY <1>2, <2>2, <2>5, <2>8 DEF Counted
  <2> QED
    BY <1>2, <2>4, <2>6, <2>9 DEF Counted
<1>7. CASE \E r \in Requests : GivesBack(r)
  <2>1. PICK r \in Requests : GivesBack(r)
    BY <1>7
  <2>2. /\ A(r) \in Actions /\ AppendHistory(A(r), "REVERSING", "APPLIED")
        /\ r \in Begun(A(r)) \ Returned(A(r)) /\ Begun(a)' = Begun(a)
        /\ Returned(a)' = IF a = A(r) THEN Returned(a) \cup {r} ELSE Returned(a)
    BY <2>1 DEF GivesBack, RecordHistory
  <2>3. Cardinality(RowsOf(a, BeginRow)') = Cardinality(RowsOf(a, BeginRow))
    <3>1. BeginRow # <<"REVERSING", "APPLIED">>
      BY DEF BeginRow
    <3> QED
      BY <1>1, <2>2, <3>1, RowsAppended
  <2>4. Cardinality(RowsOf(a, ReturnRow)') =
          IF a = A(r) THEN Cardinality(RowsOf(a, ReturnRow)) + 1
          ELSE Cardinality(RowsOf(a, ReturnRow))
    BY <1>1, <2>2, RowsAppended DEF ReturnRow
  <2>5. a = A(r) => Cardinality(Returned(a) \cup {r}) = Cardinality(Returned(a)) + 1
    BY <1>3, <2>2, FS_AddElement
  <2>6. Cardinality(RowsOf(a, ReturnRow)') = Cardinality(Returned(a)')
    BY <1>2, <2>2, <2>4, <2>5 DEF Counted
  <2> QED
    BY <1>2, <2>2, <2>3, <2>6 DEF Counted
<1> QED
  BY <1>4, <1>5, <1>6, <1>7, LedgerMoves

\* The rows stay counted.
LEMMA CountStep ==
  ASSUME IInv, EffectInv, AnswerInv, CountInv, [Next]_vars
  PROVE  CountInv'
<1>1. IsFiniteSet(AllBegun)'
  <2>1. IsFiniteSet(AllBegun)
    BY DEF CountInv
  <2>2. AllBegun' = AllBegun \/ \E r \in Requests : AllBegun' = AllBegun \cup {r}
    BY BegunMoves
  <2> QED
    BY <2>1, <2>2, FS_AddElement
<1>2. \A r \in Requests : pc'[r] = "history" => r \in AllBegun'
  <2> SUFFICES ASSUME NEW r \in Requests, pc'[r] = "history" PROVE r \in AllBegun'
    OBVIOUS
  <2>1. r \in AllBegun => r \in AllBegun'
    BY RowsStable DEF AllBegun
  <2>2. RecordStatus(r) => r \in AllBegun
    BY DEF RecordStatus, IInv, OwnsAttempt, AllBegun
  <2>3. CASE pc[r] = "history"
    BY <2>1, <2>3 DEF CountInv
  <2>4. SweepExpire(r) \/ SweepHistory(r) \/ RecordHistory(r) => pc'[r] # "history"
    BY DEF SweepExpire, SweepHistory, RecordHistory, Step, Respond, Goto, AfterSweep,
       IInv, TypeInv, HandlersOK, HandlerTypeOK
  <2> QED
    BY <2>1, <2>2, <2>3, <2>4, OwersMove DEF Owing
<1>3. \A a \in Actions : Counted(a)'
  BY CountsMove
<1>4. ASSUME NEW a \in Actions, NEW t \in Returned(a)'
      PROVE  attempts'[t].state = "CONCLUDED"
  <2>1. CASE \E b \in Actions : t \in Returned(b)
    <3>1. attempts[t].state = "CONCLUDED" /\ t \in Attempts
      BY <2>1 DEF CountInv, Returned, Begun, AllBegun
    <3>2. attempts[t].observed # None
      BY <3>1 DEF EffectInv, LocalInv, RowInv
    <3>3. attempts'[t].observed # None
      BY <3>1, <3>2, RowsStable
    <3> QED
      BY <3>1, <3>3, EffectStep DEF EffectInv, LocalInv, RowInv
  <2>2. CASE \E r \in Requests : GivesBack(r)
    BY <2>1, <2>2 DEF GivesBack
  <2>3. CASE \E r \in Requests : Begin(r)
    <3>1. PICK r \in Requests : Begin(r)
      BY <2>3
    <3>2. reply' = reply /\ pc[r] = "begin"
      BY <3>1 DEF Begin, Step
    <3>3. t \in Attempts /\ ToldApplied(t) /\ t # r /\ t \in Begun(a)'
      <4>1. ~ ToldApplied(r)
        BY <3>2, ToldMoves
      <4>2. t \in Attempts /\ ToldApplied(t)' /\ t \in Begun(a)'
        BY DEF Returned, Begun, AllBegun
      <4> QED
        BY <3>2, <4>1, <4>2 DEF ToldApplied
    <3>4. t \in Begun(a)
      BY <3>1, <3>3, BegunMoves
    <3> QED
      BY <2>1, <3>3, <3>4 DEF Returned
  <2>4. CASE LedgerKept
    BY <2>1, <2>4 DEF LedgerKept
  <2> QED
    BY <2>2, <2>3, <2>4, LedgerMoves
<1> QED
  BY <1>1, <1>2, <1>3, <1>4 DEF CountInv, Counted

-----------------------------------------------------------------------------
(* The order of the rows. *)

\* The order is kept by every step.
LEMMA OrderStep ==
  ASSUME IInv, EffectInv, AnswerInv, CountInv, HistoryOrder, [Next]_vars,
         \A a \in Actions : FinalInv(a)
  PROVE  HistoryOrder'
<1>1. {"APPLIED", "REVERSING", "EXPIRED", "OUTCOME_UNKNOWN"} \subseteq Statuses
  BY DEF Statuses
<1>2. CASE history' = history
  BY <1>2 DEF HistoryOrder
<1>3. ASSUME NEW r \in Requests, SweepHistory(r) PROVE HistoryOrder'
  <2>1. /\ pc[r] = "expired" /\ frame[r].cur \in Actions
        /\ AppendHistory(frame[r].cur, "APPLIED", "EXPIRED")
    BY <1>3, ExpiredHolder DEF SweepHistory
  <2>2. ~ HasFinalRow(frame[r].cur)
    BY <2>1 DEF FinalInv, OwesFinal
  <2> QED
    BY <1>1, <2>1, <2>2, OrderAppended
<1>4. ASSUME NEW r \in Requests, Begin(r) PROVE HistoryOrder'
  <2>1. /\ A(r) \in Actions /\ status[A(r)] = "APPLIED"
        /\ AppendHistory(A(r), "APPLIED", "REVERSING")
    BY <1>4, BegunMoves DEF Begin, UpdateRow
  <2>2. ~ HasFinalRow(A(r))
    BY <2>1 DEF FinalInv, Settled
  <2> QED
    BY <1>1, <2>1, <2>2, OrderAppended
<1>5. ASSUME NEW r \in Requests, RecordHistory(r) PROVE HistoryOrder'
  <2> DEFINE s == StatusAfter(frame[r].outcome)
  <2>1. pc[r] = "history" /\ AppendHistory(A(r), "REVERSING", s)
    BY <1>5 DEF RecordHistory
  <2>2. A(r) \in Actions /\ s \in Statuses /\ r \in Begun(A(r)) \ Returned(A(r))
    BY <2>1, HistoryHolder, StatusesAfter
  <2>3. s # "APPLIED" => ~ HasFinalRow(A(r))
    BY <2>1, <2>2 DEF FinalInv, OwesFinal
  <2>4. s = "APPLIED" => <<"REVERSING", s>> = ReturnRow
    BY DEF ReturnRow
  <2>5. Cardinality(RowsOf(A(r), ReturnRow)) < Cardinality(RowsOf(A(r), BeginRow))
    BY <2>2, CountsDiffer
  <2> HIDE DEF s
  <2> QED
    BY <1>1, <2>1, <2>2, <2>3, <2>4, <2>5, OrderAppended
<1>6. ASSUME NEW t \in Attempts, RecoverHistory(t) PROVE HistoryOrder'
  <2> DEFINE a == attempts[t].action
  <2>1. /\ t \in parking \ RunningAttempts /\ boot = "history"
        /\ AppendHistory(a, "REVERSING", "OUTCOME_UNKNOWN")
    BY <1>6 DEF RecoverHistory
  <2>2. t \in AllBegun /\ attempts[t].state # "CONCLUDED" /\ a \in Actions
    BY <2>1, ParkedRow
  <2>3. ~ HasFinalRow(a)
    BY <2>1, <2>2 DEF FinalInv, BootOwes
  <2>4. t \in Begun(a) \ Returned(a)
    BY <2>2 DEF Begun, CountInv
  <2>5. Cardinality(RowsOf(a, ReturnRow)) < Cardinality(RowsOf(a, BeginRow))
    BY <2>2, <2>4, CountsDiffer
  <2> HIDE DEF a
  <2> QED
    BY <1>1, <2>1, <2>2, <2>3, <2>5, OrderAppended
<1> QED
  BY <1>2, <1>3, <1>4, <1>5, <1>6, HistoryWriters

\* Recovery works on one attempt at a time, and only after a crash.
LEMMA OneParkedStep ==
  ASSUME IInv, OneParked, [Next]_vars
  PROVE  OneParked'
<1>1. attempts \in [Attempts -> AttemptRows] /\ crashes \in Nat
  BY DEF IInv, TypeInv, StoreOK, StoreTypeOK, ServerTypeOK
<1>2. CASE /\ boot' = boot /\ parking' = parking /\ crashes' = crashes
           /\ boot # "up" => attempts' = attempts
  BY <1>2 DEF OneParked, RunningAttempts
<1>3. CASE Crash
  BY <1>1, <1>3 DEF Crash, OneParked
<1>4. CASE RecoverScan
  BY <1>4 DEF RecoverScan, OneParked, RunningAttempts, tables
<1>5. ASSUME NEW t \in Attempts, RecoverMark(t) PROVE OneParked'
  <2>1. /\ boot = "mark" /\ boot' = "status" /\ t \in parking /\ parking' = parking
        /\ crashes' = crashes /\ parking \subseteq RunningAttempts /\ crashes # 0
    BY <1>5 DEF RecoverMark, OneParked
  <2>2. RunningAttempts' = RunningAttempts \ {t}
    <3>1. attempts[t].state = "RUNNING"
      BY <2>1 DEF RunningAttempts
    <3>2. /\ attempts'[t].state = "AWAITING_RECONCILIATION"
          /\ \A u \in Attempts \ {t} : attempts'[u] = attempts[u]
      BY <1>1, <1>5, <3>1 DEF RecoverMark, MarkAwaitingReconciliation, AttemptRows
    <3> QED
      BY <3>2 DEF RunningAttempts
  <2>3. (parking \ RunningAttempts)' = {t}
    BY <2>1, <2>2
  <2> QED
    BY <2>1, <2>3 DEF OneParked
<1>6. ASSUME NEW t \in Attempts, RecoverStatus(t) PROVE OneParked'
  BY <1>6 DEF RecoverStatus, OneParked, RunningAttempts
<1>7. ASSUME NEW t \in Attempts, RecoverHistory(t) PROVE OneParked'
  <2>1. /\ boot = "history" /\ boot' \in {"up", "mark"} /\ crashes' = crashes
        /\ t \in parking \ RunningAttempts /\ parking' = parking \ {t}
        /\ RunningAttempts' = RunningAttempts /\ crashes # 0
    BY <1>7 DEF RecoverHistory, OneParked, RunningAttempts
  <2>2. parking \ RunningAttempts = {t}
    BY <2>1 DEF OneParked
  <2> QED
    BY <2>1, <2>2 DEF OneParked
<1> QED
  BY <1>2, <1>3, <1>4, <1>5, <1>6, <1>7, BootSteps

-----------------------------------------------------------------------------
(* Final rows and who owes them. *)

\* A final row is owed by a handler in flight, so not while recovery runs.
LEMMA OwedSettled ==
  ASSUME IInv, NEW r \in Requests, NEW a, OwesFinal(r, a)
  PROVE  /\ Settled(OwedStatus(r)) /\ OwedStatus(r) # "IRREVERSIBLE"
         /\ boot = "up" /\ pc[r] \in Owing
<1>1. pc[r] \in {"history", "expired"}
  BY DEF OwesFinal
<1>2. boot = "up"
  BY <1>1 DEF IInv, RecoveryInv, InFlight
<1>3. CASE pc[r] = "history"
  <2>1. /\ OwedStatus(r) = StatusAfter(frame[r].outcome)
        /\ StatusAfter(frame[r].outcome) # "APPLIED" /\ frame[r].outcome \in Outcomes
    BY <1>3 DEF OwesFinal, OwedStatus, IInv, TypeInv, HandlersOK, LocalsFit
  <2> QED
    BY <1>2, <1>3, <2>1, StatusesAfter DEF Settled, Owing
<1>4. CASE pc[r] = "expired"
  BY <1>2, <1>4 DEF OwedStatus, Settled, Owing
<1> QED
  BY <1>1, <1>3, <1>4

\* An Action does not leave the status it has settled in.
LEMMA SettledStays ==
  ASSUME IInv, EffectInv, [Next]_vars, NEW a \in Actions, Settled(status[a])
  PROVE  status'[a] = status[a]
  BY StatusMoves DEF Settled

\* Who gets to owe a row, and how it is paid or lost.
LEMMA OwesMove ==
  ASSUME IInv, [Next]_vars, NEW r \in Requests, NEW a
  PROVE  /\ OwesFinal(r, a)' =>
              \/ OwesFinal(r, a) /\ OwedStatus(r)' = OwedStatus(r)
              \/ RecordStatus(r) \/ SweepExpire(r)
         /\ OwesFinal(r, a) =>
              \/ OwesFinal(r, a)'
              \/ RecordHistory(r) \/ SweepHistory(r) \/ Abort(r) \/ Crash
         /\ r \in Returning(a)' => r \in Returning(a) \/ RecordStatus(r)
         /\ r \in Returning(a) =>
              r \in Returning(a)' \/ RecordHistory(r) \/ Abort(r) \/ Crash
<1>1. CASE pc'[r] = pc[r] /\ A(r)' = A(r) /\ (pc[r] \in Owing => frame'[r] = frame[r])
  BY <1>1 DEF OwesFinal, OwedStatus, Returning, Owing
<1>2. CASE pc[r] \notin Owing /\ pc'[r] \notin Owing
  BY <1>2 DEF OwesFinal, Returning, Owing
<1>3. CASE RecordStatus(r) \/ SweepExpire(r)
  <2>1. pc[r] \in {"status", "expire"}
    BY <1>3 DEF RecordStatus, SweepExpire
  <2>2. r \in Returning(a)' /\ SweepExpire(r) => FALSE
    BY DEF SweepExpire, Step, Respond, Goto, Returning, IInv, TypeInv, HandlersOK,
       HandlerTypeOK
  <2> QED
    BY <1>3, <2>1, <2>2 DEF OwesFinal, Returning
<1>4. CASE RecordHistory(r) \/ SweepHistory(r)
  <2>1. pc'[r] \notin Owing /\ pc[r] \in Owing /\ (SweepHistory(r) => pc[r] = "expired")
    BY <1>4 DEF RecordHistory, SweepHistory, AfterSweep, Step, Respond, Goto, Owing,
       IInv, TypeInv, HandlersOK, HandlerTypeOK
  <2> QED
    BY <1>4, <2>1 DEF OwesFinal, Returning, Owing
<1>5. CASE pc'[r] \notin Owing /\ (Abort(r) \/ Crash)
  BY <1>5 DEF OwesFinal, Returning, Owing
<1> QED
  BY <1>1, <1>2, <1>3, <1>4, <1>5, OwersMove

\* The step of one handler changes nothing of what another owes.
LEMMA OthersOwe ==
  ASSUME IInv, NEW r \in Requests, Handle(r), NEW s \in Requests \ {r}, NEW a
  PROVE  /\ OwesFinal(s, a)' <=> OwesFinal(s, a)
         /\ OwedStatus(s)' = OwedStatus(s)
         /\ pc'[s] = pc[s] /\ boot = "up" /\ boot' = "up"
<1>1. pc'[s] = pc[s] /\ req'[s] = req[s] /\ frame'[s] = frame[s]
  BY OneHandlerMoves DEF IInv, TypeInv
<1>2. boot = "up"
  BY DEF IInv, RecoveryInv, InFlight, Handle, SweepSelect, SweepExpire, SweepHistory,
     LookupKey, Converge, ReadAction, ReadEdges, CheckDependent, Begin, BeginRefused,
     CallProvider, ReceiveAnswer, ProviderTimeout, RecordResidue, RecordAttempt,
     RecordStatus, RecordHistory, PollAttempt, ProjectAction
<1>3. boot' = boot
  BY DEF Handle, SweepSelect, SweepExpire, SweepHistory,
     LookupKey, Converge, ReadAction, ReadEdges, CheckDependent, Begin, BeginRefused,
     CallProvider, ReceiveAnswer, ProviderTimeout, RecordResidue, RecordAttempt,
     RecordStatus, RecordHistory, PollAttempt, ProjectAction, server
<1> QED
  BY <1>1, <1>2, <1>3 DEF OwesFinal, OwedStatus, A

\* Recovery gets to owe a row by its UPDATE.
LEMMA BootOwesMoves ==
  ASSUME IInv, [Next]_vars, NEW a, BootOwes(a)', \A t \in Attempts : ~ RecoverStatus(t)
  PROVE  BootOwes(a)
<1>1. boot' = "history"
  BY DEF BootOwes
<1>2. ~ Crash /\ ~ RecoverScan /\ \A t \in Attempts : ~ RecoverMark(t) /\ ~ RecoverHistory(t)
  BY <1>1 DEF Crash, RecoverScan, RecoverMark, RecoverHistory
<1>3. boot' = boot /\ parking' = parking /\ attempts' = attempts
  BY <1>1, <1>2, BootSteps
<1> QED
  BY <1>3 DEF BootOwes, RunningAttempts

\* Rows that are there stay, under their numbers.
LEMMA HistoryGrows ==
  ASSUME IInv, EffectInv, AnswerInv, CountInv, [Next]_vars, NEW a \in Actions
  PROVE  \A n \in 1..Len(history[a]) :
           n \in 1..Len(history'[a]) /\ history'[a][n] = history[a][n]
<1>1. CASE history' = history
  BY <1>1
<1>2. ASSUME NEW b \in Actions, NEW from \in Statuses, NEW to \in Statuses,
             AppendHistory(b, from, to)
      PROVE  \A n \in 1..Len(history[a]) :
               n \in 1..Len(history'[a]) /\ history'[a][n] = history[a][n]
  <2>1. Len(history[a]) \in Nat
    BY RowsCounted
  <2>2. CASE a = b
    BY <1>2, <2>1, <2>2, Appended
  <2>3. CASE a # b
    BY <1>2, <2>3, Appended
  <2> QED
    BY <2>2, <2>3
<1>3. CASE \E r \in Requests : Begin(r)
  <2>1. PICK r \in Requests : Begin(r)
    BY <1>3
  <2>2. A(r) \in Actions /\ AppendHistory(A(r), "APPLIED", "REVERSING")
    BY <2>1, BegunMoves DEF Begin
  <2> QED
    BY <1>2, <2>2 DEF Statuses
<1>4. CASE \E r \in Requests : GivesBack(r)
  <2>1. PICK r \in Requests : GivesBack(r)
    BY <1>4
  <2>2. A(r) \in Actions /\ AppendHistory(A(r), "REVERSING", "APPLIED")
    BY <2>1 DEF GivesBack, RecordHistory
  <2> QED
    BY <1>2, <2>2 DEF Statuses
<1>5. CASE \E b, from, to : OtherRow(b, from, to)
  BY <1>2, <1>5 DEF OtherRow
<1> QED
  BY <1>1, <1>3, <1>4, <1>5, LedgerMoves

\* A step that inserts no final row and makes nobody owe one keeps the claim.
LEMMA FinalKept ==
  ASSUME IInv, EffectInv, [Next]_vars, NEW a \in Actions, FinalInv(a),
         HasFinalRow(a)' => HasFinalRow(a),
         \A r \in Requests : OwesFinal(r, a)' =>
           OwesFinal(r, a) /\ OwedStatus(r)' = OwedStatus(r),
         BootOwes(a)' => BootOwes(a)
  PROVE  FinalInv(a)'
<1>1. HasFinalRow(a)' => Settled(status'[a])
  BY SettledStays DEF FinalInv
<1>2. ASSUME NEW r \in Requests, OwesFinal(r, a)'
      PROVE  /\ status'[a] = OwedStatus(r)' /\ ~ HasFinalRow(a)'
             /\ \A s \in Requests : OwesFinal(s, a)' => s = r
  <2>1. OwesFinal(r, a) /\ status[a] = OwedStatus(r) /\ OwedStatus(r)' = OwedStatus(r)
    BY <1>2 DEF FinalInv
  <2>2. status'[a] = status[a]
    BY <2>1, OwedSettled, SettledStays
  <2> QED
    BY <1>2, <2>1, <2>2 DEF FinalInv
<1>3. BootOwes(a)' => Settled(status'[a]) /\ ~ HasFinalRow(a)'
  BY SettledStays DEF FinalInv
<1> QED
  BY <1>1, <1>2, <1>3 DEF FinalInv, Settled

\* The UPDATE into a final status: its handler is the only one to owe the row.
LEMMA FinalOpens ==
  ASSUME IInv, EffectInv, [Next]_vars, NEW a \in Actions, FinalInv(a),
         NEW r \in Requests, Handle(r), history' = history, ~ Settled(status[a]),
         OwesFinal(r, a)', status'[a] = OwedStatus(r)'
  PROVE  FinalInv(a)'
<1>1. ~ HasFinalRow(a)'
  BY DEF FinalInv, HasFinalRow
<1>2. \A s \in Requests : ~ OwesFinal(s, a)
  BY OwedSettled DEF FinalInv
<1>3. \A s \in Requests \ {r} : ~ OwesFinal(s, a)'
  BY <1>2, OthersOwe
<1>4. ~ BootOwes(a)'
  <2>1. boot = "up"
    BY DEF IInv, RecoveryInv, InFlight, Handle, SweepSelect, SweepExpire, SweepHistory,
       LookupKey, Converge, ReadAction, ReadEdges, CheckDependent, Begin, BeginRefused,
       CallProvider, ReceiveAnswer, ProviderTimeout, RecordResidue, RecordAttempt,
       RecordStatus, RecordHistory, PollAttempt, ProjectAction
  <2>2. ~ BootOwes(a) /\ \A t \in Attempts : ~ RecoverStatus(t)
    BY <2>1 DEF BootOwes, RecoverStatus
  <2> QED
    BY <2>2, BootOwesMoves
<1> QED
  BY <1>1, <1>3, <1>4 DEF FinalInv

\* The INSERT of the final row, by the one handler that owes it.
LEMMA FinalCloses ==
  ASSUME IInv, EffectInv, [Next]_vars, NEW a \in Actions, FinalInv(a),
         NEW r \in Requests, Handle(r), OwesFinal(r, a), ~ OwesFinal(r, a)'
  PROVE  FinalInv(a)'
<1>1. /\ status[a] = OwedStatus(r) /\ Settled(OwedStatus(r))
      /\ \A s \in Requests \ {r} : ~ OwesFinal(s, a)
  BY OwedSettled DEF FinalInv
<1>2. Settled(status'[a])
  BY <1>1, SettledStays DEF Settled
<1>3. \A s \in Requests : ~ OwesFinal(s, a)'
  BY <1>1, OthersOwe
<1>4. ~ BootOwes(a)'
  <2>1. boot = "up"
    BY OwedSettled
  <2>2. ~ BootOwes(a) /\ \A t \in Attempts : ~ RecoverStatus(t)
    BY <2>1 DEF BootOwes, RecoverStatus
  <2> QED
    BY <2>2, BootOwesMoves
<1> QED
  BY <1>2, <1>3, <1>4 DEF FinalInv, Settled

\* What execute's UPDATE does: it is never refused, and the handler goes on.
LEMMA RecordStatusMoves ==
  ASSUME IInv, NEW r \in Requests, RecordStatus(r)
  PROVE  /\ pc[r] = "status" /\ pc'[r] = "history" /\ frame'[r] = frame[r]
         /\ A(r)' = A(r) /\ A(r) \in Actions /\ frame[r].outcome \in Outcomes
         /\ status[A(r)] = "REVERSING"
         /\ status'[A(r)] = StatusAfter(frame[r].outcome)
         /\ \A b \in Actions \ {A(r)} : status'[b] = status[b]
         /\ history' = history /\ attempts' = attempts /\ reply' = reply
         /\ attempts[r].state # "NONE" /\ attempts[r].action = A(r)
<1>1. /\ pc \in [Requests -> PCs] /\ frame \in [Requests -> Frames]
      /\ status \in [Actions -> Statuses]
  BY DEF IInv, TypeInv, StoreOK, StoreTypeOK, HandlersOK, HandlerTypeOK
<1>2. /\ pc[r] = "status" /\ A(r) \in Actions /\ frame[r].outcome \in Outcomes
      /\ status[A(r)] = "REVERSING"
      /\ attempts[r].state # "NONE" /\ attempts[r].action = A(r)
  BY DEF RecordStatus, IInv, TypeInv, HandlersOK, LocalsFit, OwnsAttempt, A
<1>3. /\ UpdateRow(A(r), "REVERSING", StatusAfter(frame[r].outcome))
      /\ Step(r, "history", frame[r]) /\ req' = req
      /\ history' = history /\ attempts' = attempts
  BY <1>2 DEF RecordStatus
<1> QED
  BY <1>1, <1>2, <1>3 DEF UpdateRow, Step, Goto, A

\* What the sweep's UPDATE does, or its refusal.
LEMMA SweepExpireMoves ==
  ASSUME IInv, NEW r \in Requests, SweepExpire(r)
  PROVE  /\ pc[r] = "expire" /\ history' = history /\ attempts' = attempts
         /\ \/ /\ pc'[r] = "expired" /\ frame'[r].cur \in Actions
               /\ status[frame'[r].cur] = "APPLIED"
               /\ status'[frame'[r].cur] = "EXPIRED"
               /\ \A b \in Actions \ {frame'[r].cur} : status'[b] = status[b]
            \/ pc'[r] = "done" /\ status' = status
<1>1. /\ pc \in [Requests -> PCs] /\ frame \in [Requests -> Frames]
      /\ status \in [Actions -> Statuses]
  BY DEF IInv, TypeInv, StoreOK, StoreTypeOK, HandlersOK, HandlerTypeOK
<1>2. pc[r] = "expire" /\ history' = history /\ attempts' = attempts
  BY DEF SweepExpire
<1>3. CASE Respond(r, Problem("INTERNAL")) /\ status' = status
  BY <1>1, <1>2, <1>3 DEF Respond, Goto
<1>4. ASSUME NEW a \in frame[r].todo, UpdateRow(a, "APPLIED", "EXPIRED"),
             Step(r, "expired", [frame[r] EXCEPT !.cur = a])
      PROVE  /\ pc'[r] = "expired" /\ frame'[r].cur = a /\ a \in Actions
             /\ status[a] = "APPLIED" /\ status'[a] = "EXPIRED"
             /\ \A b \in Actions \ {a} : status'[b] = status[b]
  <2>1. a \in Actions
    BY <1>1 DEF Frames
  <2>2. frame'[r].cur = a
    BY <1>1, <1>4 DEF Step, Frames
  <2> QED
    BY <1>1, <1>4, <2>1, <2>2 DEF UpdateRow, Step, Goto
<1> QED
  BY <1>2, <1>3, <1>4 DEF SweepExpire

\* What the INSERTs do to the final rows.
LEMMA InsertsFinal ==
  ASSUME IInv, NEW a \in Actions, NEW from \in Statuses, NEW to \in Statuses,
         AppendHistory(a, from, to)
  PROVE  \A b \in Actions : HasFinalRow(b)' <=> HasFinalRow(b) \/ (b = a /\ Settled(to))
  BY RowsAppended

\* The claim about final rows is kept by every step.
LEMMA FinalStep ==
  ASSUME IInv, EffectInv, AnswerInv, CountInv, OneParked, [Next]_vars,
         NEW a \in Actions, FinalInv(a)
  PROVE  FinalInv(a)'
<1>1. {"APPLIED", "REVERSING", "EXPIRED", "OUTCOME_UNKNOWN"} \subseteq Statuses
  BY DEF Statuses
<1>2. ASSUME history' = history
      PROVE  HasFinalRow(a)' <=> HasFinalRow(a)
  BY <1>2 DEF HasFinalRow
<1>3. ASSUME NEW r \in Requests, RecordStatus(r) PROVE FinalInv(a)'
  <2>1. /\ pc[r] = "status" /\ pc'[r] = "history" /\ frame'[r] = frame[r]
        /\ A(r)' = A(r) /\ frame[r].outcome \in Outcomes
        /\ status[A(r)] = "REVERSING"
        /\ status'[A(r)] = StatusAfter(frame[r].outcome) /\ history' = history
    BY <1>3, RecordStatusMoves
  <2>2. Handle(r)
    BY <1>3 DEF Handle
  <2>3. CASE OwesFinal(r, a)'
    <3>1. a = A(r) /\ status'[a] = OwedStatus(r)' /\ ~ Settled(status[a])
      BY <2>1, <2>3 DEF OwesFinal, OwedStatus, Settled
    <3> QED
      BY <2>1, <2>2, <2>3, <3>1, FinalOpens
  <2>4. CASE ~ OwesFinal(r, a)'
    <3>1. \A s \in Requests : OwesFinal(s, a)' =>
            OwesFinal(s, a) /\ OwedStatus(s)' = OwedStatus(s)
      BY <2>2, <2>4, OthersOwe
    <3>2. ~ BootOwes(a)'
      <4>1. boot = "up"
        BY <2>1 DEF IInv, RecoveryInv, InFlight
      <4>2. ~ BootOwes(a) /\ \A t \in Attempts : ~ RecoverStatus(t)
        BY <4>1 DEF BootOwes, RecoverStatus
      <4> QED
        BY <4>2, BootOwesMoves
    <3> QED
      BY <1>2, <2>1, <3>1, <3>2, FinalKept
  <2> QED
    BY <2>3, <2>4
<1>4. ASSUME NEW r \in Requests, SweepExpire(r) PROVE FinalInv(a)'
  <2>1. /\ pc[r] = "expire" /\ history' = history
        /\ \/ /\ pc'[r] = "expired"
              /\ status[frame'[r].cur] = "APPLIED"
              /\ status'[frame'[r].cur] = "EXPIRED"
           \/ pc'[r] = "done"
    BY <1>4, SweepExpireMoves
  <2>2. Handle(r)
    BY <1>4 DEF Handle
  <2>3. CASE OwesFinal(r, a)'
    <3>1. a = frame'[r].cur /\ pc'[r] = "expired"
      BY <2>1, <2>3 DEF OwesFinal
    <3>2. OwedStatus(r)' = "EXPIRED"
      BY <3>1 DEF OwedStatus
    <3>3. status'[a] = OwedStatus(r)' /\ ~ Settled(status[a])
      BY <2>1, <3>1, <3>2 DEF Settled
    <3> QED
      BY <2>1, <2>2, <2>3, <3>3, FinalOpens
  <2>4. CASE ~ OwesFinal(r, a)'
    <3>1. \A s \in Requests : OwesFinal(s, a)' =>
            OwesFinal(s, a) /\ OwedStatus(s)' = OwedStatus(s)
      BY <2>2, <2>4, OthersOwe
    <3>2. ~ BootOwes(a)'
      <4>1. boot = "up"
        BY <2>1 DEF IInv, RecoveryInv, InFlight
      <4>2. ~ BootOwes(a) /\ \A t \in Attempts : ~ RecoverStatus(t)
        BY <4>1 DEF BootOwes, RecoverStatus
      <4> QED
        BY <4>2, BootOwesMoves
    <3> QED
      BY <1>2, <2>1, <3>1, <3>2, FinalKept
  <2> QED
    BY <2>3, <2>4
<1>5. ASSUME NEW r \in Requests, RecordHistory(r) \/ SweepHistory(r) PROVE FinalInv(a)'
  <2> DEFINE b == IF pc[r] = "expired" THEN frame[r].cur ELSE A(r)
             s == OwedStatus(r)
             from == IF pc[r] = "expired" THEN "APPLIED" ELSE "REVERSING"
  <2>1. /\ AppendHistory(b, from, s) /\ b \in Actions /\ s \in Statuses
        /\ from \in Statuses /\ pc'[r] \notin Owing
        /\ OwesFinal(r, a) <=> a = b /\ s # "APPLIED"
        /\ s # "REVERSING"
    <3>1. CASE RecordHistory(r)
      <4>1. /\ pc[r] = "history" /\ pc'[r] = "done"
            /\ AppendHistory(A(r), "REVERSING", StatusAfter(frame[r].outcome))
        BY <3>1 DEF RecordHistory, Respond, Goto, IInv, TypeInv, HandlersOK, HandlerTypeOK
      <4>2. A(r) \in Actions /\ frame[r].outcome \in Outcomes
        BY <4>1, HistoryHolder
      <4>3. b = A(r) /\ s = StatusAfter(frame[r].outcome) /\ from = "REVERSING"
        BY <4>1 DEF OwedStatus
      <4> HIDE DEF b, s, from
      <4>4. s \in Statuses \ {"REVERSING"}
        BY <4>2, <4>3, StatusesAfter
      <4> QED
        BY <1>1, <4>1, <4>2, <4>3, <4>4 DEF OwesFinal, Owing
    <3>2. CASE SweepHistory(r)
      <4>1. /\ pc[r] = "expired" /\ pc'[r] \notin Owing
            /\ AppendHistory(frame[r].cur, "APPLIED", "EXPIRED")
        BY <3>2 DEF SweepHistory, AfterSweep, Step, Goto, Owing, IInv, TypeInv,
           HandlersOK, HandlerTypeOK
      <4>2. frame[r].cur \in Actions
        BY <4>1, ExpiredHolder
      <4>3. b = frame[r].cur /\ s = "EXPIRED" /\ from = "APPLIED"
        BY <4>1 DEF OwedStatus
      <4> HIDE DEF b, s, from
      <4> QED
        BY <1>1, <4>1, <4>2, <4>3 DEF OwesFinal, Owing
    <3> QED
      BY <1>5, <3>1, <3>2
  <2>2. Handle(r) /\ ~ OwesFinal(r, a)'
    BY <1>5, <2>1 DEF Handle, OwesFinal, Owing
  <2>3. CASE OwesFinal(r, a)
    BY <2>2, <2>3, FinalCloses
  <2>4. CASE ~ OwesFinal(r, a)
    <3>1. \A x \in Requests : OwesFinal(x, a)' =>
            OwesFinal(x, a) /\ OwedStatus(x)' = OwedStatus(x)
      BY <2>2, OthersOwe
    <3> HIDE DEF b, s, from
    <3>2. HasFinalRow(a)' <=> HasFinalRow(a) \/ (a = b /\ Settled(s))
      BY <2>1, InsertsFinal
    <3>3. HasFinalRow(a)' => HasFinalRow(a)
      BY <2>1, <2>4, <3>2 DEF Settled
    <3>4. ~ BootOwes(a)'
      <4>1. boot = "up"
        BY <1>5 DEF IInv, RecoveryInv, InFlight, RecordHistory, SweepHistory
      <4>2. ~ BootOwes(a) /\ \A t \in Attempts : ~ RecoverStatus(t)
        BY <4>1 DEF BootOwes, RecoverStatus
      <4> QED
        BY <4>2, BootOwesMoves
    <3> QED
      BY <3>1, <3>3, <3>4, FinalKept
  <2> QED
    BY <2>3, <2>4
<1>6. ASSUME \A r \in Requests : ~ RecordStatus(r) /\ ~ SweepExpire(r)
      PROVE  \A r \in Requests : OwesFinal(r, a)' =>
               OwesFinal(r, a) /\ OwedStatus(r)' = OwedStatus(r)
  BY <1>6, OwesMove
<1>7. ASSUME NEW r \in Requests, Begin(r) PROVE FinalInv(a)'
  <2>1. A(r) \in Actions /\ AppendHistory(A(r), "APPLIED", "REVERSING") /\ Handle(r)
        /\ pc'[r] = "call"
    BY <1>7, BegunMoves DEF Begin, Handle, Step, Goto, IInv, TypeInv, HandlersOK,
       HandlerTypeOK
  <2>2. HasFinalRow(a)' <=> HasFinalRow(a)
    BY <1>1, <2>1, InsertsFinal DEF Settled
  <2>3. \A x \in Requests : OwesFinal(x, a)' =>
          OwesFinal(x, a) /\ OwedStatus(x)' = OwedStatus(x)
    BY <2>1, OthersOwe DEF OwesFinal
  <2>4. \A t \in Attempts : ~ RecoverStatus(t)
    BY <1>7 DEF Begin, RecoverStatus, IInv, RecoveryInv, InFlight
  <2> QED
    BY <2>2, <2>3, <2>4, BootOwesMoves, FinalKept
<1>8. ASSUME NEW t \in Attempts, RecoverStatus(t) PROVE FinalInv(a)'
  <2>1. /\ boot = "status" /\ t \in parking \ RunningAttempts /\ parking' = parking
        /\ RunningAttempts' = RunningAttempts /\ attempts' = attempts
        /\ history' = history /\ UNCHANGED handlers
    BY <1>8 DEF RecoverStatus, RunningAttempts
  <2>2. parking \ RunningAttempts = {t}
    BY <2>1 DEF OneParked
  <2>3. \A r \in Requests : ~ OwesFinal(r, a)'
    <3>1. \A r \in Requests : pc[r] \in {"idle", "done"}
      BY <2>1 DEF IInv, RecoveryInv, InFlight
    <3> QED
      BY <2>1, <3>1 DEF OwesFinal, handlers
  <2>4. CASE BootOwes(a)'
    <3>1. attempts[t].action = a /\ boot' = "history"
      BY <2>1, <2>2, <2>4 DEF BootOwes
    <3>2. status[a] = "REVERSING" /\ status'[a] = "OUTCOME_UNKNOWN"
      BY <1>8, <3>1 DEF RecoverStatus, UpdateRow, IInv, TypeInv, StoreOK, StoreTypeOK
    <3>3. ~ HasFinalRow(a)'
      BY <1>2, <2>1, <3>2 DEF FinalInv, Settled
    <3> QED
      BY <2>3, <3>2, <3>3 DEF FinalInv, Settled
  <2>5. CASE ~ BootOwes(a)'
    BY <1>2, <2>1, <2>3, <2>5, FinalKept
  <2> QED
    BY <2>4, <2>5
<1>9. ASSUME NEW t \in Attempts, RecoverHistory(t) PROVE FinalInv(a)'
  <2>1. /\ boot = "history" /\ t \in parking \ RunningAttempts
        /\ boot' # "history" /\ UNCHANGED handlers
        /\ AppendHistory(attempts[t].action, "REVERSING", "OUTCOME_UNKNOWN")
    BY <1>9 DEF RecoverHistory
  <2>2. attempts[t].action \in Actions
    BY <2>1, ParkedRow
  <2>3. HasFinalRow(a)' => HasFinalRow(a) \/ a = attempts[t].action
    BY <1>1, <2>1, <2>2, InsertsFinal
  <2>4. a = attempts[t].action => Settled(status[a])
    BY <2>1, <2>2 DEF FinalInv, BootOwes
  <2>5. \A r \in Requests : ~ OwesFinal(r, a)'
    <3>1. \A r \in Requests : pc[r] \in {"idle", "done"}
      BY <2>1 DEF IInv, RecoveryInv, InFlight
    <3> QED
      BY <2>1, <3>1 DEF OwesFinal, handlers
  <2>6. HasFinalRow(a)' => Settled(status'[a])
    BY <2>3, <2>4, SettledStays DEF FinalInv
  <2>7. ~ BootOwes(a)'
    BY <2>1 DEF BootOwes
  <2> QED
    BY <2>5, <2>6, <2>7 DEF FinalInv, Settled
<1>10. CASE /\ history' = history
            /\ \A r \in Requests : ~ RecordStatus(r) /\ ~ SweepExpire(r)
            /\ \A t \in Attempts : ~ RecoverStatus(t)
  BY <1>2, <1>6, <1>10, BootOwesMoves, FinalKept
<1> QED
  BY <1>3, <1>4, <1>5, <1>7, <1>8, <1>9, <1>10, HistoryWriters

-----------------------------------------------------------------------------
(* While nothing is cut off, no row is lost. *)

\* Then there is no crash, no abort and no recovery.
LEMMA NothingLost ==
  ASSUME IInv, OneParked, [Next]_vars, crashes' + aborts' = 0
  PROVE  /\ crashes + aborts = 0 /\ ~ Crash /\ \A r \in Requests : ~ Abort(r)
         /\ \A t \in Attempts : ~ RecoverStatus(t) /\ ~ RecoverHistory(t)
<1>1. crashes \in Nat /\ aborts \in Nat
  BY DEF IInv, TypeInv, ServerTypeOK
<1>2. ~ Crash /\ \A r \in Requests : ~ Abort(r)
  BY <1>1 DEF Crash, Abort
<1>3. aborts' = aborts
  BY <1>2 DEF Next, Handle, Arrive, SweepSelect, SweepExpire, SweepHistory, LookupKey,
     Converge, ReadAction, ReadEdges, CheckDependent, Begin, BeginRefused,
     CallProvider, ProviderActs, ReceiveAnswer, ProviderTimeout, RecordResidue,
     RecordAttempt, RecordStatus, RecordHistory, PollAttempt, ProjectAction, Recover,
     RecoverScan, RecoverMark, RecoverStatus, RecoverHistory, Tick, AddDependency,
     AllAnswered, vars, server
<1>4. crashes' = crashes
  BY <1>2, BootSteps DEF RecoverScan, RecoverMark, RecoverStatus, RecoverHistory
<1>5. crashes = 0 /\ aborts = 0
  BY <1>1, <1>3, <1>4
<1>6. boot = "up"
  BY <1>5 DEF OneParked
<1> QED
  BY <1>2, <1>5, <1>6 DEF RecoverStatus, RecoverHistory

\* Then an attempt's return goes on being due or on record; a new attempt has
\* none yet, and execute's UPDATE makes it due.
LEMMA UnreturnedMoves ==
  ASSUME IInv, EffectInv, AnswerInv, CountInv, OneParked, [Next]_vars,
         crashes' + aborts' = 0, NEW a \in Actions, NEW t \in Attempts
  PROVE  t \in Unreturned(a)' <=>
           \/ Begin(t) /\ A(t) = a
           \/ /\ t \in Unreturned(a)
              /\ ~ (RecordStatus(t) /\ StatusAfter(frame[t].outcome) = "APPLIED")
<1>1. ~ Crash /\ ~ Abort(t)
  BY NothingLost
<1>2. t \in Begun(a)' <=> t \in Begun(a) \/ (Begin(t) /\ A(t) = a)
  <2>1. CASE Begin(t)
    BY <2>1, BegunMoves DEF Begun
  <2>2. CASE ~ Begin(t)
    BY <2>2, RowsStable DEF Begun, AllBegun
  <2> QED
    BY <2>1, <2>2
<1>3. t \in Unreturned(a)' <=>
        t \in Begun(a)' /\ ~ ToldApplied(t)' /\ t \notin Returning(a)'
  BY DEF Unreturned, Returned
<1>4. t \in Unreturned(a) <=>
        t \in Begun(a) /\ ~ ToldApplied(t) /\ t \notin Returning(a)
  BY DEF Unreturned, Returned
<1>5. CASE Begin(t)
  <2>1. pc[t] = "begin" /\ pc'[t] = "call" /\ t \notin AllBegun
    BY <1>5, BegunMoves DEF Begin, Step, Goto, IInv, TypeInv, HandlersOK, HandlerTypeOK
  <2>2. t \notin Returning(a)' /\ t \notin Begun(a)
    BY <2>1 DEF Returning, Begun
  <2>3. ~ ToldApplied(t)'
    <3>1. ~ RecordHistory(t)
      BY <2>1 DEF RecordHistory
    <3> QED
      BY <2>1, <3>1, ToldMoves
  <2> QED
    BY <1>2, <1>3, <1>4, <1>5, <2>2, <2>3
<1>6. CASE RecordStatus(t)
  <2>1. /\ pc[t] = "status" /\ pc'[t] = "history" /\ frame'[t] = frame[t]
        /\ A(t)' = A(t) /\ attempts[t].action = A(t)
    BY <1>6, RecordStatusMoves
  <2>2. ~ Begin(t) /\ ~ RecordHistory(t)
    BY <2>1 DEF Begin, RecordHistory
  <2>3. ~ ToldApplied(t) /\ ~ ToldApplied(t)' /\ t \notin Returning(a)
    BY <2>1, <2>2, ToldMoves DEF Returning
  <2>4. t \in Returning(a)' <=>
          A(t) = a /\ StatusAfter(frame[t].outcome) = "APPLIED"
    BY <2>1 DEF Returning
  <2>5. t \in Begun(a) => A(t) = a
    BY <2>1 DEF Begun
  <2> QED
    BY <1>2, <1>3, <1>4, <1>6, <2>2, <2>3, <2>4, <2>5
<1>7. CASE RecordHistory(t)
  <2>1. pc[t] = "history" /\ pc'[t] = "done"
    BY <1>7 DEF RecordHistory, Respond, Goto, IInv, TypeInv, HandlersOK, HandlerTypeOK
  <2>2. ~ Begin(t) /\ ~ RecordStatus(t) /\ t \notin Returning(a)'
    BY <2>1 DEF Begin, RecordStatus, Returning
  <2>3. ~ ToldApplied(t)
        /\ (ToldApplied(t)' <=> StatusAfter(frame[t].outcome) = "APPLIED")
    BY <1>7, <2>1, ToldMoves
  <2>4. t \in Begun(a) => A(t) = a
    BY <2>1, HistoryHolder
  <2>5. t \in Begun(a) =>
          (t \in Returning(a) <=> StatusAfter(frame[t].outcome) = "APPLIED")
    BY <2>1, <2>4 DEF Returning
  <2> QED
    BY <1>2, <1>3, <1>4, <2>2, <2>3, <2>5
<1>8. CASE ~ Begin(t) /\ ~ RecordStatus(t) /\ ~ RecordHistory(t)
  <2>1. t \in Returning(a)' <=> t \in Returning(a)
    BY <1>1, <1>8, OwesMove
  <2>2. ToldApplied(t)' <=> ToldApplied(t)
    BY <1>8, ToldMoves
  <2> QED
    BY <1>2, <1>3, <1>4, <1>8, <2>1, <2>2
<1> QED
  BY <1>5, <1>6, <1>7, <1>8

\* Then the row of the status an Action has settled in is on record or due.
LEMMA RowShownStep ==
  ASSUME IInv, EffectInv, AnswerInv, CountInv, OneParked, [Next]_vars,
         crashes' + aborts' = 0, NEW a \in Actions, FinalInv(a), BalanceInv(a),
         status'[a] \notin {"APPLIED", "REVERSING", "IRREVERSIBLE"}
  PROVE  RowShown(a)'
<1>1. CASE \E r \in Requests : OwesFinal(r, a)'
  BY <1>1 DEF RowShown
<1>2. ASSUME NEW r \in Requests, RecordStatus(r), A(r) = a PROVE OwesFinal(r, a)'
  <2>1. /\ pc'[r] = "history" /\ frame'[r] = frame[r] /\ A(r)' = A(r)
        /\ status'[a] = StatusAfter(frame[r].outcome)
    BY <1>2, RecordStatusMoves
  <2> QED
    BY <1>2, <2>1 DEF OwesFinal
<1>3. ASSUME status'[a] # status[a] PROVE \E r \in Requests : OwesFinal(r, a)'
  <2>1. ASSUME NEW r \in Requests, Begin(r) PROVE FALSE
    <3>1. UpdateRow(A(r), "APPLIED", "REVERSING") /\ A(r) \in Actions
      BY <2>1, BegunMoves DEF Begin
    <3> QED
      BY <1>3, <3>1 DEF UpdateRow, IInv, TypeInv, StoreOK, StoreTypeOK
  <2>2. ASSUME NEW r \in Requests, SweepExpire(r) PROVE OwesFinal(r, a)'
    <3>1. pc'[r] = "expired" /\ a = frame'[r].cur
      BY <1>3, <2>2, SweepExpireMoves
    <3> QED
      BY <3>1 DEF OwesFinal
  <2>3. ASSUME NEW r \in Requests, RecordStatus(r) PROVE OwesFinal(r, a)'
    <3>1. A(r) = a
      BY <1>3, <2>3, RecordStatusMoves
    <3> QED
      BY <1>2, <2>3, <3>1
  <2>4. \A t \in Attempts : ~ RecoverStatus(t)
    BY NothingLost
  <2> QED
    BY <1>3, <2>1, <2>2, <2>3, <2>4, WhoMoves
<1>4. CASE status'[a] = status[a]
  <2>1. RowShown(a)
    BY <1>4, NothingLost DEF BalanceInv
  <2>2. ASSUME NEW n \in 1..Len(history[a]), history[a][n] = FinalRow(status[a])
        PROVE  RowShown(a)'
    BY <1>4, <2>2, HistoryGrows DEF RowShown, FinalRow
  <2>3. ASSUME NEW r \in Requests, OwesFinal(r, a), RecordHistory(r) \/ SweepHistory(r)
        PROVE  RowShown(a)'
    <3> DEFINE n == Len(history[a]) + 1
    <3>1. status[a] = OwedStatus(r)
      BY <2>3 DEF FinalInv
    <3>2. CASE RecordHistory(r)
      <4>1. pc[r] = "history" /\ A(r) = a
            /\ AppendHistory(a, "REVERSING", StatusAfter(frame[r].outcome))
        BY <2>3, <3>2 DEF RecordHistory, OwesFinal
      <4>2. frame[r].outcome \in Outcomes
        BY <4>1, HistoryHolder
      <4>3. status[a] = StatusAfter(frame[r].outcome)
        BY <3>1, <4>1 DEF OwedStatus
      <4>4. AppendHistory(a, "REVERSING", status[a]) /\ status[a] \in Statuses
            /\ status[a] # "EXPIRED"
        BY <4>1, <4>2, <4>3, StatusesAfter
      <4>5. Len(history'[a]) = n /\ history'[a][n] = <<"REVERSING", status[a]>>
        BY <4>4, Appended DEF Statuses
      <4>6. n \in 1..Len(history'[a])
        BY <4>5, RowsCounted
      <4> HIDE DEF n
      <4> QED
        BY <1>4, <4>4, <4>5, <4>6 DEF RowShown, FinalRow
    <3>3. CASE SweepHistory(r)
      <4>1. pc[r] = "expired" /\ frame[r].cur = a
            /\ AppendHistory(a, "APPLIED", "EXPIRED")
        BY <2>3, <3>3 DEF SweepHistory, OwesFinal
      <4>2. status[a] = "EXPIRED"
        BY <3>1, <4>1 DEF OwedStatus
      <4>3. Len(history'[a]) = n /\ history'[a][n] = <<"APPLIED", "EXPIRED">>
        BY <4>1, Appended DEF Statuses
      <4>4. n \in 1..Len(history'[a])
        BY <4>3, RowsCounted
      <4> HIDE DEF n
      <4> QED
        BY <1>4, <4>2, <4>3, <4>4 DEF RowShown, FinalRow
    <3> QED
      BY <2>3, <3>2, <3>3
  <2>4. ASSUME NEW r \in Requests, OwesFinal(r, a), ~ RecordHistory(r), ~ SweepHistory(r)
        PROVE  OwesFinal(r, a)'
    BY <2>4, OwesMove, NothingLost
  <2> QED
    BY <1>1, <2>1, <2>2, <2>3, <2>4 DEF RowShown
<1> QED
  BY <1>1, <1>3, <1>4

\* The balance is kept by every step.
LEMMA BalanceStep ==
  ASSUME IInv, EffectInv, AnswerInv, CountInv, OneParked, [Next]_vars,
         NEW a \in Actions, FinalInv(a), BalanceInv(a)
  PROVE  BalanceInv(a)'
<1> SUFFICES ASSUME crashes' + aborts' = 0
             PROVE  /\ status'[a] \in {"APPLIED", "EXPIRED"} => Unreturned(a)' = {}
                    /\ status'[a] \notin {"APPLIED", "EXPIRED", "IRREVERSIBLE"} =>
                         \E t \in Attempts : Unreturned(a)' = {t}
  BY RowShownStep DEF BalanceInv
<1>1. /\ crashes + aborts = 0 /\ \A t \in Attempts : ~ RecoverStatus(t)
      /\ Unreturned(a) \subseteq Attempts /\ Unreturned(a)' \subseteq Attempts
  BY NothingLost DEF Unreturned, Begun, AllBegun
<1>2. /\ status[a] \in {"APPLIED", "EXPIRED"} => Unreturned(a) = {}
      /\ status[a] \notin {"APPLIED", "EXPIRED", "IRREVERSIBLE"} =>
           \E t \in Attempts : Unreturned(a) = {t}
  BY <1>1 DEF BalanceInv
<1>3. \A t \in Attempts : t \in Unreturned(a)' <=>
           \/ Begin(t) /\ A(t) = a
           \/ /\ t \in Unreturned(a)
              /\ ~ (RecordStatus(t) /\ StatusAfter(frame[t].outcome) = "APPLIED")
  BY UnreturnedMoves
<1>4. \A r \in Requests : Begin(r) \/ RecordStatus(r) =>
        /\ pc[r] \in {"begin", "status"} /\ pc'[r] # pc[r]
        /\ \A s \in Requests \ {r} : pc'[s] = pc[s]
        /\ Begin(r) => pc[r] = "begin"
        /\ RecordStatus(r) => pc[r] = "status"
  BY OneHandlerMoves, RecordStatusMoves
  DEF Handle, Begin, Step, Goto, IInv, TypeInv, HandlersOK, HandlerTypeOK
<1>5. ASSUME NEW r \in Requests, Begin(r), A(r) = a
      PROVE  Unreturned(a)' = {r} /\ status'[a] = "REVERSING"
  <2>1. status[a] = "APPLIED" /\ status'[a] = "REVERSING"
    BY <1>5 DEF Begin, UpdateRow, IInv, TypeInv, StoreOK, StoreTypeOK
  <2>2. \A t \in Requests : Begin(t) => t = r
    BY <1>4, <1>5
  <2> QED
    BY <1>1, <1>2, <1>3, <1>5, <2>1, <2>2
<1>6. ASSUME NEW r \in Requests, RecordStatus(r), A(r) = a
      PROVE  /\ status'[a] = "APPLIED" => Unreturned(a)' = {}
             /\ status'[a] # "APPLIED" => Unreturned(a)' = {r}
             /\ status'[a] # "EXPIRED"
  <2>1. /\ pc[r] = "status" /\ status[a] = "REVERSING"
        /\ status'[a] = StatusAfter(frame[r].outcome)
        /\ attempts[r].state # "NONE" /\ attempts[r].action = a
        /\ frame[r].outcome \in Outcomes
    BY <1>6, RecordStatusMoves
  <2>2. r \in Unreturned(a)
    <3>1. ~ ToldApplied(r)
      BY <2>1, ToldMoves
    <3> QED
      BY <2>1, <3>1 DEF Unreturned, Begun, AllBegun, Returned, Returning
  <2>3. Unreturned(a) = {r}
    BY <1>2, <2>1, <2>2
  <2>4. \A t \in Requests : ~ Begin(t)
    BY <1>4, <1>6
  <2>5. status'[a] # "EXPIRED"
    BY <2>1, StatusesAfter
  <2> QED
    BY <1>1, <1>3, <1>6, <2>1, <2>3, <2>4, <2>5
<1>7. CASE \A r \in Requests : A(r) = a => ~ Begin(r) /\ ~ RecordStatus(r)
  <2>1. \A t \in Unreturned(a) : ~ RecordStatus(t)
    BY <1>7, RecordStatusMoves DEF Unreturned, Begun, AllBegun
  <2>2. Unreturned(a)' = Unreturned(a)
    BY <1>1, <1>3, <1>7, <2>1
  <2>3. status'[a] = status[a] \/ (status[a] = "APPLIED" /\ status'[a] = "EXPIRED")
    <3>1. ASSUME NEW r \in Requests, Begin(r) PROVE status'[a] = status[a]
      BY <1>7, <3>1 DEF Begin, UpdateRow, IInv, TypeInv, StoreOK, StoreTypeOK
    <3>2. ASSUME NEW r \in Requests, RecordStatus(r) PROVE status'[a] = status[a]
      BY <1>7, <3>2, RecordStatusMoves
    <3>3. ASSUME NEW r \in Requests, SweepExpire(r)
          PROVE  status'[a] = status[a] \/ (status[a] = "APPLIED" /\ status'[a] = "EXPIRED")
      BY <3>3, SweepExpireMoves
    <3> QED
      BY <1>1, <3>1, <3>2, <3>3, WhoMoves
  <2> QED
    BY <1>2, <2>2, <2>3
<1> QED
  BY <1>5, <1>6, <1>7

-----------------------------------------------------------------------------
(* The balance, from the counts. *)

\* The handlers that have still to insert a row.
OwedRows(a, from, to) ==
  {r \in Requests :
     \/ pc[r] = "history" /\ A(r) = a
          /\ <<from, to>> = <<"REVERSING", StatusAfter(frame[r].outcome)>>
     \/ pc[r] = "expired" /\ frame[r].cur = a
          /\ <<from, to>> = <<"APPLIED", "EXPIRED">>}

\* The rows of the ledger are those on record and those owed.
LEMMA RowsAre ==
  ASSUME NEW a, NEW from, NEW to
  PROVE  Rows(a, from, to) = Cardinality(RowsOf(a, <<from, to>>))
                               + Cardinality(OwedRows(a, from, to))
  BY DEF Rows, RowsOf, OwedRows

\* A row into REVERSING is inserted with its UPDATE, so that nobody owes one.
LEMMA BegunRows ==
  ASSUME IInv, CountInv, NEW a \in Actions
  PROVE  Rows(a, "APPLIED", "REVERSING") = Cardinality(Begun(a))
<1>1. OwedRows(a, "APPLIED", "REVERSING") = {}
  BY DEF OwedRows
<1>2. Cardinality(OwedRows(a, "APPLIED", "REVERSING")) = 0
  BY <1>1, FS_EmptySet
<1>3. Cardinality(RowsOf(a, <<"APPLIED", "REVERSING">>)) = Cardinality(Begun(a))
  BY DEF CountInv, BeginRow
<1>4. Cardinality(Begun(a)) \in Nat
  BY LedgerFinite
<1> QED
  BY <1>2, <1>3, <1>4, RowsAre

\* Rows back to APPLIED, on record or owed, are the attempts not unreturned.
LEMMA ReturnRows ==
  ASSUME IInv, EffectInv, AnswerInv, CountInv, NEW a \in Actions
  PROVE  /\ Rows(a, "REVERSING", "APPLIED")
              = Cardinality(Returned(a) \cup Returning(a))
         /\ IsFiniteSet(Returned(a) \cup Returning(a))
         /\ Cardinality(Returned(a) \cup Returning(a)) \in Nat
         /\ Begun(a) = (Returned(a) \cup Returning(a)) \cup Unreturned(a)
<1>1. OwedRows(a, "REVERSING", "APPLIED") = Returning(a)
  BY DEF OwedRows, Returning
<1>2. Returning(a) \in SUBSET Begun(a) /\ Returned(a) \cap Returning(a) = {}
  BY HistoryHolder DEF Returning
<1>3. /\ IsFiniteSet(Begun(a)) /\ IsFiniteSet(Returned(a))
      /\ Returned(a) \subseteq Begun(a) /\ Cardinality(Returned(a)) \in Nat
  BY LedgerFinite
<1>4. IsFiniteSet(Returning(a))
  BY <1>2, <1>3, FS_Subset
<1>5. Cardinality(Returning(a)) \in Nat
  BY <1>4, FS_CardinalityType
<1>6. /\ IsFiniteSet(Returned(a) \cup Returning(a))
      /\ Cardinality(Returned(a) \cup Returning(a))
           = Cardinality(Returned(a)) + Cardinality(Returning(a))
               - Cardinality(Returned(a) \cap Returning(a))
  BY <1>3, <1>4, FS_Union
<1>7. Cardinality(Returned(a) \cap Returning(a)) = 0
  BY <1>2, FS_EmptySet
<1>8. Cardinality(RowsOf(a, <<"REVERSING", "APPLIED">>)) = Cardinality(Returned(a))
  BY DEF CountInv, ReturnRow
<1>9. Begun(a) = (Returned(a) \cup Returning(a)) \cup Unreturned(a)
  BY <1>2, <1>3 DEF Unreturned
<1> QED
  BY <1>1, <1>3, <1>5, <1>6, <1>7, <1>8, <1>9, RowsAre

\* The row of the status an Action has settled in is one, on record or owed.
LEMMA FinalOnce ==
  ASSUME IInv, HistoryOrder, NEW a \in Actions, FinalInv(a), RowShown(a),
         NEW from, status[a] \notin {"APPLIED", "REVERSING"},
         <<from, status[a]>> = FinalRow(status[a])
  PROVE  Rows(a, from, status[a]) = 1
<1> DEFINE row == <<from, status[a]>>
           L == Len(history[a])
<1>1. L \in Nat
  BY RowsCounted
<1>2. Settled(status[a])
  BY DEF Settled
<1>3. row[2] = status[a]
  OBVIOUS
<1>4. row # ReturnRow
  BY DEF ReturnRow
<1>5. \A r \in OwedRows(a, from, status[a]) : OwesFinal(r, a)
  BY DEF OwedRows, OwesFinal
<1>6. ASSUME NEW r \in Requests, OwesFinal(r, a)
      PROVE  r \in OwedRows(a, from, status[a])
  <2>1. status[a] = OwedStatus(r)
    BY <1>6 DEF FinalInv
  <2>2. CASE pc[r] = "history"
    <3>1. status[a] = StatusAfter(frame[r].outcome) /\ frame[r].outcome \in Outcomes
          /\ A(r) = a
      BY <1>6, <2>1, <2>2 DEF OwedStatus, OwesFinal, IInv, TypeInv, HandlersOK, LocalsFit
    <3>2. status[a] # "EXPIRED"
      BY <3>1, StatusesAfter
    <3> QED
      BY <2>2, <3>1, <3>2 DEF OwedRows, FinalRow
  <2>3. CASE pc[r] = "expired"
    BY <1>6, <2>1, <2>3 DEF OwedStatus, OwesFinal, OwedRows, FinalRow
  <2> QED
    BY <1>6, <2>2, <2>3 DEF OwesFinal
<1>7. CASE \E r \in Requests : OwesFinal(r, a)
  <2>1. PICK r \in Requests : OwesFinal(r, a)
    BY <1>7
  <2>2. /\ ~ HasFinalRow(a) /\ \A s \in Requests : OwesFinal(s, a) => s = r
    BY <2>1 DEF FinalInv
  <2>3. OwedRows(a, from, status[a]) = {r}
    BY <1>5, <1>6, <2>1, <2>2 DEF OwedRows
  <2>4. RowsOf(a, row) = {}
    BY <1>2, <1>3, <2>2 DEF RowsOf, HasFinalRow
  <2>5. Cardinality(OwedRows(a, from, status[a])) = 1
    BY <2>3, FS_Singleton
  <2>6. Cardinality(RowsOf(a, row)) = 0
    BY <2>4, FS_EmptySet
  <2> QED
    BY <2>5, <2>6, RowsAre
<1>8. CASE ~ \E r \in Requests : OwesFinal(r, a)
  <2>1. PICK n \in 1..L : history[a][n] = row
    BY <1>8 DEF RowShown
  <2>2. \A m \in 1..L : history[a][m] = row =>
          \A k \in m + 1..L : history[a][k] = ReturnRow
    BY <1>2, <1>3 DEF HistoryOrder, Settled, ReturnRow
  <2>3. \A m \in 1..L : history[a][m] = row => m = n
    <3> SUFFICES ASSUME NEW m \in 1..L, history[a][m] = row, m # n PROVE FALSE
      OBVIOUS
    <3>1. n \in m + 1..L \/ m \in n + 1..L
      BY <1>1
    <3> QED
      BY <1>4, <2>1, <2>2, <3>1
  <2>4. RowsOf(a, row) = {n}
    BY <2>1, <2>3 DEF RowsOf
  <2>5. OwedRows(a, from, status[a]) = {}
    BY <1>5, <1>8 DEF OwedRows
  <2>6. Cardinality(RowsOf(a, row)) = 1
    BY <2>4, FS_Singleton
  <2>7. Cardinality(OwedRows(a, from, status[a])) = 0
    BY <2>5, FS_EmptySet
  <2> QED
    BY <2>6, <2>7, RowsAre
<1> QED
  BY <1>7, <1>8

\* What is counted makes the ledger balance.
LEMMA LedgerBalances ==
  ASSUME IInv, EffectInv, AnswerInv, HistoryInv
  PROVE  HistoryBalanced
<1> SUFFICES ASSUME crashes + aborts = 0, NEW a \in Actions
             PROVE  LET begun == Rows(a, "APPLIED", "REVERSING")
                        ended(s) == Rows(a, "REVERSING", s) IN
                    /\ status[a] = "APPLIED" => begun = ended("APPLIED")
                    /\ status[a] = "REVERSING" => begun = ended("APPLIED") + 1
                    /\ status[a] \in {"REVERSED", "PARTIALLY_REVERSED",
                                      "REVERSE_FAILED", "OUTCOME_UNKNOWN"}
                         => ended(status[a]) = 1 /\ begun = ended("APPLIED") + 1
                    /\ status[a] = "EXPIRED" =>
                         Rows(a, "APPLIED", "EXPIRED") = 1 /\ begun = ended("APPLIED")
  BY DEF HistoryBalanced
<1> DEFINE back == Returned(a) \cup Returning(a)
<1>1. CountInv /\ FinalInv(a) /\ HistoryOrder /\ BalanceInv(a)
  BY DEF HistoryInv
<1>2. Rows(a, "APPLIED", "REVERSING") = Cardinality(Begun(a))
  BY <1>1, BegunRows
<1>3. /\ Rows(a, "REVERSING", "APPLIED") = Cardinality(back)
      /\ IsFiniteSet(back) /\ Begun(a) = back \cup Unreturned(a)
  BY <1>1, ReturnRows
<1>4. Unreturned(a) = {} =>
        Rows(a, "APPLIED", "REVERSING") = Rows(a, "REVERSING", "APPLIED")
  <2> HIDE DEF back
  <2>1. Unreturned(a) = {} => Begun(a) = back
    BY <1>3
  <2> QED
    BY <1>2, <1>3, <2>1
<1>5. (\E t \in Attempts : Unreturned(a) = {t}) =>
        Rows(a, "APPLIED", "REVERSING") = Rows(a, "REVERSING", "APPLIED") + 1
  <2> SUFFICES ASSUME NEW t \in Attempts, Unreturned(a) = {t}
               PROVE  Rows(a, "APPLIED", "REVERSING")
                        = Rows(a, "REVERSING", "APPLIED") + 1
    OBVIOUS
  <2>1. t \notin back
    BY DEF Unreturned
  <2> HIDE DEF back
  <2>2. Cardinality(back \cup {t}) = Cardinality(back) + 1
    BY <1>3, <2>1, FS_AddElement
  <2>3. Begun(a) = back \cup {t}
    BY <1>3
  <2> QED
    BY <1>2, <1>3, <2>2, <2>3
<1>6. status[a] \in {"REVERSED", "PARTIALLY_REVERSED", "REVERSE_FAILED",
                     "OUTCOME_UNKNOWN"} => Rows(a, "REVERSING", status[a]) = 1
  <2> SUFFICES ASSUME status[a] \in {"REVERSED", "PARTIALLY_REVERSED",
                                     "REVERSE_FAILED", "OUTCOME_UNKNOWN"}
               PROVE  Rows(a, "REVERSING", status[a]) = 1
    OBVIOUS
  <2>1. RowShown(a)
    BY <1>1 DEF BalanceInv
  <2>2. /\ status[a] \notin {"APPLIED", "REVERSING"}
        /\ <<"REVERSING", status[a]>> = FinalRow(status[a])
    BY DEF FinalRow
  <2> QED
    BY <1>1, <2>1, <2>2, FinalOnce
<1>7. status[a] = "EXPIRED" => Rows(a, "APPLIED", "EXPIRED") = 1
  <2> SUFFICES ASSUME status[a] = "EXPIRED" PROVE Rows(a, "APPLIED", status[a]) = 1
    OBVIOUS
  <2>1. RowShown(a)
    BY <1>1 DEF BalanceInv
  <2>2. /\ status[a] \notin {"APPLIED", "REVERSING"}
        /\ <<"APPLIED", status[a]>> = FinalRow(status[a])
    BY DEF FinalRow
  <2> QED
    BY <1>1, <2>1, <2>2, FinalOnce
<1> HIDE DEF back
<1> QED
  BY <1>1, <1>4, <1>5, <1>6, <1>7 DEF BalanceInv

-----------------------------------------------------------------------------
(* The theorems. *)

\* At the start there is no row and no attempt, and nobody owes anything.
LEMMA HistoryInit ==
  Init => HistoryInv
<1> SUFFICES ASSUME Init PROVE HistoryInv
  OBVIOUS
<1>1. /\ \A t \in Attempts : attempts[t].state = "NONE" /\ pc[t] = "idle"
      /\ \A a \in Actions : /\ history[a] = <<>>
                            /\ status[a] \in {"APPLIED", "IRREVERSIBLE"}
      /\ boot = "up"
  BY DEF Init, StoreInit, NoAttempt
<1>2. /\ AllBegun = {}
      /\ \A a \in Actions : Begun(a) = {} /\ Returned(a) = {} /\ Unreturned(a) = {}
  BY <1>1 DEF AllBegun, Begun, Returned, Unreturned
<1>3. \A a \in Actions : Len(history[a]) = 0
  BY <1>1
<1>4. \A a \in Actions : ~ HasFinalRow(a) /\ \A row : RowsOf(a, row) = {}
  BY <1>3 DEF HasFinalRow, RowsOf
<1>5. CountInv
  BY <1>1, <1>2, <1>4, FS_EmptySet DEF CountInv
<1>6. OneParked
  BY <1>1 DEF OneParked
<1>7. \A a \in Actions : FinalInv(a)
  BY <1>1, <1>4 DEF FinalInv, OwesFinal, BootOwes
<1>8. \A a \in Actions : BalanceInv(a)
  BY <1>1, <1>2 DEF BalanceInv
<1>9. HistoryOrder
  BY <1>3 DEF HistoryOrder
<1> QED
  BY <1>5, <1>6, <1>7, <1>8, <1>9 DEF HistoryInv

\* Every step keeps what is said of the history.
LEMMA HistoryStep ==
  IInv /\ EffectInv /\ AnswerInv /\ HistoryInv /\ [Next]_vars => HistoryInv'
  BY CountStep, OneParkedStep, OrderStep, FinalStep, BalanceStep DEF HistoryInv

\* What requests are told, have read and write fits the rows.
AccountInv == AnswerInv /\ WindowInv /\ HistoryInv

\* Everything the theorems about requests rest on, in one place.
ServiceInv == IInv /\ EffectInv /\ AccountInv

\* It is inductive: in every state of every run of the service attempts own
\* their Actions, effects, keys, answers and reads fit the rows they speak of,
\* and the history accounts for them.
THEOREM ServiceInductive == Spec => []ServiceInv
<1>1. Init => ServiceInv
  BY TypeInit, OwnershipInit, EffectInit, AnswerInit, WindowInit, HistoryInit
  DEF IInv, Ownership, ServiceInv, AccountInv
<1>2. ServiceInv /\ [Next]_vars => ServiceInv'
  BY OwnershipInductive, EffectStep, AnswerStep, WindowStep, HistoryStep
  DEF ServiceInv, AccountInv
<1> QED
  BY <1>1, <1>2, PTL DEF Spec

\* Answers, reads and history are accounted for in every reachable state.
THEOREM AccountsAgree == Spec => []AccountInv
<1>1. ServiceInv => AccountInv
  BY DEF ServiceInv
<1> QED
  BY <1>1, ServiceInductive, PTL

\* History rows inserted after their updates, by handlers and recoveries that
\* interleave, still tell what happened: a row out of REVERSING follows an
\* unmatched row into it, and after a row into a final status come at most rows
\* that gave the Action back before.
THEOREM HistoryTellsOrder == Spec => []HistoryOrder
<1>1. ServiceInv => HistoryOrder
  BY DEF ServiceInv, AccountInv, HistoryInv
<1> QED
  BY <1>1, ServiceInductive, PTL

\* While nothing crashes or aborts, the history is a complete ledger of every
\* Action: with the rows still owed, its rows balance with its status.
THEOREM HistoryIsLedger == Spec => []HistoryBalanced
<1>1. ServiceInv => HistoryBalanced
  BY LedgerBalances DEF ServiceInv, AccountInv
<1> QED
  BY <1>1, ServiceInductive, PTL
=============================================================================
