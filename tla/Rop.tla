-------------------------------- MODULE Rop --------------------------------
(***************************************************************************)
(* The ROP server: Reverse requests and reconciliation rounds over one     *)
(* store and one provider, with aborts, crashes and restart recovery.      *)
(***************************************************************************)
EXTENDS Reversal, Reconciliation

ropVars == <<vars, rounds, observations>>

RopInit == Init /\ ReconcileInit

ServiceStep == /\ \/ \E r \in Requests :
                       Arrive(r) \/ Handle(r) \/ ProviderActs(r) \/ Abort(r)
                  \/ Recover \/ Tick \/ AddDependency
               /\ UNCHANGED <<rounds, observations>>

\* A round is answered only by a server that is up, as a request is.
ReconcileStep == /\ \E c \in Rounds : \/ boot = "up" /\ StartRound(c)
                                      \/ RoundStep(c)
                 /\ UNCHANGED <<handlers, provider, deps, now, server>>

AbortRound == /\ aborts < MaxAborts /\ aborts' = aborts + 1
              /\ \E c \in Rounds : RoundAborts(c)
              /\ UNCHANGED <<handlers, provider, deps, now, boot, parking, crashes>>

RopCrash == Crash /\ RoundsCrash

RopIdle == AllAnswered /\ (\A c \in Rounds : rpc[c] = "done")
                       /\ UNCHANGED <<rounds, observations>>

RopNext == ServiceStep \/ ReconcileStep \/ AbortRound \/ RopCrash \/ RopIdle

RopSpec == RopInit /\ [][RopNext]_ropVars

\* Handlers and rounds run until they answer: database calls return, an adapter
\* answers or gives up, and a restarted process completes its recovery.
Fairness ==
  /\ \A r \in Requests :
       WF_ropVars(Handle(r) /\ UNCHANGED <<rounds, observations>>)
  /\ \A c \in Rounds :
       WF_ropVars(RoundStep(c) /\ UNCHANGED <<handlers, provider, deps, now, server>>)
  /\ WF_ropVars(Recover /\ UNCHANGED <<rounds, observations>>)

FairSpec == RopSpec /\ Fairness

-----------------------------------------------------------------------------
(* Properties *)

Quiet == /\ boot = "up"
         /\ \A r \in Requests : ~ InFlight(r)
         /\ \A c \in Rounds : rpc[c] \in {"idle", "done"}

\* Every local of a round holds a value of its type.
RopTypeOK == TypeOK /\ ReconcileTypeOK

\* OUTCOME_UNKNOWN is left only on evidence recorded beforehand, and only for
\* the outcome that evidence proves (I-5); a second round that raced with the
\* first, or one that saw the attempt before a crash, changes nothing.
UnknownLeavesOnEvidence ==
  [][\A a \in Actions :
       status[a] = "OUTCOME_UNKNOWN" /\ status'[a] # "OUTCOME_UNKNOWN" =>
         \E t \in Attempts, e \in Evidence \ {"INCONCLUSIVE"} :
           /\ attempts[t].action = a /\ e \in observations[t]
           /\ attempts[t].observed = Proves(e) /\ status'[a] = Proves(e)]_ropVars

\* The service and its reconciliation together keep the contract.
RopImplementsContract == Contract!Init /\ [][Contract!Next]_(Contract!vars)

Proving(t) == observations[t] \ {"INCONCLUSIVE"}

\* When nothing runs, an OUTCOME_UNKNOWN Action has an attempt that a round can
\* still reconcile; the exception is a round cut off by a crash or an abort
\* after it concluded the attempt, and then the proof is recorded (I-5).
UnknownIsReconcilable ==
  Quiet => \A a \in Actions : status[a] = "OUTCOME_UNKNOWN" =>
    \E t \in Attempts : /\ attempts[t].action = a
                        /\ \/ attempts[t].state = "AWAITING_RECONCILIATION"
                           \/ /\ crashes + aborts > 0
                              /\ attempts[t].observed \in {Proves(e) : e \in Proving(t)}

\* What a round tells is true although it reads attempt and Action at different
\* times, and replays the attempt requested last, not the one that ran last: an
\* attempt did what its outcome says; where outcome and settled status differ,
\* either another attempt settled the Action after this one was refused, or
\* this one was still unknown when it was read.
RoundsTellTruth ==
  \A c \in Rounds : told[c].kind = "RESULT" =>
    LET t == told[c].attempt IN
    /\ told[c].outcome = "REVERSED" => effect[t] = "full"
    /\ told[c].outcome = "PARTIALLY_REVERSED" => effect[t] = "partial"
    /\ told[c].outcome \in {"CONFLICT", "REVERSE_FAILED"} =>
         effect[t] = "none" /\ t \notin calls
    /\ /\ told[c].status \in {"REVERSED", "PARTIALLY_REVERSED", "REVERSE_FAILED"}
       /\ told[c].outcome # told[c].status
       => \E u \in Attempts : /\ attempts[u].action = attempts[t].action
                              /\ attempts[u].observed = told[c].status
                              /\ u = t <=> told[c].outcome = "OUTCOME_UNKNOWN"

\* Every round is answered, whatever requests and other rounds do meanwhile: one
\* that finds its attempt concluded by another, or its status moved, ends too.
EveryRoundAnswered ==
  \A c \in Rounds : rpc[c] = "action" ~> rpc[c] = "done"

\* Proof of what an uncertain attempt did settles its Action, also when the round
\* that found it loses a race; only a round cut off with the proof in its hands
\* can prevent that.
EvidenceSettles ==
  \A t \in Attempts :
    Proving(t) # {} ~> \/ \E a \in Actions, e \in Proving(t) :
                            attempts[t].action = a /\ status[a] = Proves(e)
                       \/ \E c \in Rounds :
                            /\ told[c].kind = "LOST" /\ round[c].attempt = t
                            /\ round[c].evidence \in Proving(t)
=============================================================================
