----------------------------- MODULE ResourceApi -----------------------------
(***************************************************************************)
(* The reference provider: versioned resources that business calls create, *)
(* update, notify about and publish, each in one transaction with the      *)
(* record of its Action; and the reverse functions, each one conditional   *)
(* statement; the plan and verify functions, which only read.  The         *)
(* services are reduced to what they promise: a plan may be made at any    *)
(* time; a reversal reads the dependents, some time later takes the Action *)
(* from APPLIED to REVERSING, calls the reverse function once and settles, *)
(* or loses the outcome.                                                   *)
(*                                                                         *)
(* An Action stands for the business call that it records, and a resource  *)
(* for the Action that created it.  Every write writes a value of its own, *)
(* the Action's.                                                           *)
(***************************************************************************)
EXTENDS ActionStates, Integers, FiniteSets

CONSTANTS
  Creates, Updates, Notifies, Publishes,
  MaxPlans,     \* bound: plans held at a time, at most one of an Action
  None

Reversible == Creates \cup Updates \cup Notifies
Actions    == Reversible \cup Publishes

ASSUME KindsAssumption ==
  /\ Creates \cap (Updates \cup Notifies \cup Publishes) = {}
  /\ Updates \cap (Notifies \cup Publishes) = {}
  /\ Notifies \cap Publishes = {}

VARIABLES
  resource,       \* resources, per Action that created one
  notification,   \* notifications.status, per Action that sent one
  material,       \* reversal material of an update, and its resource
  deps,           \* action_dependencies: <<parent, dependent>>
  recorded,       \* the Actions that there are
  status,         \* actions.status, from the beginning that of the insert
  seen,           \* the dependents that a request on a create has read
  outcome,        \* what the reverse function answered, until it is recorded
  effect,         \* what the reversals of the Action have really done
  plan            \* the plan that a client holds until the reversal answers

business == <<resource, notification, material, deps>>
service  == <<recorded, status, seen, outcome>>
vars     == <<business, service, effect, plan>>

Values == Creates \cup Updates
ResourceRows == [version : Nat \ {0}, value : Values, published : BOOLEAN]
Materials == [on : Creates, previousValue : Values, previousVersion : Nat \ {0},
              expectedVersion : Nat \ {0}]
Plans == [basis : Nat, conflict : BOOLEAN]

\* NULL, or what is not there, is no value of a column or of a local.
ASSUME NoneAssumption ==
  /\ None \notin ResourceRows \cup Materials \cup Plans
       \cup {"SENT", "WITHDRAWN", "REVERSED", "PARTIALLY_REVERSED", "CONFLICT"}
  /\ \A edges \in SUBSET Updates : None # edges

\* Every row holds values of its columns' types, and only a recorded Action
\* has material, dependents or an effect.
TypeOK ==
  /\ resource \in [Creates -> ResourceRows \cup {None}]
  /\ notification \in [Notifies -> {"SENT", "WITHDRAWN", None}]
  /\ material \in [Updates -> Materials \cup {None}]
  /\ deps \subseteq Creates \X Updates
  /\ \A e \in deps : material[e[2]] # None
  /\ recorded \subseteq Actions
  /\ status \in [Actions -> Statuses]
  /\ seen \in [Creates -> (SUBSET Updates) \cup {None}]
  /\ outcome \in [Reversible -> {"REVERSED", "PARTIALLY_REVERSED", "CONFLICT", None}]
  /\ effect \in [Actions -> {"none", "full", "partial"}]
  /\ plan \in [Reversible -> Plans \cup {None}]
  /\ \A a \in Actions : effect[a] # "none" => a \in recorded

Init ==
  /\ resource = [c \in Creates |-> None]
  /\ notification = [n \in Notifies |-> None]
  /\ material = [u \in Updates |-> None]
  /\ deps = {}
  /\ recorded = {}
  /\ status = [a \in Actions |-> IF a \in Publishes THEN "IRREVERSIBLE" ELSE "APPLIED"]
  /\ seen = [c \in Creates |-> None]
  /\ outcome = [a \in Reversible |-> None]
  /\ effect = [a \in Actions |-> "none"]
  /\ plan = [a \in Reversible |-> None]

-----------------------------------------------------------------------------
(* Business calls: the mutation and the Action commit together. *)

Exists(c) == resource[c] # None

\* CreateAction inserts the row with its first status.
Record(a) == /\ a \notin recorded
             /\ recorded' = recorded \cup {a}
             /\ UNCHANGED <<status, seen, outcome, effect, plan>>

Create(c) ==
  /\ Record(c)
  /\ resource' = [resource EXCEPT ![c] =
                    [version |-> 1, value |-> c, published |-> FALSE]]
  /\ UNCHANGED <<notification, material, deps>>

\* Mutant: the update keeps the version.
UpdateInPlace(u, c) ==
  /\ Record(u)
  /\ Exists(c) /\ ~ resource[c].published
  /\ LET prior == resource[c] IN
       /\ resource' = [resource EXCEPT ![c].value = u]
       /\ material' = [material EXCEPT ![u] =
            [on |-> c, previousValue |-> prior.value,
             previousVersion |-> prior.version,
             expectedVersion |-> prior.version]]
  /\ deps' = deps \cup {<<c, u>>}
  /\ UNCHANGED notification

Update(u, c) ==
  /\ Record(u)
  /\ Exists(c) /\ ~ resource[c].published
  /\ LET prior == resource[c] IN
       /\ resource' = [resource EXCEPT ![c] =
            [version |-> prior.version + 1, value |-> u, published |-> FALSE]]
       /\ material' = [material EXCEPT ![u] =
            [on |-> c, previousValue |-> prior.value,
             previousVersion |-> prior.version,
             expectedVersion |-> prior.version + 1]]
  /\ deps' = deps \cup {<<c, u>>}
  /\ UNCHANGED notification

Notify(n, c) ==
  /\ Record(n)
  /\ Exists(c)
  /\ notification' = [notification EXCEPT ![n] = "SENT"]
  /\ UNCHANGED <<resource, material, deps>>

\* Mutant: publishing keeps the version.
PublishInPlace(p, c) ==
  /\ Record(p)
  /\ Exists(c)
  /\ resource' = [resource EXCEPT ![c].published = TRUE]
  /\ UNCHANGED <<notification, material, deps>>

Publish(p, c) ==
  /\ Record(p)
  /\ Exists(c)
  /\ resource' = [resource EXCEPT ![c] =
       [version |-> resource[c].version + 1, value |-> resource[c].value,
        published |-> TRUE]]
  /\ UNCHANGED <<notification, material, deps>>

-----------------------------------------------------------------------------
(* Planning: a snapshot for the client.  Basis 0 stands for none. *)

PlanCreate(c) == IF Exists(c)
                 THEN [basis |-> resource[c].version,
                       conflict |-> resource[c].published]
                 ELSE [basis |-> 0, conflict |-> TRUE]

PlanUpdate(u) ==
  LET m == material[u] IN
  IF Exists(m.on)
  THEN [basis |-> resource[m.on].version,
        conflict |-> \/ resource[m.on].published
                     \/ resource[m.on].version # m.expectedVersion]
  ELSE [basis |-> 0, conflict |-> TRUE]

PlanNotify(n) == [basis |-> 0, conflict |-> notification[n] # "SENT"]

\* The conflicts that the service adds, for the Action's status and for its
\* dependents, are in module Inquiry; so is what a plan says when nothing is
\* left to reverse, which no reversal can fulfil or refute.
Plan(a) ==
  /\ a \in recorded /\ plan[a] = None
  /\ status[a] \in {"APPLIED", "REVERSING"}
  /\ Cardinality({b \in Reversible : plan[b] # None}) < MaxPlans
  /\ plan' = [plan EXCEPT ![a] = CASE a \in Creates  -> PlanCreate(a)
                                    [] a \in Updates  -> PlanUpdate(a)
                                    [] a \in Notifies -> PlanNotify(a)]
  /\ UNCHANGED <<business, service, effect>>

-----------------------------------------------------------------------------
(* The service, as far as the provider meets it. *)

\* Dependencies.Blocking reads the edges of a create once; no other Action of
\* this provider has dependents.
ReadDependents(c) ==
  /\ c \in recorded /\ status[c] = "APPLIED"
  /\ seen' = [seen EXCEPT ![c] = {u \in Updates : <<c, u>> \in deps}]
  /\ UNCHANGED <<business, recorded, status, outcome, effect, plan>>

Resolved == {"REVERSED", "PARTIALLY_REVERSED"}

\* Mutant: an update whose own window has passed no longer blocks.
UnblockedByExpired(c) ==
  seen[c] # None /\ \A u \in seen[c] : status[u] \in Resolved \cup {"EXPIRED"}

\* A dependent that is resolved stays so: its query may count at any time from
\* the edges' to Transaction A.
Unblocked(c) == seen[c] # None /\ \A u \in seen[c] : status[u] \in Resolved

Begin(a) ==
  /\ a \in recorded /\ status[a] = "APPLIED"
  /\ a \in Creates => Unblocked(a)
  /\ status' = [status EXCEPT ![a] = "REVERSING"]
  /\ UNCHANGED <<business, recorded, seen, outcome, effect, plan>>

Executing(a) == status[a] = "REVERSING" /\ outcome[a] = None

Answer(a, o, e) ==
  /\ outcome' = [outcome EXCEPT ![a] = o]
  /\ effect' = [effect EXCEPT ![a] = e]
  /\ plan' = [plan EXCEPT ![a] = None]
  /\ UNCHANGED <<recorded, status, seen>>

Conflict(a) == Answer(a, "CONFLICT", effect[a]) /\ UNCHANGED business

\* Mutant: DELETE without AND published = 0.
DeleteCreated(c) ==
  /\ Executing(c)
  /\ IF Exists(c)
     THEN /\ resource' = [resource EXCEPT ![c] = None]
          /\ Answer(c, "REVERSED", "full")
          /\ UNCHANGED <<notification, material, deps>>
     ELSE Conflict(c)

\* A resource's id is drawn by the Action that created it, so that the two
\* conditions on them are one.
ReverseCreate(c) ==
  /\ Executing(c)
  /\ IF Exists(c) /\ ~ resource[c].published
     THEN /\ resource' = [resource EXCEPT ![c] = None]
          /\ Answer(c, "REVERSED", "full")
          /\ UNCHANGED <<notification, material, deps>>
     ELSE Conflict(c)

\* Mutants: the version is not compared; RowsAffected is not looked at.
RestoreBlindly(u) ==
  /\ Executing(u)
  /\ LET m == material[u] IN
     IF Exists(m.on) /\ ~ resource[m.on].published
     THEN /\ resource' = [resource EXCEPT ![m.on].value = m.previousValue,
                                          ![m.on].version = m.previousVersion]
          /\ Answer(u, "REVERSED", "full")
          /\ UNCHANGED <<notification, material, deps>>
     ELSE Conflict(u)
RestoreUnchecked(u) ==
  /\ Executing(u)
  /\ LET m == material[u] IN
     IF Exists(m.on) /\ resource[m.on].version = m.expectedVersion
                     /\ ~ resource[m.on].published
     THEN /\ resource' = [resource EXCEPT ![m.on].value = m.previousValue,
                                          ![m.on].version = m.previousVersion]
          /\ Answer(u, "REVERSED", "full")
          /\ UNCHANGED <<notification, material, deps>>
     ELSE Answer(u, "REVERSED", effect[u]) /\ UNCHANGED business

\* The material is written with the Action, so it is there and well formed.
ReverseUpdate(u) ==
  /\ Executing(u)
  /\ LET m == material[u] IN
     IF Exists(m.on) /\ resource[m.on].version = m.expectedVersion
                     /\ ~ resource[m.on].published
     THEN /\ resource' = [resource EXCEPT ![m.on] =
               [version |-> m.previousVersion, value |-> m.previousValue,
                published |-> FALSE]]
          /\ Answer(u, "REVERSED", "full")
          /\ UNCHANGED <<notification, material, deps>>
     ELSE Conflict(u)

ReverseNotify(n) ==
  /\ Executing(n)
  /\ IF notification[n] = "SENT"
     THEN /\ notification' = [notification EXCEPT ![n] = "WITHDRAWN"]
          /\ Answer(n, "PARTIALLY_REVERSED", "partial")
          /\ UNCHANGED <<resource, material, deps>>
     ELSE Conflict(n)

\* No request reverses the Action any more: what requests read and clients
\* planned for it is of no use.
Forget(a) == /\ seen' = [c \in Creates |-> IF c = a THEN None ELSE seen[c]]
             /\ plan' = [plan EXCEPT ![a] = None]

\* Mutant: the answer is stored as the status.
SettleAsAnswered(a) ==
  /\ status[a] = "REVERSING" /\ outcome[a] # None
  /\ status' = [status EXCEPT ![a] = outcome[a]]
  /\ outcome' = [outcome EXCEPT ![a] = None]
  /\ UNCHANGED <<business, recorded, seen, effect, plan>>

\* CONFLICT is an attempt's result, not a status: the Action is APPLIED again.
Settle(a) ==
  /\ status[a] = "REVERSING" /\ outcome[a] # None
  /\ \/ /\ outcome[a] = "CONFLICT"
        /\ status' = [status EXCEPT ![a] = "APPLIED"]
        /\ UNCHANGED <<seen, plan>>
     \/ /\ outcome[a] # "CONFLICT"
        /\ status' = [status EXCEPT ![a] = outcome[a]]
        /\ Forget(a)
  /\ outcome' = [outcome EXCEPT ![a] = None]
  /\ UNCHANGED <<business, recorded, effect>>

\* A failing statement or a crash, before the reverse function or after it.
LoseOutcome(a) ==
  /\ status[a] = "REVERSING"
  /\ status' = [status EXCEPT ![a] = "OUTCOME_UNKNOWN"]
  /\ outcome' = [outcome EXCEPT ![a] = None]
  /\ Forget(a)
  /\ UNCHANGED <<business, recorded, effect>>

Expire(a) ==
  /\ a \in recorded /\ status[a] = "APPLIED"
  /\ status' = [status EXCEPT ![a] = "EXPIRED"]
  /\ Forget(a)
  /\ UNCHANGED <<business, recorded, outcome, effect>>

Next ==
  \/ \E c \in Creates :
       \/ Create(c) \/ ReadDependents(c) \/ ReverseCreate(c)
       \/ \E u \in Updates : Update(u, c)
       \/ \E n \in Notifies : Notify(n, c)
       \/ \E p \in Publishes : Publish(p, c)
  \/ \E u \in Updates : ReverseUpdate(u)
  \/ \E n \in Notifies : ReverseNotify(n)
  \/ \E a \in Reversible : Plan(a) \/ Begin(a) \/ Settle(a) \/ LoseOutcome(a) \/ Expire(a)

Spec == Init /\ [][Next]_vars

-----------------------------------------------------------------------------
(* Verification: read-only postconditions of a reversal. *)

\* Mutant: a resource that is gone counts as restored.
GoneIsRestored(u) ==
  LET m == material[u] IN
  ~ Exists(m.on) \/ ( /\ resource[m.on].value = m.previousValue
                      /\ resource[m.on].version = m.previousVersion
                      /\ ~ resource[m.on].published )

VerifiedCreate(c) == ~ Exists(c)
VerifiedUpdate(u) ==
  LET m == material[u] IN
  Exists(m.on) /\ resource[m.on].value = m.previousValue
               /\ resource[m.on].version = m.previousVersion
               /\ ~ resource[m.on].published
VerifiedNotify(n) == notification[n] = "WITHDRAWN"

Verified(a) == \/ a \in Creates /\ VerifiedCreate(a)
               \/ a \in Updates /\ VerifiedUpdate(a)
               \/ a \in Notifies /\ VerifiedNotify(a)

-----------------------------------------------------------------------------
(* Properties *)

\* The updates of a resource that nothing has undone.
Live(c) == {u \in Updates : /\ material[u] # None /\ material[u].on = c
                            /\ effect[u] = "none"}

\* What was written as version v of the resource and is not undone.
Written(c, v) ==
  (IF v = 1 THEN {c} ELSE {})
    \cup {u \in Live(c) : material[u].expectedVersion = v}

\* Versions are reused after a restore, and yet the updates not undone are the
\* resource's history: one for each version from 2 on, each with the material
\* of the one below it.  So a version number alone is a safe anchor (I-7).
VersionsAreHistory ==
  \A c \in Creates : Exists(c) /\ ~ resource[c].published =>
    /\ \A v \in 1..resource[c].version : Cardinality(Written(c, v)) = 1
    /\ Cardinality(Live(c)) = resource[c].version - 1
    /\ Written(c, resource[c].version) = {resource[c].value}
    /\ \A u \in Live(c) : LET m == material[u] IN
         /\ m.previousVersion = m.expectedVersion - 1
         /\ Written(c, m.previousVersion) = {m.previousValue}

\* A restore never destroys another change (I-7): it finds the value its own
\* update wrote, and leaves the value that update had replaced.
RestoreIsExact ==
  [][\A u \in Updates : effect[u] = "none" /\ effect'[u] = "full" =>
       LET c == material[u].on IN
       /\ resource[c].value = u
       /\ resource'[c].value = material[u].previousValue
       /\ \A w \in Updates : w \in Live(c) \ {u} =>
            material[w].expectedVersion <= resource'[c].version]_vars

\* The irreversible boundary: what is published stays, with the value it had,
\* whatever updates and reversals were on their way.
PublishedStays ==
  [][\A c \in Creates : Exists(c) /\ resource[c].published =>
       /\ resource'[c] # None
       /\ resource'[c].value = resource[c].value
       /\ resource'[c].published]_vars

\* The reversal of a create never deletes a change that its request could see:
\* an update that was recorded when the dependents were read is undone.
DeleteSparesSeenChanges ==
  [][\A c \in Creates : Exists(c) /\ resource'[c] = None =>
       seen[c] \cap Live(c) = {}]_vars

\* A plan of an update whose basis is still the resource's version foretells
\* the reversal's answer: updates, restores and publications in between, which
\* reuse version numbers, never bring the version back with another meaning.
FreshPlanForetells ==
  [][\A u \in Updates :
       /\ Executing(u) /\ outcome'[u] # None
       /\ plan[u] # None /\ Exists(material[u].on)
       /\ plan[u].basis = resource[material[u].on].version
       => (outcome'[u] = "CONFLICT" <=> plan[u].conflict)]_vars

\* A reversal that verifies was really done, also where its outcome was lost:
\* the postconditions hold neither before it nor because of another one.
VerifiedMeansDone ==
  \A a \in Reversible : a \in recorded /\ Verified(a) => effect[a] # "none"

Contract == INSTANCE ReversalContract

\* Business calls and reversals together keep the contract that the services
\* rely on: an answer is true, and CONFLICT means that nothing was done.
KeepsContract == Contract!Spec

\* The reversal of a create deletes no change that is not undone.
DeleteLosesNothing ==
  [][\A c \in Creates : Exists(c) /\ resource'[c] = None => Live(c) = {}]_vars
=============================================================================
