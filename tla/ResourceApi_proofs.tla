------------------------- MODULE ResourceApi_proofs -------------------------
(***************************************************************************)
(* Theorems about the reference provider, for any numbers of resources,    *)
(* updates, notifications and publications, and any plans held.            *)
(***************************************************************************)
EXTENDS ResourceApi, FiniteSetTheorems, TLAPS

USE DEF Reversible, Actions

\* What there is was recorded: a resource, a notification, the material of an
\* update and the resource it is for.  What is gone was reversed.
RowsInv ==
  /\ \A c \in Creates : /\ Exists(c) => c \in recorded
                        /\ c \in recorded /\ ~ Exists(c) => effect[c] # "none"
  /\ \A u \in Updates : /\ material[u] # None <=> u \in recorded
                        /\ material[u] # None => material[u].on \in recorded
  /\ \A n \in Notifies : notification[n] = "WITHDRAWN" => effect[n] # "none"

\* An effect comes with the answer that tells it, and the status admits to it.
StageInv(a) ==
  /\ outcome[a] # None => status[a] = "REVERSING"
  /\ status[a] = "REVERSING" => a \in recorded
  /\ status[a] = "APPLIED" \/ Executing(a) \/ outcome[a] = "CONFLICT"
       => effect[a] = "none"
  /\ outcome[a] = "REVERSED" \/ status[a] = "REVERSED" => effect[a] = "full"
  /\ outcome[a] = "PARTIALLY_REVERSED" \/ status[a] = "PARTIALLY_REVERSED"
       => effect[a] = "partial"

\* The updates that are not undone lie below the version of their resource, and
\* strictly below once it is published; until then they are its history.
HistoryInv(c) ==
  /\ \A u \in Live(c) :
       /\ material[u].expectedVersion \in 2..resource[c].version
       /\ material[u].previousVersion = material[u].expectedVersion - 1
       /\ resource[c].published => material[u].expectedVersion < resource[c].version
  /\ ~ resource[c].published =>
       /\ IsFiniteSet(Live(c))
       /\ Cardinality(Live(c)) = resource[c].version - 1
       /\ Written(c, resource[c].version) = {resource[c].value}
       /\ \A v \in 1..resource[c].version : Cardinality(Written(c, v)) = 1
       /\ \A u \in Live(c) :
            Written(c, material[u].previousVersion) = {material[u].previousValue}

\* The updates a request has read are undone once its reversal has begun.
GateInv(c) ==
  status[c] = "REVERSING" =>
    seen[c] # None /\ \A u \in seen[c] : effect[u] # "none"

\* A plan of an update without a conflict was made at the version its restore
\* expects; one with a conflict at another, or of a resource published by now.
PlanInv(u) ==
  plan[u] # None =>
    /\ u \in recorded
    /\ ~ plan[u].conflict => plan[u].basis = material[u].expectedVersion
    /\ plan[u].conflict /\ Exists(material[u].on) =>
         \/ resource[material[u].on].published
         \/ plan[u].basis # material[u].expectedVersion

ApiInv == /\ TypeOK
          /\ RowsInv
          /\ \A a \in Reversible : StageInv(a)
          /\ \A c \in Creates : Exists(c) => HistoryInv(c)
          /\ \A c \in Creates : GateInv(c)
          /\ \A u \in Updates : PlanInv(u)

-----------------------------------------------------------------------------
(* Types *)

\* The initial rows have their types.
LEMMA TypeInit ==
  Init => TypeOK
  BY DEF Init, TypeOK, Statuses

\* Recording an Action is all a business call does to the service.
LEMMA RecordType ==
  ASSUME TypeOK, NEW a \in Actions, Record(a)
  PROVE  /\ recorded' \subseteq Actions /\ UNCHANGED <<status, seen, outcome, effect, plan>>
         /\ \A b \in Actions : effect'[b] # "none" => b \in recorded'
  BY DEF TypeOK, Record

\* Business calls write rows of their types.
LEMMA BusinessType ==
  ASSUME TypeOK, RowsInv, NEW c \in Creates,
         \/ Create(c)
         \/ \E u \in Updates : Update(u, c)
         \/ \E n \in Notifies : Notify(n, c)
         \/ \E p \in Publishes : Publish(p, c)
  PROVE  TypeOK'
<1>1. CASE Create(c)
  <2>1. [version |-> 1, value |-> c, published |-> FALSE] \in ResourceRows
    BY DEF ResourceRows, Values
  <2> QED
    BY <1>1, <2>1, RecordType DEF TypeOK, Create
<1>2. ASSUME NEW u \in Updates, Update(u, c) PROVE TypeOK'
  <2>1. resource[c] \in ResourceRows
    BY <1>2 DEF TypeOK, Update, Exists
  <2>2. [version |-> resource[c].version + 1, value |-> u, published |-> FALSE]
          \in ResourceRows
    BY <2>1 DEF ResourceRows, Values
  <2>3. resource' \in [Creates -> ResourceRows \cup {None}]
    BY <1>2, <2>2 DEF TypeOK, Update
  <2>4. PICK m \in Materials : material' = [material EXCEPT ![u] = m]
    <3> DEFINE row == resource[c]
               m == [on |-> c, previousValue |-> row.value,
                     previousVersion |-> row.version,
                     expectedVersion |-> row.version + 1]
    <3>1. m \in Materials
      BY <2>1 DEF ResourceRows, Materials
    <3>2. material' = [material EXCEPT ![u] = m]
      BY <1>2 DEF Update
    <3> QED
      BY <3>1, <3>2
  <2>5. /\ material' \in [Updates -> Materials \cup {None}]
        /\ \A v \in Updates : material[v] # None => material'[v] # None
        /\ material'[u] # None
    BY <2>4, NoneAssumption DEF TypeOK
  <2>6. deps' = deps \cup {<<c, u>>} /\ notification' = notification /\ Record(u)
    BY <1>2 DEF Update
  <2>7. deps' \subseteq Creates \X Updates /\ \A e \in deps' : material'[e[2]] # None
    BY <2>5, <2>6 DEF TypeOK
  <2> QED
    BY <2>3, <2>5, <2>6, <2>7, RecordType DEF TypeOK
<1>3. ASSUME NEW n \in Notifies, Notify(n, c) PROVE TypeOK'
  BY <1>3, RecordType DEF TypeOK, Notify
<1>4. ASSUME NEW p \in Publishes, Publish(p, c) PROVE TypeOK'
  <2>1. resource[c] \in ResourceRows
    BY <1>4 DEF TypeOK, Publish, Exists
  <2>2. [version |-> resource[c].version + 1, value |-> resource[c].value,
         published |-> TRUE] \in ResourceRows
    BY <2>1 DEF ResourceRows
  <2>3. resource' \in [Creates -> ResourceRows \cup {None}]
    BY <1>4, <2>2 DEF TypeOK, Publish
  <2> QED
    BY <1>4, <2>3, RecordType DEF TypeOK, Publish
<1> QED
  BY <1>1, <1>2, <1>3, <1>4

\* What an update has kept of its resource can be put back.
LEMMA RestoredRow ==
  ASSUME TypeOK, RowsInv, \A a \in Reversible : StageInv(a),
         NEW u \in Updates, ReverseUpdate(u)
  PROVE  /\ u \in recorded /\ material[u] \in Materials
         /\ [version |-> material[u].previousVersion, value |-> material[u].previousValue,
             published |-> FALSE] \in ResourceRows
<1>1. u \in recorded /\ material[u] \in Materials
  BY DEF StageInv, RowsInv, ReverseUpdate, Executing, TypeOK
<1> QED
  BY <1>1 DEF Materials, ResourceRows

\* So do the reverse functions.
LEMMA ReverseType ==
  ASSUME TypeOK, RowsInv, \A a \in Reversible : StageInv(a),
         \/ \E c \in Creates : ReverseCreate(c)
         \/ \E u \in Updates : ReverseUpdate(u)
         \/ \E n \in Notifies : ReverseNotify(n)
  PROVE  TypeOK'
<1>1. ASSUME NEW c \in Creates, ReverseCreate(c) PROVE TypeOK'
  <2>1. c \in recorded
    BY <1>1 DEF StageInv, ReverseCreate, Executing
  <2> QED
    BY <1>1, <2>1 DEF TypeOK, ReverseCreate, Conflict, Answer, business
<1>2. ASSUME NEW u \in Updates, ReverseUpdate(u) PROVE TypeOK'
  <2>1. u \in recorded /\ material[u] \in Materials
    BY <1>2, RestoredRow
  <2>2. resource' \in [Creates -> ResourceRows \cup {None}]
    BY <1>2, RestoredRow DEF TypeOK, ReverseUpdate, Conflict, business
  <2> QED
    BY <1>2, <2>1, <2>2 DEF TypeOK, ReverseUpdate, Conflict, Answer, business
<1>3. ASSUME NEW n \in Notifies, ReverseNotify(n) PROVE TypeOK'
  <2>1. n \in recorded
    BY <1>3 DEF StageInv, ReverseNotify, Executing
  <2> QED
    BY <1>3, <2>1 DEF TypeOK, ReverseNotify, Conflict, Answer, business
<1> QED
  BY <1>1, <1>2, <1>3

\* A plan is a version, or 0, and a verdict.
LEMMA PlanType ==
  ASSUME TypeOK, RowsInv, NEW a \in Reversible, Plan(a)
  PROVE  TypeOK'
<1>1. \A c \in Creates : resource[c] # None => resource[c].version \in Nat
                                              /\ resource[c].published \in BOOLEAN
  BY DEF TypeOK, ResourceRows
<1>2. \A c \in Creates : PlanCreate(c) \in Plans
  BY <1>1 DEF PlanCreate, Plans, Exists
<1>3. \A u \in Updates : u \in recorded => material[u].on \in Creates
  BY DEF RowsInv, TypeOK, Materials
<1>4. \A u \in Updates : u \in recorded => PlanUpdate(u) \in Plans
  BY <1>1, <1>3 DEF PlanUpdate, Plans, Exists
<1>5. \A n \in Notifies : PlanNotify(n) \in Plans
  BY DEF PlanNotify, Plans
<1>6. PICK p \in Plans : plan' = [plan EXCEPT ![a] = p]
  BY <1>2, <1>4, <1>5, KindsAssumption DEF Plan
<1> QED
  BY <1>6 DEF TypeOK, Plan, business, service

\* The service's steps move a status to a status.
LEMMA ServiceType ==
  ASSUME TypeOK,
         \/ \E c \in Creates : ReadDependents(c)
         \/ \E a \in Reversible : Begin(a) \/ Settle(a) \/ LoseOutcome(a) \/ Expire(a)
  PROVE  TypeOK'
<1>1. ASSUME NEW c \in Creates, ReadDependents(c) PROVE TypeOK'
  BY <1>1 DEF TypeOK, ReadDependents, business
<1>2. ASSUME NEW a \in Reversible, Forget(a)
      PROVE  /\ seen' \in [Creates -> (SUBSET Updates) \cup {None}]
             /\ plan' \in [Reversible -> Plans \cup {None}]
  BY <1>2 DEF TypeOK, Forget
<1>3. ASSUME NEW a \in Reversible, Begin(a) \/ Settle(a) \/ LoseOutcome(a) \/ Expire(a)
      PROVE  TypeOK'
  <2>1. status' \in [Actions -> Statuses]
    BY <1>3 DEF TypeOK, Begin, Settle, LoseOutcome, Expire, Statuses
  <2>2. outcome' \in [Reversible -> {"REVERSED", "PARTIALLY_REVERSED", "CONFLICT", None}]
    BY <1>3 DEF TypeOK, Begin, Settle, LoseOutcome, Expire
  <2>3. /\ seen' \in [Creates -> (SUBSET Updates) \cup {None}]
        /\ plan' \in [Reversible -> Plans \cup {None}]
    BY <1>2, <1>3 DEF TypeOK, Begin, Settle, LoseOutcome, Expire
  <2> QED
    BY <1>3, <2>1, <2>2, <2>3
    DEF TypeOK, Begin, Settle, LoseOutcome, Expire, business
<1> QED
  BY <1>1, <1>3

LEMMA TypeStep ==
  TypeOK /\ RowsInv /\ (\A a \in Reversible : StageInv(a)) /\ [Next]_vars => TypeOK'
<1>1. TypeOK /\ UNCHANGED vars => TypeOK'
  BY DEF TypeOK, vars, business, service
<1> QED
  BY <1>1, BusinessType, ReverseType, PlanType, ServiceType DEF Next

-----------------------------------------------------------------------------
(* Rows and stages *)

\* A business call changes only what has been recorded of the service.
LEMMA BusinessStage ==
  ASSUME TypeOK, \A a \in Reversible : StageInv(a), NEW b \in Actions, Record(b)
  PROVE  \A a \in Reversible : StageInv(a)'
  BY DEF Record, StageInv, Executing

\* An answer tells the effect that the reverse function had, and CONFLICT none.
LEMMA AnswerStage ==
  ASSUME TypeOK, \A a \in Reversible : StageInv(a), NEW b \in Reversible, Executing(b),
         \/ Answer(b, "REVERSED", "full")
         \/ Answer(b, "PARTIALLY_REVERSED", "partial")
         \/ Answer(b, "CONFLICT", effect[b])
  PROVE  \A a \in Reversible : StageInv(a)'
<1>1. \A a \in Reversible : recorded' = recorded /\ status'[a] = status[a]
  BY DEF Answer
<1>2. \A a \in Reversible \ {b} : outcome'[a] = outcome[a] /\ effect'[a] = effect[a]
  BY DEF Answer, TypeOK
<1>3. \A a \in Reversible \ {b} : StageInv(a)'
  BY <1>1, <1>2 DEF StageInv, Executing
<1>4. \/ outcome'[b] = "REVERSED" /\ effect'[b] = "full"
      \/ outcome'[b] = "PARTIALLY_REVERSED" /\ effect'[b] = "partial"
      \/ outcome'[b] = "CONFLICT" /\ effect'[b] = effect[b]
  BY DEF Answer, TypeOK
<1>5. StageInv(b)'
  BY <1>1, <1>4, NoneAssumption DEF StageInv, Executing
<1> QED
  BY <1>3, <1>5

\* The service's steps settle an Action as its answer says.
LEMMA ServiceStage ==
  ASSUME TypeOK, \A a \in Reversible : StageInv(a), NEW b \in Reversible,
         Begin(b) \/ Settle(b) \/ LoseOutcome(b) \/ Expire(b)
  PROVE  \A a \in Reversible : StageInv(a)'
<1>1. UNCHANGED <<recorded, effect>>
  BY DEF Begin, Settle, LoseOutcome, Expire
<1>2. \A a \in Reversible \ {b} : outcome'[a] = outcome[a] /\ status'[a] = status[a]
  BY DEF Begin, Settle, LoseOutcome, Expire, TypeOK
<1>3. \A a \in Reversible \ {b} : StageInv(a)'
  BY <1>1, <1>2 DEF StageInv, Executing
<1>4. CASE Begin(b)
  BY <1>1, <1>4, NoneAssumption DEF StageInv, Executing, Begin, TypeOK
<1>5. CASE Settle(b)
  BY <1>1, <1>5, NoneAssumption DEF StageInv, Executing, Settle, TypeOK
<1>6. CASE LoseOutcome(b) \/ Expire(b)
  BY <1>1, <1>6, NoneAssumption DEF StageInv, Executing, LoseOutcome, Expire, TypeOK
<1> QED
  BY <1>3, <1>4, <1>5, <1>6

\* Every step keeps effects, answers and statuses in agreement.
LEMMA StageStep ==
  ASSUME TypeOK, \A a \in Reversible : StageInv(a), [Next]_vars
  PROVE  \A a \in Reversible : StageInv(a)'
<1>1. ASSUME UNCHANGED <<recorded, status, outcome, effect>>
      PROVE  \A a \in Reversible : StageInv(a)'
  BY <1>1 DEF StageInv, Executing
<1>2. ASSUME NEW c \in Creates,
             \/ Create(c)
             \/ \E u \in Updates : Update(u, c)
             \/ \E n \in Notifies : Notify(n, c)
             \/ \E p \in Publishes : Publish(p, c)
      PROVE  \A a \in Reversible : StageInv(a)'
  BY <1>2, BusinessStage DEF Create, Update, Notify, Publish
<1>3. ASSUME NEW c \in Creates, ReverseCreate(c)
      PROVE  \A a \in Reversible : StageInv(a)'
  BY <1>3, AnswerStage DEF ReverseCreate, Conflict
<1>4. ASSUME NEW u \in Updates, ReverseUpdate(u)
      PROVE  \A a \in Reversible : StageInv(a)'
  BY <1>4, AnswerStage DEF ReverseUpdate, Conflict
<1>5. ASSUME NEW n \in Notifies, ReverseNotify(n)
      PROVE  \A a \in Reversible : StageInv(a)'
  BY <1>5, AnswerStage DEF ReverseNotify, Conflict
<1>6. CASE \/ \E c \in Creates : ReadDependents(c)
           \/ \E a \in Reversible : Plan(a)
           \/ UNCHANGED vars
  <2>1. UNCHANGED <<recorded, status, outcome, effect>>
    BY <1>6 DEF ReadDependents, Plan, vars, service
  <2> QED
    BY <1>1, <2>1
<1> QED
  BY <1>2, <1>3, <1>4, <1>5, <1>6, ServiceStage DEF Next

\* What a reverse function has done is not taken back.
LEMMA EffectsStay ==
  ASSUME TypeOK, \A a \in Reversible : StageInv(a), [Next]_vars,
         NEW a \in Actions, effect[a] # "none"
  PROVE  effect'[a] = effect[a]
<1>1. \A b \in Reversible : Executing(b) => b # a
  BY DEF StageInv
<1>2. ASSUME NEW c \in Creates, ReverseCreate(c) PROVE effect'[a] = effect[a]
  BY <1>1, <1>2 DEF ReverseCreate, Conflict, Answer, TypeOK
<1>3. ASSUME NEW u \in Updates, ReverseUpdate(u) PROVE effect'[a] = effect[a]
  BY <1>1, <1>3 DEF ReverseUpdate, Conflict, Answer, TypeOK
<1>4. ASSUME NEW n \in Notifies, ReverseNotify(n) PROVE effect'[a] = effect[a]
  BY <1>1, <1>4 DEF ReverseNotify, Conflict, Answer, TypeOK
<1>5. \/ effect' = effect
      \/ \E c \in Creates : ReverseCreate(c)
      \/ \E u \in Updates : ReverseUpdate(u)
      \/ \E n \in Notifies : ReverseNotify(n)
  BY DEF Next, Create, Update, Notify, Publish, Record, ReadDependents, Plan, Begin,
     Settle, LoseOutcome, Expire, vars
<1> QED
  BY <1>2, <1>3, <1>4, <1>5

\* The steps of the service, and plans, touch no row of the business.
LEMMA ServiceLeavesRows ==
  ASSUME \/ \E c \in Creates : ReadDependents(c)
         \/ \E a \in Reversible :
              Plan(a) \/ Begin(a) \/ Settle(a) \/ LoseOutcome(a) \/ Expire(a)
         \/ UNCHANGED vars
  PROVE  UNCHANGED <<resource, notification, material, deps, recorded, effect>>
  BY DEF ReadDependents, Plan, Begin, Settle, LoseOutcome, Expire, vars, business, service

\* Business calls record what they write.
LEMMA BusinessRows ==
  ASSUME TypeOK, RowsInv, NEW c \in Creates,
         \/ Create(c)
         \/ \E u \in Updates : Update(u, c)
         \/ \E n \in Notifies : Notify(n, c)
         \/ \E p \in Publishes : Publish(p, c)
  PROVE  RowsInv'
<1>1. ASSUME NEW a \in Actions, Record(a), a \notin Creates \cup Updates,
             material' = material, \A d \in Creates : Exists(d)' = Exists(d),
             \A n \in Notifies : notification'[n] = "WITHDRAWN" => notification[n] = "WITHDRAWN"
      PROVE  RowsInv'
  BY <1>1 DEF RowsInv, Record
<1>2. ASSUME NEW n \in Notifies, Notify(n, c) PROVE RowsInv'
  BY <1>1, <1>2, KindsAssumption DEF Notify, TypeOK, Exists
<1>3. ASSUME NEW p \in Publishes, Publish(p, c) PROVE RowsInv'
  <2>1. \A d \in Creates : Exists(d)' = Exists(d)
    <3>1. resource[c] \in ResourceRows
      BY <1>3 DEF Publish, TypeOK, Exists
    <3>2. PICK row \in ResourceRows : resource' = [resource EXCEPT ![c] = row]
      <4>1. [version |-> resource[c].version + 1, value |-> resource[c].value,
             published |-> TRUE] \in ResourceRows
        BY <3>1 DEF ResourceRows
      <4> QED
        BY <1>3, <4>1 DEF Publish
    <3> QED
      BY <3>1, <3>2, NoneAssumption DEF TypeOK, Exists
  <2>2. p \in Actions /\ p \notin Creates \cup Updates /\ Record(p)
        /\ material' = material /\ notification' = notification
    BY <1>3, KindsAssumption DEF Publish
  <2> QED
    BY <1>1, <2>1, <2>2
<1>4. CASE Create(c)
  <2>1. [version |-> 1, value |-> c, published |-> FALSE] \in ResourceRows
    BY DEF ResourceRows, Values
  <2> QED
    BY <1>4, <2>1, NoneAssumption, KindsAssumption
    DEF RowsInv, Create, Record, TypeOK, Exists
<1>5. ASSUME NEW u \in Updates, Update(u, c) PROVE RowsInv'
  <2>1. resource[c] \in ResourceRows
    BY <1>5 DEF Update, TypeOK, Exists
  <2>2. PICK row \in ResourceRows : resource' = [resource EXCEPT ![c] = row]
    <3>1. [version |-> resource[c].version + 1, value |-> u, published |-> FALSE]
            \in ResourceRows
      BY <2>1 DEF ResourceRows, Values
    <3> QED
      BY <1>5, <3>1 DEF Update
  <2>3. \A d \in Creates : Exists(d)' = Exists(d)
    BY <2>1, <2>2, NoneAssumption DEF TypeOK, Exists
  <2>4. PICK m \in Materials : material' = [material EXCEPT ![u] = m] /\ m.on = c
    <3> DEFINE prior == resource[c]
               m == [on |-> c, previousValue |-> prior.value,
                     previousVersion |-> prior.version,
                     expectedVersion |-> prior.version + 1]
    <3>1. m \in Materials
      BY <2>1 DEF ResourceRows, Materials
    <3>2. material' = [material EXCEPT ![u] = m] /\ m.on = c
      BY <1>5 DEF Update
    <3> QED
      BY <3>1, <3>2
  <2>5. m # None /\ c \in recorded /\ Record(u) /\ notification' = notification
    BY <1>5, NoneAssumption DEF Update, RowsInv
  <2> QED
    BY <2>3, <2>4, <2>5, KindsAssumption DEF RowsInv, Record, TypeOK
<1> QED
  BY <1>2, <1>3, <1>4, <1>5

\* Reverse functions remove only what they then say is reversed.
LEMMA RowsStep ==
  ASSUME TypeOK, RowsInv, \A a \in Reversible : StageInv(a), [Next]_vars
  PROVE  RowsInv'
<1>1. ASSUME UNCHANGED <<material, recorded, notification>>,
             \A d \in Creates : Exists(d)' = Exists(d)
      PROVE  RowsInv'
  BY <1>1, EffectsStay DEF RowsInv
<1>2. ASSUME NEW c \in Creates, ReverseCreate(c) PROVE RowsInv'
  <2>1. CASE Conflict(c)
    BY <1>1, <2>1 DEF Conflict, Answer, business, Exists
  <2>2. CASE ~ Conflict(c)
    <3>1. /\ resource' = [resource EXCEPT ![c] = None]
          /\ effect' = [effect EXCEPT ![c] = "full"]
          /\ UNCHANGED <<material, recorded, notification>>
      BY <1>2, <2>2 DEF ReverseCreate, Answer
    <3>2. \A d \in Creates : Exists(d)' => Exists(d)
      BY <3>1 DEF TypeOK, Exists
    <3>3. \A d \in Creates \ {c} : Exists(d)' = Exists(d)
      BY <3>1 DEF TypeOK, Exists
    <3>4. effect'[c] # "none"
      BY <3>1 DEF TypeOK
    <3> QED
      BY <3>1, <3>2, <3>3, <3>4, EffectsStay DEF RowsInv
  <2> QED
    BY <2>1, <2>2
<1>3. ASSUME NEW u \in Updates, ReverseUpdate(u) PROVE RowsInv'
  <2>1. UNCHANGED <<material, recorded, notification>>
    BY <1>3 DEF ReverseUpdate, Conflict, Answer, business
  <2>2. \A d \in Creates : Exists(d)' = Exists(d)
    BY <1>3, RestoredRow, NoneAssumption
    DEF ReverseUpdate, Conflict, business, TypeOK, Exists
  <2> QED
    BY <1>1, <2>1, <2>2
<1>4. ASSUME NEW n \in Notifies, ReverseNotify(n) PROVE RowsInv'
  <2>1. UNCHANGED <<resource, material, recorded>>
    BY <1>4 DEF ReverseNotify, Conflict, Answer, business
  <2>2. \A m \in Notifies : notification'[m] = "WITHDRAWN" => effect'[m] # "none"
    BY <1>4, EffectsStay DEF ReverseNotify, Conflict, Answer, business, TypeOK, RowsInv
  <2> QED
    BY <2>1, <2>2, EffectsStay DEF RowsInv, Exists
<1>5. ASSUME UNCHANGED <<resource, notification, material, deps, recorded, effect>>
      PROVE  RowsInv'
  BY <1>5 DEF RowsInv, Exists
<1> QED
  BY <1>2, <1>3, <1>4, <1>5, BusinessRows, ServiceLeavesRows DEF Next

-----------------------------------------------------------------------------
(* Dependents and plans *)

\* The updates that a reversal has been checked against stay undone.
LEMMA GateStep ==
  ASSUME TypeOK, \A a \in Reversible : StageInv(a), \A c \in Creates : GateInv(c),
         [Next]_vars
  PROVE  \A c \in Creates : GateInv(c)'
<1> SUFFICES ASSUME NEW c \in Creates, status'[c] = "REVERSING"
             PROVE  seen'[c] # None /\ \A u \in seen'[c] : effect'[u] # "none"
  BY DEF GateInv
<1>1. ASSUME NEW u \in Updates, effect[u] # "none" PROVE effect'[u] # "none"
  BY <1>1, EffectsStay
<1>2. CASE status[c] = "REVERSING" /\ seen'[c] = seen[c]
  BY <1>1, <1>2, NoneAssumption DEF GateInv, TypeOK
<1>3. CASE Begin(c)
  <2>1. seen[c] # None /\ \A u \in seen[c] : status[u] \in Resolved
    BY <1>3 DEF Begin, Unblocked
  <2>2. \A u \in seen[c] : u \in Updates
    BY <2>1 DEF TypeOK
  <2>3. \A u \in seen[c] : effect[u] # "none"
    BY <2>1, <2>2 DEF StageInv, Resolved
  <2> QED
    BY <1>3, <2>1, <2>3 DEF Begin
<1>4. ASSUME NEW a \in Reversible, Settle(a) \/ LoseOutcome(a) \/ Expire(a)
      PROVE  status[c] = "REVERSING" /\ seen'[c] = seen[c]
  <2>1. c # a
    BY <1>4 DEF Settle, LoseOutcome, Expire, StageInv, TypeOK
  <2> QED
    BY <1>4, <2>1 DEF Settle, LoseOutcome, Expire, Forget, TypeOK
<1>5. ASSUME NEW a \in Reversible \ {c}, Begin(a)
      PROVE  status[c] = "REVERSING" /\ seen'[c] = seen[c]
  BY <1>5 DEF Begin, TypeOK
<1>6. ASSUME NEW d \in Creates, ReadDependents(d)
      PROVE  status[c] = "REVERSING" /\ seen'[c] = seen[c]
  BY <1>6 DEF ReadDependents, TypeOK
<1>7. \/ status' = status /\ seen' = seen
      \/ \E d \in Creates : ReadDependents(d)
      \/ \E a \in Reversible : Begin(a) \/ Settle(a) \/ LoseOutcome(a) \/ Expire(a)
  BY DEF Next, Create, Update, Notify, Publish, Record, ReverseCreate, ReverseUpdate,
     ReverseNotify, Conflict, Answer, Plan, vars, service
<1> QED
  BY <1>2, <1>3, <1>4, <1>5, <1>6, <1>7

\* What is published stays as it is, and what is gone stays gone.
LEMMA ResourceSteps ==
  ASSUME TypeOK, RowsInv, [Next]_vars, NEW c \in Creates
  PROVE  /\ Exists(c) /\ resource[c].published =>
              /\ resource'[c] # None /\ resource'[c].published
              /\ resource'[c].value = resource[c].value
         /\ c \in recorded /\ resource'[c] # None => Exists(c)
<1> DEFINE Kept == /\ Exists(c) /\ resource[c].published =>
                        /\ resource'[c] # None /\ resource'[c].published
                        /\ resource'[c].value = resource[c].value
                   /\ c \in recorded /\ resource'[c] # None => Exists(c)
<1>1. CASE resource'[c] = resource[c]
  BY <1>1 DEF Exists
<1>2. ASSUME NEW d \in Creates, Create(d) PROVE Kept
  <2>1. d \notin recorded /\ \A e \in Creates \ {d} : resource'[e] = resource[e]
    BY <1>2 DEF Create, Record, TypeOK
  <2> QED
    BY <1>1, <2>1 DEF RowsInv
<1>3. ASSUME NEW d \in Creates, NEW u \in Updates, Update(u, d) PROVE Kept
  <2>1. /\ Exists(d) /\ ~ resource[d].published
        /\ \A e \in Creates \ {d} : resource'[e] = resource[e]
    BY <1>3 DEF Update, TypeOK
  <2> QED
    BY <1>1, <2>1
<1>4. ASSUME NEW d \in Creates, NEW p \in Publishes, Publish(p, d) PROVE Kept
  <2>1. Exists(d) /\ resource[d] \in ResourceRows
    BY <1>4 DEF Publish, TypeOK, Exists
  <2>2. [version |-> resource[d].version + 1, value |-> resource[d].value,
         published |-> TRUE] \in ResourceRows
    BY <2>1 DEF ResourceRows
  <2>3. /\ resource'[d] # None /\ resource'[d].published
        /\ resource'[d].value = resource[d].value
        /\ \A e \in Creates \ {d} : resource'[e] = resource[e]
    BY <1>4, <2>2, NoneAssumption DEF Publish, TypeOK
  <2> QED
    BY <1>1, <2>1, <2>3
<1>5. ASSUME NEW d \in Creates, ReverseCreate(d), resource' # resource PROVE Kept
  <2>1. /\ ~ resource[d].published /\ resource'[d] = None
        /\ \A e \in Creates \ {d} : resource'[e] = resource[e]
    BY <1>5 DEF ReverseCreate, Conflict, business, TypeOK
  <2> QED
    BY <1>1, <2>1
<1>6. ASSUME NEW u \in Updates, ReverseUpdate(u), resource' # resource PROVE Kept
  <2>1. /\ Exists(material[u].on) /\ ~ resource[material[u].on].published
        /\ \A e \in Creates \ {material[u].on} : resource'[e] = resource[e]
    BY <1>6 DEF ReverseUpdate, Conflict, business, TypeOK
  <2> QED
    BY <1>1, <2>1
<1>7. \/ resource' = resource
      \/ \E d \in Creates : \/ Create(d) \/ ReverseCreate(d)
                            \/ \E u \in Updates : Update(u, d)
                            \/ \E p \in Publishes : Publish(p, d)
      \/ \E u \in Updates : ReverseUpdate(u)
  BY DEF Next, Notify, ReverseNotify, Conflict, Answer, ReadDependents, Plan, Begin,
     Settle, LoseOutcome, Expire, vars, business
<1> QED
  BY <1>1, <1>2, <1>3, <1>4, <1>5, <1>6, <1>7

\* A material is written once.
LEMMA MaterialStays ==
  ASSUME TypeOK, RowsInv, [Next]_vars, NEW u \in Updates, u \in recorded
  PROVE  u \in recorded' /\ material'[u] = material[u]
<1>1. ASSUME NEW w \in Updates, NEW c \in Creates, Update(w, c)
      PROVE  u \in recorded' /\ material'[u] = material[u]
  BY <1>1 DEF Update, Record, TypeOK
<1>2. \/ material' = material /\ recorded \subseteq recorded'
      \/ \E w \in Updates, c \in Creates : Update(w, c)
  BY DEF Next, Create, Notify, Publish, Record, ReverseCreate, ReverseUpdate,
     ReverseNotify, Conflict, Answer, ReadDependents, Plan, Begin, Settle,
     LoseOutcome, Expire, vars, business, service
<1> QED
  BY <1>1, <1>2

\* A plan says, until the reversal answers, what it said of the version that
\* the restore expects.
LEMMA PlanStep ==
  ASSUME TypeOK, RowsInv, \A u \in Updates : PlanInv(u), [Next]_vars
  PROVE  \A u \in Updates : PlanInv(u)'
<1> SUFFICES ASSUME NEW u \in Updates, plan'[u] # None PROVE PlanInv(u)'
  BY DEF PlanInv
<1>1. CASE plan'[u] = plan[u]
  <2>1. /\ u \in recorded /\ u \in recorded' /\ material'[u] = material[u]
        /\ material[u].on \in Creates /\ material[u].on \in recorded
    BY <1>1, MaterialStays DEF PlanInv, RowsInv, TypeOK, Materials
  <2>2. resource'[material[u].on] # None => Exists(material[u].on)
    BY <2>1, ResourceSteps
  <2>3. Exists(material[u].on) /\ resource[material[u].on].published =>
          resource'[material[u].on].published
    BY <2>1, ResourceSteps
  <2> QED
    BY <1>1, <2>1, <2>2, <2>3 DEF PlanInv, Exists
<1>2. CASE Plan(u)
  <2>1. u \in recorded /\ plan' = [plan EXCEPT ![u] = PlanUpdate(u)]
        /\ UNCHANGED <<resource, material, recorded>>
    BY <1>2, KindsAssumption DEF Plan, business, service
  <2>2. plan'[u] = PlanUpdate(u) /\ material[u] \in Materials
    BY <2>1 DEF TypeOK, RowsInv
  <2>3. material[u].expectedVersion # 0
    BY <2>2 DEF Materials
  <2>4. CASE Exists(material[u].on)
    BY <2>1, <2>2, <2>3, <2>4 DEF PlanInv, PlanUpdate, Exists
  <2>5. CASE ~ Exists(material[u].on)
    BY <2>1, <2>2, <2>3, <2>5 DEF PlanInv, PlanUpdate, Exists
  <2> QED
    BY <2>4, <2>5
<1>3. ASSUME NEW a \in Reversible \ {u}, Plan(a) PROVE plan'[u] = plan[u]
  BY <1>3 DEF Plan, TypeOK
<1>4. \/ plan' = plan
      \/ \E a \in Reversible : Plan(a)
      \/ \E a \in Reversible : plan' = [plan EXCEPT ![a] = None]
  BY DEF Next, Create, Update, Notify, Publish, Record, ReverseCreate, ReverseUpdate,
     ReverseNotify, Conflict, Answer, ReadDependents, Begin, Settle, LoseOutcome,
     Expire, Forget, vars
<1>5. ASSUME NEW a \in Reversible, plan' = [plan EXCEPT ![a] = None]
      PROVE  plan'[u] = plan[u]
  BY <1>5 DEF TypeOK
<1> QED
  BY <1>1, <1>2, <1>3, <1>4, <1>5

-----------------------------------------------------------------------------
(* The history of a resource *)

LEMMA InWritten ==
  ASSUME NEW c \in Creates, NEW v
  PROVE  /\ \A w : w \in Written(c, v) <=>
              \/ v = 1 /\ w = c
              \/ w \in Live(c) /\ material[w].expectedVersion = v
         /\ \A w : w \in Written(c, v)' <=>
              \/ v = 1 /\ w = c
              \/ w \in Live(c)' /\ material'[w].expectedVersion = v
  BY DEF Written

\* Steps that concern neither the resource nor its updates leave its history.
LEMMA HistoryFrame ==
  ASSUME NEW c \in Creates, HistoryInv(c), resource'[c] = resource[c],
         Live(c)' = Live(c), \A u \in Live(c) : material'[u] = material[u]
  PROVE  HistoryInv(c)'
<1>1. ASSUME NEW v PROVE Written(c, v)' = Written(c, v)
  <2>1. \A x : x \in Written(c, v)' <=> x \in Written(c, v)
    BY InWritten
  <2> QED
    BY <2>1
<1> QED
  BY <1>1 DEF HistoryInv

\* A new resource has a history of one value.
LEMMA CreateHistory ==
  ASSUME TypeOK, RowsInv, NEW c \in Creates, Create(c)
  PROVE  HistoryInv(c)'
<1>1. Live(c)' = {}
  BY DEF Create, Record, Live, RowsInv
<1>2. resource'[c] = [version |-> 1, value |-> c, published |-> FALSE]
  BY DEF Create, TypeOK
<1>3. Written(c, 1)' = {c}
  BY <1>1, InWritten
<1>4. IsFiniteSet(Live(c)') /\ Cardinality(Live(c)') = 0
  BY <1>1, FS_EmptySet
<1>5. \A v \in 1..1 : Cardinality(Written(c, v)') = 1
  BY <1>3, FS_Singleton
<1> QED
  BY <1>1, <1>2, <1>3, <1>4, <1>5 DEF HistoryInv

\* An update adds the value of the version it makes.
LEMMA UpdateHistory ==
  ASSUME TypeOK, RowsInv, NEW c \in Creates, NEW w \in Updates, Update(w, c),
         HistoryInv(c)
  PROVE  HistoryInv(c)'
<1>0. PICK top : top = resource[c].version
  OBVIOUS
<1>1. /\ top \in Nat \ {0} /\ ~ resource[c].published /\ w \notin recorded
      /\ UNCHANGED <<effect>> /\ effect[w] = "none" /\ material[w] = None
  BY <1>0 DEF Update, Record, TypeOK, Exists, ResourceRows, RowsInv
<1>2. resource'[c] = [version |-> top + 1, value |-> w, published |-> FALSE]
  BY <1>0 DEF Update, TypeOK
<1>3. /\ material'[w] = [on |-> c, previousValue |-> resource[c].value,
                         previousVersion |-> top, expectedVersion |-> top + 1]
      /\ \A u \in Updates \ {w} : material'[u] = material[u]
  BY <1>0 DEF Update, TypeOK
<1>4. material'[w] # None
  <2>1. material'[w] \in Materials
    BY <1>0, <1>1, <1>3 DEF Update, TypeOK, Exists, ResourceRows, Materials
  <2> QED
    BY <2>1, NoneAssumption
<1>5. w \notin Live(c) /\ Live(c)' = Live(c) \cup {w}
  BY <1>1, <1>3, <1>4 DEF Live
<1>6. \A u \in Live(c) : /\ u \in Updates \ {w}
                         /\ material[u].expectedVersion \in 2..top
                         /\ material[u].previousVersion = material[u].expectedVersion - 1
  BY <1>0, <1>5 DEF HistoryInv, Live
<1>7. \A v \in 1..top : Written(c, v)' = Written(c, v)
  <2> SUFFICES ASSUME NEW v \in 1..top, NEW x
               PROVE  x \in Written(c, v)' <=> x \in Written(c, v)
    OBVIOUS
  <2>1. material'[w].expectedVersion # v
    BY <1>1, <1>3
  <2> QED
    BY <1>3, <1>5, <1>6, <2>1, InWritten
<1>8. Written(c, top + 1)' = {w}
  <2> SUFFICES ASSUME NEW x PROVE x \in Written(c, top + 1)' <=> x = w
    OBVIOUS
  <2>1. top + 1 # 1 /\ \A u \in Live(c) : material'[u].expectedVersion # top + 1
    BY <1>1, <1>3, <1>6
  <2> QED
    BY <1>3, <1>5, <2>1, InWritten
<1>9. /\ IsFiniteSet(Live(c)') /\ Cardinality(Live(c)') = (top + 1) - 1
  <2>1. IsFiniteSet(Live(c)) /\ Cardinality(Live(c)) = top - 1
    BY <1>0, <1>1 DEF HistoryInv
  <2> QED
    BY <1>1, <1>5, <2>1, FS_AddElement
<1>10. \A u \in Live(c)' :
         /\ material'[u].expectedVersion \in 2..(top + 1)
         /\ material'[u].previousVersion = material'[u].expectedVersion - 1
  BY <1>1, <1>3, <1>5, <1>6
<1>11. \A v \in 1..(top + 1) : Cardinality(Written(c, v)') = 1
  <2>1. \A v \in 1..(top + 1) : v \in 1..top \/ v = top + 1
    BY <1>1
  <2>2. \A v \in 1..top : Cardinality(Written(c, v)) = 1
    BY <1>0, <1>1 DEF HistoryInv
  <2> QED
    BY <1>7, <1>8, <2>1, <2>2, FS_Singleton
<1>12. \A u \in Live(c)' :
         Written(c, material[u].previousVersion)' = {material'[u].previousValue}
  <2>1. ASSUME NEW u \in Live(c)
        PROVE  Written(c, material[u].previousVersion)' = {material'[u].previousValue}
    <3>1. material[u].previousVersion \in 1..top /\ material'[u] = material[u]
      BY <1>1, <1>3, <1>6
    <3> QED
      BY <1>0, <1>1, <1>7, <3>1 DEF HistoryInv
  <2>2. Written(c, top)' = {resource[c].value}
    BY <1>0, <1>1, <1>7 DEF HistoryInv
  <2> QED
    BY <1>3, <1>5, <2>1, <2>2
<1> QED
  BY <1>2, <1>8, <1>9, <1>10, <1>11, <1>12 DEF HistoryInv

\* A publication puts its own version above all of them.
LEMMA PublishHistory ==
  ASSUME TypeOK, NEW c \in Creates, NEW p \in Publishes, Publish(p, c), HistoryInv(c)
  PROVE  HistoryInv(c)'
<1>1. resource[c].version \in Nat
  BY DEF Publish, TypeOK, Exists, ResourceRows
<1>2. /\ resource'[c] = [version |-> resource[c].version + 1,
                         value |-> resource[c].value, published |-> TRUE]
      /\ UNCHANGED <<material, effect>>
  BY DEF Publish, Record, TypeOK
<1>3. Live(c)' = Live(c)
  BY <1>2 DEF Live
<1>4. \A u \in Live(c) : material[u].expectedVersion \in 2..resource[c].version
  BY DEF HistoryInv
<1> QED
  BY <1>1, <1>2, <1>3, <1>4 DEF HistoryInv

\* The update that a restore undoes is the only one at the top version.
LEMMA TopUpdate ==
  ASSUME TypeOK, RowsInv, \A a \in Reversible : StageInv(a),
         \A c \in Creates : Exists(c) => HistoryInv(c),
         NEW w \in Updates, ReverseUpdate(w), resource' # resource
  PROVE  LET c == material[w].on IN
         /\ c \in Creates /\ Exists(c) /\ ~ resource[c].published
         /\ w \in Live(c) /\ material[w].expectedVersion = resource[c].version
         /\ resource[c].value = w
         /\ \A u \in Live(c) \ {w} :
              material[u].expectedVersion \in 2..(resource[c].version - 1)
<1> DEFINE c == material[w].on
<1>1. /\ Exists(c) /\ resource[c].version = material[w].expectedVersion
      /\ ~ resource[c].published
  BY DEF ReverseUpdate, Conflict, business
<1>2. c \in Creates /\ material[w] # None
  BY RestoredRow, NoneAssumption DEF Materials
<1>3. w \in Live(c)
  BY <1>2 DEF Live, StageInv, ReverseUpdate
<1>4. HistoryInv(c)
  BY <1>1, <1>2
<1>5. Written(c, resource[c].version) = {resource[c].value}
  BY <1>1, <1>4 DEF HistoryInv
<1>6. \A u \in Live(c) : material[u].expectedVersion = resource[c].version =>
                           u \in Written(c, resource[c].version)
  BY <1>2, InWritten
<1>7. \A u \in Live(c) : /\ material[u].expectedVersion \in 2..resource[c].version
                         /\ u # w => material[u].expectedVersion # resource[c].version
  BY <1>1, <1>3, <1>4, <1>5, <1>6 DEF HistoryInv
<1>8. resource[c].version \in Nat
  BY <1>1, <1>2 DEF TypeOK, Exists, ResourceRows
<1> QED
  BY <1>1, <1>2, <1>3, <1>5, <1>6, <1>7, <1>8

\* A restore takes the top version off the history.
LEMMA RestoreHistory ==
  ASSUME TypeOK, RowsInv, \A a \in Reversible : StageInv(a),
         \A c \in Creates : Exists(c) => HistoryInv(c),
         NEW w \in Updates, ReverseUpdate(w), resource' # resource,
         NEW c \in Creates, c = material[w].on
  PROVE  HistoryInv(c)'
<1>0. PICK top : top = resource[c].version
  OBVIOUS
<1>1. /\ top \in Nat /\ Exists(c) /\ ~ resource[c].published /\ HistoryInv(c)
      /\ w \in Live(c) /\ material[w].expectedVersion = top
      /\ \A u \in Live(c) \ {w} : material[u].expectedVersion \in 2..(top - 1)
  BY <1>0, TopUpdate DEF TypeOK, Exists, ResourceRows
<1>2. top \in 2..top /\ material[w].previousVersion = top - 1
  BY <1>0, <1>1 DEF HistoryInv
<1>3. /\ resource'[c] = [version |-> top - 1, value |-> material[w].previousValue,
                         published |-> FALSE]
      /\ effect' = [effect EXCEPT ![w] = "full"] /\ material' = material
  BY <1>0, <1>2 DEF ReverseUpdate, Conflict, Answer, business, TypeOK
<1>4. Live(c)' = Live(c) \ {w}
  BY <1>3 DEF Live, TypeOK
<1>5. \A v \in 1..(top - 1) : Written(c, v)' = Written(c, v)
  <2> SUFFICES ASSUME NEW v \in 1..(top - 1), NEW x
               PROVE  x \in Written(c, v)' <=> x \in Written(c, v)
    OBVIOUS
  <2>1. material[w].expectedVersion # v
    BY <1>1
  <2> QED
    BY <1>3, <1>4, <2>1, InWritten
<1>6. /\ IsFiniteSet(Live(c)') /\ Cardinality(Live(c)') = (top - 1) - 1
  <2>1. IsFiniteSet(Live(c)) /\ Cardinality(Live(c)) = top - 1
    BY <1>0, <1>1 DEF HistoryInv
  <2> QED
    BY <1>1, <1>4, <2>1, FS_RemoveElement
<1>7. Written(c, top - 1)' = {material[w].previousValue}
  <2>1. Written(c, material[w].previousVersion) = {material[w].previousValue}
    BY <1>1 DEF HistoryInv
  <2> QED
    BY <1>2, <1>5, <2>1
<1>8. \A v \in 1..(top - 1) : Cardinality(Written(c, v)') = 1
  BY <1>0, <1>1, <1>5 DEF HistoryInv
<1>9. \A u \in Live(c)' :
        /\ material[u].expectedVersion \in 2..(top - 1)
        /\ material[u].previousVersion = material[u].expectedVersion - 1
  BY <1>1, <1>4 DEF HistoryInv
<1>10. \A u \in Live(c)' :
         Written(c, material[u].previousVersion)' = {material'[u].previousValue}
  <2> SUFFICES ASSUME NEW u \in Live(c)'
               PROVE  Written(c, material[u].previousVersion)'
                        = {material[u].previousValue}
    BY <1>3
  <2>1. material[u].previousVersion \in 1..(top - 1)
    BY <1>1, <1>9
  <2>2. Written(c, material[u].previousVersion) = {material[u].previousValue}
    BY <1>1, <1>4 DEF HistoryInv
  <2> QED
    BY <1>3, <1>5, <2>1, <2>2
<1> QED
  BY <1>3, <1>6, <1>7, <1>8, <1>9, <1>10 DEF HistoryInv

\* Every step keeps the history of every resource that there is.
LEMMA HistoryStep ==
  ASSUME ApiInv, [Next]_vars
  PROVE  \A c \in Creates : resource'[c] # None => HistoryInv(c)'
<1> USE DEF ApiInv
<1> SUFFICES ASSUME NEW c \in Creates, resource'[c] # None PROVE HistoryInv(c)'
  OBVIOUS
<1>1. ASSUME resource'[c] = resource[c], UNCHANGED <<material, effect>>
      PROVE  HistoryInv(c)'
  <2>1. Live(c)' = Live(c)
    BY <1>1 DEF Live
  <2> QED
    BY <1>1, <2>1, HistoryFrame DEF Exists
<1>2. ASSUME NEW d \in Creates, Create(d) PROVE HistoryInv(c)'
  <2>1. CASE c = d
    BY <1>2, <2>1, CreateHistory
  <2>2. CASE c # d
    BY <1>1, <1>2, <2>2 DEF Create, Record, TypeOK
  <2> QED
    BY <2>1, <2>2
<1>3. ASSUME NEW d \in Creates, NEW w \in Updates, Update(w, d) PROVE HistoryInv(c)'
  <2>1. CASE c = d
    BY <1>3, <2>1, UpdateHistory DEF Update
  <2>2. CASE c # d
    <3>1. /\ resource'[c] = resource[c] /\ effect' = effect /\ material[w] = None
          /\ material'[w].on = d
          /\ \A u \in Updates \ {w} : material'[u] = material[u]
      BY <1>3, <2>2 DEF Update, Record, RowsInv, TypeOK
    <3>2. Live(c)' = Live(c)
      BY <2>2, <3>1 DEF Live
    <3>3. \A u \in Live(c) : material'[u] = material[u]
      BY <3>1 DEF Live
    <3> QED
      BY <3>1, <3>2, <3>3, HistoryFrame DEF Exists
  <2> QED
    BY <2>1, <2>2
<1>4. ASSUME NEW d \in Creates, NEW p \in Publishes, Publish(p, d) PROVE HistoryInv(c)'
  <2>1. CASE c = d
    BY <1>4, <2>1, PublishHistory DEF Publish
  <2>2. CASE c # d
    BY <1>1, <1>4, <2>2 DEF Publish, Record, TypeOK
  <2> QED
    BY <2>1, <2>2
<1>5. ASSUME NEW b \in Reversible \ Updates, resource'[c] = resource[c],
             material' = material, NEW e, effect' = [effect EXCEPT ![b] = e]
      PROVE  HistoryInv(c)'
  <2>1. \A u \in Updates : effect'[u] = effect[u]
    BY <1>5 DEF TypeOK
  <2>2. Live(c)' = Live(c)
    BY <1>5, <2>1 DEF Live
  <2> QED
    BY <1>5, <2>2, HistoryFrame DEF Exists
<1>6. ASSUME NEW d \in Creates, ReverseCreate(d) PROVE HistoryInv(c)'
  <2>1. resource'[c] = resource[c] /\ material' = material
        /\ \E e : effect' = [effect EXCEPT ![d] = e]
    BY <1>6 DEF ReverseCreate, Conflict, Answer, business, TypeOK
  <2> QED
    BY <1>5, <2>1, KindsAssumption
<1>7. ASSUME NEW n \in Notifies, ReverseNotify(n) PROVE HistoryInv(c)'
  <2>1. resource'[c] = resource[c] /\ material' = material
        /\ \E e : effect' = [effect EXCEPT ![n] = e]
    BY <1>7 DEF ReverseNotify, Conflict, Answer, business
  <2> QED
    BY <1>5, <2>1, KindsAssumption
<1>8. ASSUME NEW w \in Updates, ReverseUpdate(w) PROVE HistoryInv(c)'
  <2>1. CASE resource' = resource
    <3>1. material' = material /\ effect' = effect
      <4>1. CASE Conflict(w)
        BY <4>1 DEF Conflict, Answer, business, TypeOK
      <4>2. CASE ~ Conflict(w)
        <5>1. material[w] \in Materials /\ w \in Live(material[w].on)
          BY <1>8, RestoredRow, NoneAssumption DEF Live, StageInv, ReverseUpdate
        <5>2. /\ Exists(material[w].on)
              /\ resource[material[w].on].version = material[w].expectedVersion
              /\ resource' = [resource EXCEPT ![material[w].on] =
                   [version |-> material[w].previousVersion,
                    value |-> material[w].previousValue, published |-> FALSE]]
          BY <1>8, <4>2 DEF ReverseUpdate
        <5>3. material[w].on \in Creates /\ material[w].expectedVersion \in Nat
          BY <5>1 DEF Materials
        <5>4. resource'[material[w].on].version = material[w].previousVersion
          BY <5>2, <5>3 DEF TypeOK
        <5>5. material[w].previousVersion = material[w].expectedVersion - 1
          BY <5>1, <5>2, <5>3 DEF HistoryInv
        <5> QED
          BY <2>1, <5>2, <5>3, <5>4, <5>5
      <4> QED
        BY <4>1, <4>2
    <3> QED
      BY <1>1, <2>1, <3>1
  <2>2. CASE resource' # resource
    <3>1. CASE c = material[w].on
      BY <1>8, <2>2, <3>1, RestoreHistory
    <3>2. CASE c # material[w].on
      <4>1. resource'[c] = resource[c] /\ material' = material
            /\ effect' = [effect EXCEPT ![w] = "full"]
        BY <1>8, <2>2, <3>2 DEF ReverseUpdate, Conflict, Answer, business, TypeOK
      <4>2. Live(c)' = Live(c)
        BY <3>2, <4>1 DEF Live, TypeOK
      <4> QED
        BY <4>1, <4>2, HistoryFrame DEF Exists
    <3> QED
      BY <3>1, <3>2
  <2> QED
    BY <2>1, <2>2
<1>9. ASSUME NEW n \in Notifies, NEW d \in Creates, Notify(n, d) PROVE HistoryInv(c)'
  BY <1>1, <1>9 DEF Notify, Record
<1> QED
  BY <1>1, <1>2, <1>3, <1>4, <1>6, <1>7, <1>8, <1>9, ServiceLeavesRows DEF Next

-----------------------------------------------------------------------------
(* The theorems. *)

LEMMA ApiInit ==
  Init => ApiInv
<1> SUFFICES ASSUME Init PROVE ApiInv
  OBVIOUS
<1>1. TypeOK
  BY TypeInit
<1>2. RowsInv
  BY NoneAssumption DEF Init, RowsInv, Exists
<1>3. \A a \in Reversible : StageInv(a)
  BY KindsAssumption, NoneAssumption DEF Init, StageInv, Executing
<1>4. \A c \in Creates : ~ Exists(c) /\ GateInv(c)
  BY DEF Init, Exists, GateInv
<1>5. \A u \in Updates : PlanInv(u)
  BY DEF Init, PlanInv
<1> QED
  BY <1>1, <1>2, <1>3, <1>4, <1>5 DEF ApiInv

LEMMA ApiStep ==
  ApiInv /\ [Next]_vars => ApiInv'
<1> SUFFICES ASSUME ApiInv, [Next]_vars PROVE ApiInv'
  OBVIOUS
<1>1. \A c \in Creates : Exists(c)' => HistoryInv(c)'
  BY HistoryStep DEF Exists
<1> QED
  BY <1>1, TypeStep, RowsStep, StageStep, GateStep, PlanStep DEF ApiInv

\* Rows, effects, histories, dependents read and plans held agree in every state.
THEOREM ApiInductive == Spec => []ApiInv
  BY ApiInit, ApiStep, PTL DEF Spec

\* The updates that are not undone are the resource's history, one for each of
\* its versions, for any number of updates, restores and publications.
THEOREM HistoryOfVersions == Spec => []VersionsAreHistory
<1>1. ApiInv => VersionsAreHistory
  <2> SUFFICES ASSUME ApiInv, NEW c \in Creates, Exists(c), ~ resource[c].published
               PROVE  /\ \A v \in 1..resource[c].version : Cardinality(Written(c, v)) = 1
                      /\ Cardinality(Live(c)) = resource[c].version - 1
                      /\ Written(c, resource[c].version) = {resource[c].value}
                      /\ \A u \in Live(c) :
                           /\ material[u].previousVersion = material[u].expectedVersion - 1
                           /\ Written(c, material[u].previousVersion)
                                = {material[u].previousValue}
    BY DEF VersionsAreHistory
  <2>1. HistoryInv(c)
    BY DEF ApiInv
  <2> QED
    BY <2>1 DEF HistoryInv
<1> QED
  BY <1>1, ApiInductive, PTL

\* What verifies was really reversed, also where the outcome was lost.
THEOREM VerifiedIsDone == Spec => []VerifiedMeansDone
<1>1. ApiInv => VerifiedMeansDone
  <2> SUFFICES ASSUME ApiInv, NEW a \in Reversible, a \in recorded, Verified(a)
               PROVE  effect[a] # "none"
    BY DEF VerifiedMeansDone
  <2>1. CASE a \in Creates /\ VerifiedCreate(a)
    BY <2>1 DEF ApiInv, RowsInv, VerifiedCreate
  <2>2. CASE a \in Notifies /\ VerifiedNotify(a)
    BY <2>2 DEF ApiInv, RowsInv, VerifiedNotify
  <2>3. CASE a \in Updates /\ VerifiedUpdate(a)
    <3>1. material[a] \in Materials /\ material[a] # None
      BY <2>3 DEF ApiInv, RowsInv, TypeOK
    <3>2. /\ material[a].on \in Creates /\ HistoryInv(material[a].on)
          /\ resource[material[a].on].version = material[a].previousVersion
      BY <2>3, <3>1 DEF ApiInv, VerifiedUpdate, Materials
    <3>3. resource[material[a].on].version \in Nat
      BY <2>3, <3>1, <3>2 DEF Materials
    <3>4. a \notin Live(material[a].on)
      BY <3>2, <3>3 DEF HistoryInv
    <3> QED
      BY <2>3, <3>1, <3>4 DEF Live
  <2> QED
    BY <2>1, <2>2, <2>3 DEF Verified
<1> QED
  BY <1>1, ApiInductive, PTL

\* Which step gives an update or a create its effect.
LEMMA UpdateUndone ==
  ASSUME ApiInv, [Next]_vars, NEW u \in Updates, effect[u] = "none", effect'[u] = "full"
  PROVE  ReverseUpdate(u) /\ resource' # resource
<1>1. ASSUME NEW c \in Creates, ReverseCreate(c) PROVE effect'[u] = effect[u]
  BY <1>1, KindsAssumption DEF ReverseCreate, Conflict, Answer, ApiInv, TypeOK
<1>2. ASSUME NEW n \in Notifies, ReverseNotify(n) PROVE effect'[u] = effect[u]
  BY <1>2, KindsAssumption DEF ReverseNotify, Conflict, Answer, ApiInv, TypeOK
<1>3. ASSUME NEW w \in Updates \ {u}, ReverseUpdate(w) PROVE effect'[u] = effect[u]
  BY <1>3 DEF ReverseUpdate, Conflict, Answer, ApiInv, TypeOK
<1>4. ASSUME ReverseUpdate(u) PROVE resource' # resource
  <2>1. ~ Conflict(u)
    BY DEF Conflict, Answer, ApiInv, TypeOK
  <2>2. material[u] \in Materials /\ u \in Live(material[u].on)
    BY <1>4, RestoredRow, NoneAssumption DEF Live, ApiInv
  <2>3. /\ Exists(material[u].on)
        /\ resource[material[u].on].version = material[u].expectedVersion
        /\ resource' = [resource EXCEPT ![material[u].on] =
             [version |-> material[u].previousVersion,
              value |-> material[u].previousValue, published |-> FALSE]]
    BY <1>4, <2>1 DEF ReverseUpdate
  <2>4. material[u].on \in Creates /\ material[u].expectedVersion \in Nat
    BY <2>2 DEF Materials
  <2>5. resource'[material[u].on].version = material[u].previousVersion
    BY <2>3, <2>4 DEF ApiInv, TypeOK
  <2>6. material[u].previousVersion = material[u].expectedVersion - 1
    BY <2>2, <2>3, <2>4 DEF ApiInv, HistoryInv
  <2> QED
    BY <2>3, <2>4, <2>5, <2>6
<1>5. \/ effect' = effect
      \/ \E c \in Creates : ReverseCreate(c)
      \/ \E w \in Updates : ReverseUpdate(w)
      \/ \E n \in Notifies : ReverseNotify(n)
  BY DEF Next, Create, Update, Notify, Publish, Record, ReadDependents, Plan, Begin,
     Settle, LoseOutcome, Expire, vars
<1> QED
  BY <1>1, <1>2, <1>3, <1>4, <1>5

\* A restore puts back exactly what its update replaced, over nothing else.
THEOREM ExactRestore == Spec => RestoreIsExact
<1>1. ASSUME ApiInv, [Next]_vars, NEW u \in Updates,
             effect[u] = "none", effect'[u] = "full"
      PROVE  LET c == material[u].on IN
             /\ resource[c].value = u
             /\ resource'[c].value = material[u].previousValue
             /\ \A w \in Updates : w \in Live(c) \ {u} =>
                  material[w].expectedVersion <= resource'[c].version
  <2>1. ReverseUpdate(u) /\ resource' # resource
    BY <1>1, UpdateUndone
  <2>2. PICK c \in Creates : /\ c = material[u].on /\ Exists(c) /\ u \in Live(c)
                             /\ resource[c].value = u /\ HistoryInv(c)
                             /\ material[u].expectedVersion = resource[c].version
                             /\ \A w \in Live(c) \ {u} : material[w].expectedVersion
                                  \in 2..(resource[c].version - 1)
    BY <1>1, <2>1, TopUpdate DEF ApiInv
  <2>3. resource'[c].value = material[u].previousValue
        /\ resource'[c].version = material[u].previousVersion
    BY <1>1, <2>1, <2>2 DEF ReverseUpdate, Conflict, business, ApiInv, TypeOK
  <2>4. material[u].previousVersion = resource[c].version - 1
    BY <2>2 DEF HistoryInv
  <2> QED
    BY <2>2, <2>3, <2>4
<1>2. ApiInv /\ [Next]_vars => [\A u \in Updates : effect[u] = "none" /\ effect'[u] = "full" =>
       LET c == material[u].on IN
       /\ resource[c].value = u
       /\ resource'[c].value = material[u].previousValue
       /\ \A w \in Updates : w \in Live(c) \ {u} =>
            material[w].expectedVersion <= resource'[c].version]_vars
  BY <1>1
<1> QED
  BY <1>2, ApiInductive, PTL DEF Spec, RestoreIsExact

\* The irreversible boundary holds against every reversal on its way.
THEOREM PublishedForGood == Spec => PublishedStays
<1>1. ApiInv /\ [Next]_vars => [\A c \in Creates : Exists(c) /\ resource[c].published =>
       /\ resource'[c] # None
       /\ resource'[c].value = resource[c].value
       /\ resource'[c].published]_vars
  BY ResourceSteps DEF ApiInv
<1> QED
  BY <1>1, ApiInductive, PTL DEF Spec, PublishedStays

\* Only the reversal of a create removes its resource.
LEMMA DeletedBy ==
  ASSUME ApiInv, [Next]_vars, NEW c \in Creates, Exists(c), resource'[c] = None
  PROVE  ReverseCreate(c)
<1>1. resource \in [Creates -> ResourceRows \cup {None}] /\ None \notin ResourceRows
  BY NoneAssumption DEF ApiInv, TypeOK
<1>2. ASSUME NEW d \in Creates, NEW row \in ResourceRows,
             resource' = [resource EXCEPT ![d] = row]
      PROVE  FALSE
  BY <1>1, <1>2 DEF Exists
<1>3. ASSUME NEW d \in Creates,
             \/ Create(d)
             \/ \E u \in Updates : Update(u, d)
             \/ \E p \in Publishes : Publish(p, d)
      PROVE  FALSE
  <2>1. CASE Create(d)
    <3>1. [version |-> 1, value |-> d, published |-> FALSE] \in ResourceRows
      BY DEF ResourceRows, Values
    <3> QED
      BY <1>2, <2>1, <3>1 DEF Create
  <2>2. ASSUME NEW u \in Updates, Update(u, d) PROVE FALSE
    <3>1. [version |-> resource[d].version + 1, value |-> u, published |-> FALSE]
            \in ResourceRows
      BY <1>1, <2>2 DEF ResourceRows, Values, Update, Exists
    <3> QED
      BY <1>2, <2>2, <3>1 DEF Update
  <2>3. ASSUME NEW p \in Publishes, Publish(p, d) PROVE FALSE
    <3>1. [version |-> resource[d].version + 1, value |-> resource[d].value,
           published |-> TRUE] \in ResourceRows
      BY <1>1, <2>3 DEF ResourceRows, Publish, Exists
    <3> QED
      BY <1>2, <2>3, <3>1 DEF Publish
  <2> QED
    BY <1>3, <2>1, <2>2, <2>3
<1>4. ASSUME NEW u \in Updates, ReverseUpdate(u), resource' # resource PROVE FALSE
  <2>1. /\ [version |-> material[u].previousVersion,
            value |-> material[u].previousValue, published |-> FALSE] \in ResourceRows
        /\ material[u].on \in Creates
    BY <1>4, RestoredRow DEF ApiInv, Materials
  <2> QED
    BY <1>2, <1>4, <2>1 DEF ReverseUpdate, Conflict, business
<1>5. ASSUME NEW d \in Creates \ {c}, ReverseCreate(d) PROVE FALSE
  BY <1>1, <1>5 DEF ReverseCreate, Conflict, business, Exists
<1>6. resource' # resource
  BY DEF Exists
<1>7. \/ \E d \in Creates : \/ Create(d) \/ ReverseCreate(d)
                            \/ \E u \in Updates : Update(u, d)
                            \/ \E p \in Publishes : Publish(p, d)
      \/ \E u \in Updates : ReverseUpdate(u)
  BY <1>6 DEF Next, Notify, ReverseNotify, Conflict, Answer, ReadDependents, Plan, Begin,
     Settle, LoseOutcome, Expire, vars, business
<1> QED
  BY <1>3, <1>4, <1>5, <1>6, <1>7

\* The reversal of a create deletes none of the updates its request has read.
THEOREM SeenChangesSpared == Spec => DeleteSparesSeenChanges
<1>1. ASSUME ApiInv, [Next]_vars, NEW c \in Creates, Exists(c), resource'[c] = None
      PROVE  seen[c] \cap Live(c) = {}
  <2>1. status[c] = "REVERSING"
    BY <1>1, DeletedBy DEF ReverseCreate, Executing
  <2>2. \A u \in seen[c] : effect[u] # "none"
    BY <1>1, <2>1 DEF ApiInv, GateInv
  <2> QED
    BY <2>2 DEF Live
<1>2. ApiInv /\ [Next]_vars => [\A c \in Creates : Exists(c) /\ resource'[c] = None =>
        seen[c] \cap Live(c) = {}]_vars
  BY <1>1
<1> QED
  BY <1>2, ApiInductive, PTL DEF Spec, DeleteSparesSeenChanges

\* An answer comes from the Action's own reverse function.
LEMMA UpdateAnswered ==
  ASSUME ApiInv, [Next]_vars, NEW u \in Updates, outcome[u] = None, outcome'[u] # None
  PROVE  ReverseUpdate(u)
<1>1. ASSUME NEW c \in Creates, ReverseCreate(c) PROVE outcome'[u] = outcome[u]
  BY <1>1, KindsAssumption DEF ReverseCreate, Conflict, Answer, ApiInv, TypeOK
<1>2. ASSUME NEW n \in Notifies, ReverseNotify(n) PROVE outcome'[u] = outcome[u]
  BY <1>2, KindsAssumption DEF ReverseNotify, Conflict, Answer, ApiInv, TypeOK
<1>3. ASSUME NEW w \in Updates \ {u}, ReverseUpdate(w) PROVE outcome'[u] = outcome[u]
  BY <1>3 DEF ReverseUpdate, Conflict, Answer, ApiInv, TypeOK
<1>4. ASSUME NEW a \in Reversible, outcome' = [outcome EXCEPT ![a] = None]
      PROVE  outcome'[u] = outcome[u]
  BY <1>4 DEF ApiInv, TypeOK
<1>5. \/ outcome' = outcome
      \/ \E a \in Reversible : outcome' = [outcome EXCEPT ![a] = None]
      \/ \E c \in Creates : ReverseCreate(c)
      \/ \E w \in Updates : ReverseUpdate(w)
      \/ \E n \in Notifies : ReverseNotify(n)
  BY DEF Next, Create, Update, Notify, Publish, Record, ReadDependents, Plan, Begin,
     Settle, LoseOutcome, Expire, vars, service
<1> QED
  BY <1>1, <1>2, <1>3, <1>4, <1>5

\* A plan whose basis is still the version of the resource is the answer.
THEOREM PlanForetells == Spec => FreshPlanForetells
<1>1. ASSUME ApiInv, [Next]_vars, NEW u \in Updates, Executing(u), outcome'[u] # None,
             plan[u] # None, Exists(material[u].on),
             plan[u].basis = resource[material[u].on].version
      PROVE  outcome'[u] = "CONFLICT" <=> plan[u].conflict
  <2>1. ReverseUpdate(u)
    BY <1>1, UpdateAnswered DEF Executing
  <2>2. /\ material[u] \in Materials /\ material[u].on \in Creates
        /\ plan[u].conflict \in BOOLEAN /\ effect[u] = "none"
    BY <1>1, <2>1, RestoredRow DEF ApiInv, TypeOK, StageInv, Plans, Materials
  <2>3. u \in Live(material[u].on)
    BY <1>1, <2>2, NoneAssumption DEF Live
  <2>4. CASE Conflict(u)
    <3>1. outcome'[u] = "CONFLICT"
      BY <1>1, <2>4 DEF Conflict, Answer, ApiInv, TypeOK
    <3>2. \/ resource[material[u].on].published
          \/ resource[material[u].on].version # material[u].expectedVersion
      <4>1. effect' = effect
        BY <1>1, <2>4 DEF Conflict, Answer, ApiInv, TypeOK
      <4> QED
        BY <1>1, <2>1, <2>2, <4>1 DEF ReverseUpdate, Answer, ApiInv, TypeOK
    <3>3. resource[material[u].on].published =>
            resource[material[u].on].version # material[u].expectedVersion
      BY <1>1, <2>2, <2>3 DEF ApiInv, HistoryInv, Materials
    <3>4. plan[u].conflict
      BY <1>1, <3>2, <3>3 DEF ApiInv, PlanInv
    <3> QED
      BY <3>1, <3>4
  <2>5. CASE ~ Conflict(u)
    <3>1. /\ Answer(u, "REVERSED", "full")
          /\ resource[material[u].on].version = material[u].expectedVersion
          /\ ~ resource[material[u].on].published
      BY <2>1, <2>5 DEF ReverseUpdate
    <3>2. outcome'[u] # "CONFLICT"
      BY <1>1, <3>1 DEF Answer, ApiInv, TypeOK
    <3>3. ~ plan[u].conflict
      BY <1>1, <2>2, <3>1 DEF ApiInv, PlanInv
    <3> QED
      BY <3>2, <3>3
  <2> QED
    BY <2>4, <2>5
<1>2. ApiInv /\ [Next]_vars =>
        [\A u \in Updates :
           /\ Executing(u) /\ outcome'[u] # None
           /\ plan[u] # None /\ Exists(material[u].on)
           /\ plan[u].basis = resource[material[u].on].version
           => (outcome'[u] = "CONFLICT" <=> plan[u].conflict)]_vars
  BY <1>1
<1> QED
  BY <1>2, ApiInductive, PTL DEF Spec, FreshPlanForetells

-----------------------------------------------------------------------------
(* The contract *)

\* An answer is the contract's act when the reverse function has done something.
LEMMA AnswerIsAct ==
  ASSUME ApiInv, NEW a \in Reversible, Executing(a), NEW o, NEW e \in {"full", "partial"},
         Answer(a, o, e)
  PROVE  Contract!Act(a)
  BY DEF Contract!Act, Answer, Executing, ApiInv, StageInv

\* And nothing that the contract sees when it has not.
LEMMA ConflictIsSilent ==
  ASSUME ApiInv, NEW a \in Reversible, Conflict(a)
  PROVE  UNCHANGED Contract!vars
  BY DEF Contract!vars, Conflict, Answer, ApiInv, TypeOK

\* What is settled is what the answer told, and so what was done.
LEMMA SettleIsSettle ==
  ASSUME ApiInv, NEW a \in Reversible, Settle(a) \/ LoseOutcome(a)
  PROVE  Contract!Settle(a)
<1>1. CASE LoseOutcome(a)
  BY <1>1 DEF LoseOutcome, Contract!Settle, Contract!Move
<1>2. CASE Settle(a)
  <2> DEFINE s == IF outcome[a] = "CONFLICT" THEN "APPLIED" ELSE outcome[a]
  <2>1. Contract!Move(a, "REVERSING", s)
    BY <1>2 DEF Settle, Contract!Move
  <2>2. outcome[a] \in {"REVERSED", "PARTIALLY_REVERSED", "CONFLICT"}
    BY <1>2 DEF Settle, ApiInv, TypeOK
  <2>3. /\ outcome[a] = "CONFLICT" => effect[a] = "none"
        /\ outcome[a] = "REVERSED" => effect[a] = "full"
        /\ outcome[a] = "PARTIALLY_REVERSED" => effect[a] = "partial"
    BY DEF ApiInv, StageInv
  <2>4. s \in Contract!Justifies(effect[a])
    BY <2>1, <2>2, <2>3 DEF Contract!Justifies
  <2> QED
    BY <2>1, <2>4 DEF Contract!Settle
<1> QED
  BY <1>1, <1>2

\* Every step is one of the contract or concerns nothing of it.
LEMMA ContractStep ==
  ApiInv /\ [Next]_vars => [Contract!Next]_Contract!vars
<1> SUFFICES ASSUME ApiInv, [Next]_vars PROVE [Contract!Next]_Contract!vars
  OBVIOUS
<1>1. ASSUME NEW a \in Reversible, Begin(a) \/ Expire(a)
      PROVE  Contract!Begin(a) \/ Contract!Expire(a)
  BY <1>1 DEF Begin, Expire, Contract!Begin, Contract!Expire, Contract!Move
<1>2. ASSUME NEW c \in Creates, ReverseCreate(c)
      PROVE  Contract!Act(c) \/ UNCHANGED Contract!vars
  BY <1>2, AnswerIsAct, ConflictIsSilent DEF ReverseCreate
<1>3. ASSUME NEW u \in Updates, ReverseUpdate(u)
      PROVE  Contract!Act(u) \/ UNCHANGED Contract!vars
  BY <1>3, AnswerIsAct, ConflictIsSilent DEF ReverseUpdate
<1>4. ASSUME NEW n \in Notifies, ReverseNotify(n)
      PROVE  Contract!Act(n) \/ UNCHANGED Contract!vars
  BY <1>4, AnswerIsAct, ConflictIsSilent DEF ReverseNotify
<1>5. ASSUME UNCHANGED <<status, effect>> PROVE UNCHANGED Contract!vars
  BY <1>5 DEF Contract!vars
<1>6. \/ UNCHANGED <<status, effect>>
      \/ \E a \in Reversible : Begin(a) \/ Expire(a) \/ Settle(a) \/ LoseOutcome(a)
      \/ \E c \in Creates : ReverseCreate(c)
      \/ \E u \in Updates : ReverseUpdate(u)
      \/ \E n \in Notifies : ReverseNotify(n)
  BY DEF Next, Create, Update, Notify, Publish, Record, ReadDependents, Plan, vars, service
<1> QED
  BY <1>1, <1>2, <1>3, <1>4, <1>5, <1>6, SettleIsSettle DEF Contract!Next

\* Business calls and reversals of the reference provider keep the contract.
THEOREM ApiKeepsContract == Spec => KeepsContract
<1>1. Init => Contract!Init
  BY DEF Init, Contract!Init
<1> QED
  BY <1>1, ContractStep, ApiInductive, PTL DEF Spec, KeepsContract, Contract!Spec
=============================================================================
