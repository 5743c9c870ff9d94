----------------------------- MODULE Dependency -----------------------------
(***************************************************************************)
(* dependency.Add: recording that one Action depends on another.  A call   *)
(* walks what the parent depends on, one query per Action popped off the   *)
(* stack, and inserts the edge when the walk did not meet the dependent.   *)
(* The walk and the insert share no transaction, and other calls run in    *)
(* between.                                                                *)
(***************************************************************************)
EXTENDS Naturals, Sequences, FiniteSets

CONSTANTS
  Nodes,          \* the Actions of the scope
  Adds,           \* the calls of Add
  Requested,      \* <<parent, dependent>> pairs that may be asked for
  Recorded,       \* edges recorded beforehand
  MaxDepth,       \* maxDepth of the walk, 64 in the code
  MaxConcurrent   \* bound: how many calls overlap

\* A scope holds finitely many Actions, and an edge recorded relates two.
ASSUME ScopeAssumption ==
  /\ Nodes # {} /\ IsFiniteSet(Nodes)
  /\ Requested \subseteq Nodes \X Nodes
  /\ Recorded \subseteq {e \in Nodes \X Nodes : e[1] # e[2]}
  /\ MaxDepth \in Nat

VARIABLES
  edges,          \* action_dependencies: <<parent, dependent>>
  call,           \* per Add: control, arguments and the state of its walk
  result          \* per Add: what it returned

vars == <<edges, call, result>>

Calls == [pc        : {"idle", "walk", "insert", "done"},
          parent    : Nodes,
          dependent : Nodes,
          visited   : SUBSET Nodes,
          stack     : Seq(Nodes),
          depth     : Nat,
          known     : SUBSET (Nodes \X Nodes)]   \* ghost: edges at the start

\* Every variable holds a value of its type, and an edge relates two Actions.
TypeOK ==
  /\ edges \subseteq {e \in Nodes \X Nodes : e[1] # e[2]}
  /\ call \in [Adds -> Calls]
  /\ result \in [Adds -> {"none", "added", "self", "cycle"}]

Init ==
  /\ edges = Recorded
  /\ LET n == CHOOSE n \in Nodes : TRUE IN
       call = [c \in Adds |-> [pc |-> "idle", parent |-> n, dependent |-> n,
                               visited |-> {}, stack |-> <<>>, depth |-> 0,
                               known |-> {}]]
  /\ result = [c \in Adds |-> "none"]

Running == {c \in Adds : call[c].pc \in {"walk", "insert"}}

\* Mutant: a self-dependency is not refused at once.
StartUnchecked(c) ==
  /\ call[c].pc = "idle"
  /\ Cardinality(Running) < MaxConcurrent
  /\ \E e \in Requested :
       call' = [call EXCEPT ![c] =
         [pc |-> "walk", parent |-> e[1], dependent |-> e[2],
          visited |-> {e[1]}, stack |-> <<e[1]>>, depth |-> 0, known |-> edges]]
  /\ UNCHANGED <<edges, result>>

\* Self-dependencies are refused at once; both Actions exist in the scope.
Start(c) ==
  /\ call[c].pc = "idle"
  /\ Cardinality(Running) < MaxConcurrent
  /\ \E e \in Requested :
       LET self == e[1] = e[2] IN
       /\ call' = [call EXCEPT ![c] =
            [pc |-> IF self THEN "done" ELSE "walk",
             parent |-> e[1], dependent |-> e[2],
             visited |-> {e[1]}, stack |-> <<e[1]>>, depth |-> 0,
             known |-> IF self THEN {} ELSE edges]]
       /\ result' = IF self THEN [result EXCEPT ![c] = "self"] ELSE result
  /\ UNCHANGED edges

Top(s)  == s[Len(s)]
Rest(s) == SubSeq(s, 1, Len(s) - 1)

\* Mutant: the edges are followed downwards, to what depends on an Action.
ChildrenOf(n) == {d \in Nodes : <<n, d>> \in edges}

\* DependenciesOfDependent: what an Action depends on.
ParentsOf(n) == {p \in Nodes : <<p, n>> \in edges}

Finish(c, answered) ==
  /\ call' = [call EXCEPT ![c] =
       [call[c] EXCEPT !.pc = "done", !.stack = <<>>, !.visited = {},
                       !.depth = 0, !.known = {}]]
  /\ result' = [result EXCEPT ![c] = answered]

\* The orders in which a query may return its rows.
Orders(S) == {o \in [1..Cardinality(S) -> S] : \A s \in S : \E i \in DOMAIN o : o[i] = s}

\* Mutant: any Action met twice on the walk is taken for a cycle.
WalkOnceOnly(c) ==
  LET w == call[c]
      met == ParentsOf(Top(w.stack))
      new == met \ w.visited
  IN /\ w.pc = "walk" /\ w.stack # <<>> /\ w.depth <= MaxDepth
     /\ \/ /\ w.dependent \in met \/ met \cap w.visited # {}
           /\ Finish(c, "cycle")
        \/ /\ w.dependent \notin met
           /\ \E order \in Orders(new) :
                call' = [call EXCEPT ![c] =
                  [w EXCEPT !.stack = Rest(w.stack) \o order,
                            !.visited = w.visited \cup new,
                            !.depth = w.depth + 1]]
           /\ UNCHANGED result
     /\ UNCHANGED edges

\* One iteration of reachable's loop: one query.
Walk(c) ==
  LET w == call[c]
      met == ParentsOf(Top(w.stack))
      new == met \ w.visited
  IN /\ w.pc = "walk" /\ w.stack # <<>> /\ w.depth <= MaxDepth
     /\ \/ /\ w.dependent \in met
           /\ Finish(c, "cycle")
        \/ /\ w.dependent \notin met
           /\ \E order \in Orders(new) :
                call' = [call EXCEPT ![c] =
                  [w EXCEPT !.stack = Rest(w.stack) \o order,
                            !.visited = w.visited \cup new,
                            !.depth = w.depth + 1]]
           /\ UNCHANGED result
     /\ UNCHANGED edges

\* The loop ends: nothing is left to visit, or the bound is reached.
WalkEnds(c) ==
  /\ call[c].pc = "walk"
  /\ call[c].stack = <<>> \/ call[c].depth > MaxDepth
  /\ call' = [call EXCEPT ![c].pc = "insert"]
  /\ UNCHANGED <<edges, result>>

\* AddDependency: the same edge twice is the same fact.
Insert(c) ==
  /\ call[c].pc = "insert"
  /\ edges' = edges \cup {<<call[c].parent, call[c].dependent>>}
  /\ Finish(c, "added")

AllDone == (\A c \in Adds : call[c].pc = "done") /\ UNCHANGED vars

Next == (\E c \in Adds : Start(c) \/ Walk(c) \/ WalkEnds(c) \/ Insert(c)) \/ AllDone

Spec == Init /\ [][Next]_vars

-----------------------------------------------------------------------------
(* Properties *)

\* What an Action depends on, transitively, by the edges in E: what lies in
\* every set that holds its parents and the parents of its members.
AncestorsIn(E, n) ==
  {p \in Nodes : \A S \in SUBSET Nodes :
     (\A e \in E : e[2] = n \/ e[2] \in S => e[1] \in S) => p \in S}

\* Dependency cycles, direct or indirect, are rejected at write time: no Action
\* depends on itself.
NoCycleRecorded == \A n \in Nodes : n \notin AncestorsIn(edges, n)

\* A cycle that was there to be seen when the call began is found, whatever
\* other calls record during the walk: an edge that closes one is inserted only
\* where the ancestry met is longer than the bound on the walk.
VisibleCyclesRejected ==
  \A c \in Adds :
    /\ call[c].pc = "insert"
    /\ call[c].dependent \in AncestorsIn(call[c].known, call[c].parent)
    => Cardinality(call[c].visited) > MaxDepth + 1

\* An edge is refused as a cycle only if it would close one: the parent really
\* depends on the dependent, however the calls overlap.
RejectedOnlyCycles ==
  \A c \in Adds : result[c] = "cycle" => call[c].dependent \in AncestorsIn(edges, call[c].parent)
=============================================================================
