------------------------- MODULE Dependency_proofs -------------------------
(***************************************************************************)
(* Theorems about dependency.Add, for any scope, any number of calls that  *)
(* overlap in any way, any order of the rows of a query and any bound on   *)
(* the walk.                                                               *)
(***************************************************************************)
EXTENDS Dependency, FiniteSetTheorems, SequenceTheorems, TLAPS

\* The walk w has met only what its parent depends on.
WalkedInv(w) ==
  /\ w.known \subseteq edges
  /\ w.parent # w.dependent
  /\ w.parent \in w.visited
  /\ \A m \in w.visited : m = w.parent \/ m \in AncestorsIn(edges, w.parent)
  /\ \A i \in 1..Len(w.stack) : w.stack[i] \in w.visited

\* What it has popped off its stack was expanded: the parents it had when the
\* call began have been met, and the dependent is not among them.
ExpandedInv(w) ==
  \A m \in w.visited :
    (\A i \in 1..Len(w.stack) : w.stack[i] # m) =>
      \A p \in Nodes : <<p, m>> \in w.known => p \in w.visited /\ p # w.dependent

\* What it has met was popped, once per query, or is still on the stack.
CountInv(w) ==
  /\ IsFiniteSet(w.visited)
  /\ Cardinality(w.visited) = w.depth + Len(w.stack)
  /\ w.pc = "insert" => w.stack = <<>> \/ w.depth > MaxDepth

DependencyInv ==
  /\ TypeOK
  /\ \A c \in Running : /\ WalkedInv(call[c])
                        /\ ExpandedInv(call[c])
                        /\ CountInv(call[c])
  /\ \A c \in Adds : call[c].pc # "done" => result[c] = "none"
  /\ RejectedOnlyCycles

-----------------------------------------------------------------------------
(* Ancestry *)

\* More edges, more ancestors.
LEMMA AncestorsGrow ==
  ASSUME NEW E, NEW F, E \subseteq F, NEW n
  PROVE  AncestorsIn(E, n) \subseteq AncestorsIn(F, n)
  BY DEF AncestorsIn

\* A parent of the Action or of an ancestor is an ancestor.
LEMMA ParentIsAncestor ==
  ASSUME NEW E, NEW n, NEW m, NEW p \in Nodes, <<p, m>> \in E,
         m = n \/ m \in AncestorsIn(E, n)
  PROVE  p \in AncestorsIn(E, n)
<1> SUFFICES ASSUME NEW S \in SUBSET Nodes,
                    \A e \in E : e[2] = n \/ e[2] \in S => e[1] \in S
             PROVE  p \in S
  BY DEF AncestorsIn
<1>1. m = n \/ m \in S
  BY DEF AncestorsIn
<1> QED
  BY <1>1

\* A set that holds the parents of the Action and of its members holds every
\* ancestor.
LEMMA AncestorsWithin ==
  ASSUME NEW E, NEW n, NEW S \in SUBSET Nodes,
         \A e \in E : e[2] = n \/ e[2] \in S => e[1] \in S
  PROVE  AncestorsIn(E, n) \subseteq S
  BY DEF AncestorsIn

-----------------------------------------------------------------------------
(* The stack *)

\* Popping takes the top off and leaves the rest in its place.
LEMMA Popped ==
  ASSUME NEW s \in Seq(Nodes), s # <<>>
  PROVE  /\ Len(s) \in Nat \ {0} /\ Top(s) \in Nodes /\ Top(s) = s[Len(s)]
         /\ Rest(s) \in Seq(Nodes) /\ Len(Rest(s)) = Len(s) - 1
         /\ \A i \in 1..Len(s) - 1 : Rest(s)[i] = s[i]
<1>1. Len(s) \in Nat \ {0} /\ \A i \in 1..Len(s) : s[i] \in Nodes
  BY EmptySeq, LenProperties
<1>2. \A i \in 1..Len(s) - 1 : s[i] \in Nodes
  BY <1>1
<1>3. /\ SubSeq(s, 1, Len(s) - 1) \in Seq(Nodes)
      /\ Len(SubSeq(s, 1, Len(s) - 1)) = Len(s) - 1
      /\ \A i \in 1..Len(s) - 1 : SubSeq(s, 1, Len(s) - 1)[i] = s[i]
  <2> DEFINE n == Len(s) - 1
             r == SubSeq(s, 1, n)
  <2>1. n \in Nat /\ 1 \in Int
    BY <1>1
  <2>2. \A i \in 1..n : s[i] \in Nodes
    BY <1>2
  <2> HIDE DEF n
  <2>3. /\ r \in Seq(Nodes)
        /\ Len(r) = IF 1 <= n THEN n - 1 + 1 ELSE 0
        /\ \A i \in 1..n - 1 + 1 : r[i] = s[1 + i - 1]
    BY <2>1, <2>2, SubSeqProperties
  <2> HIDE DEF r
  <2>4. r \in Seq(Nodes) /\ Len(r) = n /\ \A i \in 1..n : r[i] = s[i]
    <3>1. \A i \in 1..n : i \in 1..n - 1 + 1 /\ 1 + i - 1 = i
      BY <2>1
    <3> QED
      BY <2>1, <2>3, <3>1
  <2> QED
    BY <2>4 DEF n, r
<1> QED
  BY <1>1, <1>3 DEF Top, Rest

\* The rows of a query are a sequence of what it finds, each once.
LEMMA OrderIsSeq ==
  ASSUME NEW S \in SUBSET Nodes, NEW o \in Orders(S)
  PROVE  /\ IsFiniteSet(S) /\ Cardinality(S) \in Nat
         /\ o \in Seq(Nodes) /\ Len(o) = Cardinality(S)
         /\ \A i \in 1..Len(o) : o[i] \in S
         /\ \A x \in S : \E i \in 1..Len(o) : o[i] = x
<1>1. IsFiniteSet(S) /\ Cardinality(S) \in Nat
  BY ScopeAssumption, FS_Subset, FS_CardinalityType
<1>2. o \in [1..Cardinality(S) -> S] /\ \A x \in S : \E i \in DOMAIN o : o[i] = x
  BY DEF Orders
<1>3. o \in Seq(S) /\ Len(o) = Cardinality(S)
  BY <1>1, <1>2
<1> QED
  BY <1>1, <1>2, <1>3

\* What is on the stack after one iteration was there below the top or is new.
LEMMA Pushed ==
  ASSUME NEW s \in Seq(Nodes), s # <<>>, NEW S \in SUBSET Nodes, NEW o \in Orders(S)
  PROVE  /\ Rest(s) \o o \in Seq(Nodes)
         /\ Len(Rest(s) \o o) = Len(s) - 1 + Cardinality(S)
         /\ \A i \in 1..Len(Rest(s) \o o) :
              \/ (Rest(s) \o o)[i] \in S
              \/ \E j \in 1..Len(s) : (Rest(s) \o o)[i] = s[j]
         /\ \A x \in S : \E i \in 1..Len(Rest(s) \o o) : (Rest(s) \o o)[i] = x
         /\ \A j \in 1..Len(s) : s[j] = Top(s)
              \/ \E i \in 1..Len(Rest(s) \o o) : (Rest(s) \o o)[i] = s[j]
<1> DEFINE r == Rest(s)
           t == r \o o
<1>1. /\ r \in Seq(Nodes) /\ Len(r) = Len(s) - 1 /\ Len(s) \in Nat \ {0}
      /\ \A i \in 1..Len(s) - 1 : r[i] = s[i]
      /\ Top(s) = s[Len(s)]
  BY Popped
<1>2. /\ o \in Seq(Nodes) /\ Len(o) = Cardinality(S) /\ Cardinality(S) \in Nat
      /\ \A i \in 1..Len(o) : o[i] \in S
      /\ \A x \in S : \E i \in 1..Len(o) : o[i] = x
  BY OrderIsSeq
<1> HIDE DEF r
<1>3. /\ t \in Seq(Nodes) /\ Len(t) = Len(r) + Len(o)
      /\ \A i \in 1..Len(r) : t[i] = r[i]
      /\ \A i \in 1..Len(o) : t[Len(r) + i] = o[i]
  <2>1. /\ t \in Seq(Nodes) /\ Len(t) = Len(r) + Len(o)
        /\ \A i \in 1..Len(r) + Len(o) : t[i] = IF i <= Len(r) THEN r[i] ELSE o[i - Len(r)]
    BY <1>1, <1>2, ConcatProperties
  <2> HIDE DEF t
  <2>2. Len(r) \in Nat /\ Len(o) \in Nat
    BY <1>1, <1>2
  <2>3. ASSUME NEW i \in 1..Len(o) PROVE t[Len(r) + i] = o[i]
    <3>1. /\ Len(r) + i \in 1..Len(r) + Len(o) /\ ~ (Len(r) + i <= Len(r))
          /\ (Len(r) + i) - Len(r) = i
      BY <2>2
    <3> QED
      BY <2>1, <3>1
  <2> QED
    BY <2>1, <2>2, <2>3
<1> HIDE DEF t
<1>4. ASSUME NEW i \in 1..Len(t) PROVE t[i] \in S \/ \E j \in 1..Len(s) : t[i] = s[j]
  <2>1. CASE i \in 1..Len(r)
    BY <1>1, <1>3, <2>1
  <2>2. CASE i \notin 1..Len(r)
    <3>1. i - Len(r) \in 1..Len(o) /\ i = Len(r) + (i - Len(r))
      BY <1>1, <1>2, <1>3, <2>2
    <3> QED
      BY <1>2, <1>3, <3>1
  <2> QED
    BY <2>1, <2>2
<1>5. ASSUME NEW x \in S PROVE \E i \in 1..Len(t) : t[i] = x
  <2>1. PICK i \in 1..Len(o) : o[i] = x
    BY <1>2
  <2>2. Len(r) + i \in 1..Len(t)
    BY <1>1, <1>2, <1>3
  <2> QED
    BY <1>3, <2>1, <2>2
<1>6. ASSUME NEW j \in 1..Len(s) PROVE s[j] = Top(s) \/ \E i \in 1..Len(t) : t[i] = s[j]
  <2>1. j = Len(s) \/ j \in 1..Len(s) - 1
    BY <1>1
  <2>2. ASSUME j \in 1..Len(s) - 1 PROVE j \in 1..Len(t) /\ t[j] = s[j]
    BY <1>1, <1>2, <1>3, <2>2
  <2> QED
    BY <1>1, <2>1, <2>2
<1> QED
  BY <1>1, <1>2, <1>3, <1>4, <1>5, <1>6 DEF r, t

-----------------------------------------------------------------------------
(* The steps of a call *)

\* What a call has walked stays so when others insert edges.
LEMMA OthersStay ==
  ASSUME DependencyInv, NEW c \in Adds, edges \subseteq edges',
         \A d \in Adds \ {c} : call'[d] = call[d] /\ result'[d] = result[d]
  PROVE  /\ \A d \in Running' \ {c} : /\ WalkedInv(call[d])'
                                      /\ ExpandedInv(call[d])'
                                      /\ CountInv(call[d])'
         /\ \A d \in Adds \ {c} :
              /\ call'[d].pc # "done" => result'[d] = "none"
              /\ result'[d] = "cycle" =>
                   call'[d].dependent \in AncestorsIn(edges', call'[d].parent)
<1>1. ASSUME NEW d \in Running', d # c
      PROVE  WalkedInv(call[d])' /\ ExpandedInv(call[d])' /\ CountInv(call[d])'
  <2>1. d \in Running /\ call'[d] = call[d]
    BY <1>1 DEF Running
  <2>2. WalkedInv(call[d]) /\ ExpandedInv(call[d]) /\ CountInv(call[d])
    BY <2>1 DEF DependencyInv
  <2>3. AncestorsIn(edges, call[d].parent) \subseteq AncestorsIn(edges', call[d].parent)
    BY AncestorsGrow
  <2>4. WalkedInv(call[d])'
    BY <2>1, <2>2, <2>3 DEF WalkedInv
  <2>5. ExpandedInv(call[d])' /\ CountInv(call[d])'
    BY <2>1, <2>2 DEF ExpandedInv, CountInv
  <2> QED
    BY <2>4, <2>5
<1>2. ASSUME NEW d \in Adds, d # c, result'[d] = "cycle"
      PROVE  call'[d].dependent \in AncestorsIn(edges', call'[d].parent)
  <2>1. AncestorsIn(edges, call[d].parent) \subseteq AncestorsIn(edges', call[d].parent)
    BY AncestorsGrow
  <2> QED
    BY <1>2, <2>1 DEF DependencyInv, RejectedOnlyCycles
<1> QED
  BY <1>1, <1>2 DEF DependencyInv

\* A call begins with its parent on the stack, or is refused at once.
LEMMA StartStep ==
  ASSUME DependencyInv, NEW c \in Adds, Start(c)
  PROVE  DependencyInv'
<1>1. PICK e \in Requested :
        LET self == e[1] = e[2] IN
        /\ call' = [call EXCEPT ![c] =
             [pc |-> IF self THEN "done" ELSE "walk",
              parent |-> e[1], dependent |-> e[2],
              visited |-> {e[1]}, stack |-> <<e[1]>>, depth |-> 0,
              known |-> IF self THEN {} ELSE edges]]
        /\ result' = IF self THEN [result EXCEPT ![c] = "self"] ELSE result
        /\ edges' = edges
  BY DEF Start
<1>2. e[1] \in Nodes /\ e[2] \in Nodes
  BY ScopeAssumption
<1>3. \A d \in Adds \ {c} : call'[d] = call[d] /\ result'[d] = result[d]
  BY <1>1 DEF DependencyInv, TypeOK
<1>4. TypeOK'
  <2>1. /\ edges \subseteq Nodes \X Nodes /\ <<e[1]>> \in Seq(Nodes)
        /\ call'[c] \in Calls /\ call' \in [Adds -> Calls]
    <3>1. edges \subseteq Nodes \X Nodes /\ <<e[1]>> \in Seq(Nodes)
      BY <1>2 DEF DependencyInv, TypeOK
    <3> DEFINE w == [pc |-> IF e[1] = e[2] THEN "done" ELSE "walk",
                     parent |-> e[1], dependent |-> e[2],
                     visited |-> {e[1]}, stack |-> <<e[1]>>, depth |-> 0,
                     known |-> IF e[1] = e[2] THEN {} ELSE edges]
    <3>2. w \in Calls
      BY <1>2, <3>1 DEF Calls
    <3>3. call' = [call EXCEPT ![c] = w]
      BY <1>1
    <3> HIDE DEF w
    <3> QED
      BY <3>1, <3>2, <3>3 DEF DependencyInv, TypeOK
  <2> QED
    BY <1>1, <2>1 DEF DependencyInv, TypeOK
<1>5. ASSUME c \in Running'
      PROVE  WalkedInv(call[c])' /\ ExpandedInv(call[c])' /\ CountInv(call[c])'
  <2>1. /\ call'[c].pc = "walk" /\ call'[c].known = edges /\ edges' = edges
        /\ call'[c].parent = e[1] /\ call'[c].dependent = e[2] /\ e[1] # e[2]
        /\ call'[c].visited = {e[1]} /\ call'[c].stack = <<e[1]>>
        /\ call'[c].depth = 0
    BY <1>1, <1>5 DEF DependencyInv, TypeOK, Running
  <2>2. Len(<<e[1]>>) = 1 /\ <<e[1]>>[1] = e[1]
    OBVIOUS
  <2>3. WalkedInv(call[c])'
    BY <2>1, <2>2 DEF WalkedInv
  <2>4. ExpandedInv(call[c])'
    BY <2>1, <2>2 DEF ExpandedInv
  <2>5. CountInv(call[c])'
    <3>1. IsFiniteSet({e[1]}) /\ Cardinality({e[1]}) = 1
      BY FS_Singleton
    <3>2. call'[c].pc # "insert"
      BY <2>1
    <3>3. IsFiniteSet(call'[c].visited) /\ Cardinality(call'[c].visited) = 1
      BY <2>1, <3>1
    <3>4. call'[c].depth + Len(call'[c].stack) = 1
      BY <2>1, <2>2
    <3> QED
      BY <3>2, <3>3, <3>4 DEF CountInv
  <2> QED
    BY <2>3, <2>4, <2>5
<1>6. result'[c] # "cycle" /\ (call'[c].pc # "done" => result'[c] = "none")
  <2>1. CASE e[1] = e[2]
    BY <1>1, <2>1 DEF DependencyInv, TypeOK
  <2>2. CASE e[1] # e[2]
    BY <1>1, <2>2 DEF DependencyInv, TypeOK, Start
  <2> QED
    BY <2>1, <2>2
<1> QED
  BY <1>1, <1>3, <1>4, <1>5, <1>6, OthersStay DEF DependencyInv, RejectedOnlyCycles

\* Finishing a call empties its row, but for what was asked.
LEMMA FinishedCall ==
  ASSUME NEW w \in Calls
  PROVE  LET x == [w EXCEPT !.pc = "done", !.stack = <<>>, !.visited = {},
                            !.depth = 0, !.known = {}] IN
         x \in Calls /\ x.pc = "done" /\ x.parent = w.parent /\ x.dependent = w.dependent
<1>1. ASSUME NEW s \in Seq(Nodes), NEW v \in SUBSET Nodes, NEW k \in SUBSET (Nodes \X Nodes)
      PROVE  LET x == [w EXCEPT !.pc = "done", !.stack = s, !.visited = v,
                                !.depth = 0, !.known = k] IN
             x \in Calls /\ x.pc = "done" /\ x.parent = w.parent
               /\ x.dependent = w.dependent
  BY DEF Calls
<1>2. <<>> \in Seq(Nodes) /\ {} \in SUBSET Nodes /\ {} \in SUBSET (Nodes \X Nodes)
  BY EmptySeq
<1> QED
  BY <1>1, <1>2

\* A call that is finished has no walk left.
LEMMA FinishStep ==
  ASSUME DependencyInv, NEW c \in Adds, NEW answered \in {"added", "cycle"},
         Finish(c, answered), edges \subseteq edges',
         edges' \subseteq {e \in Nodes \X Nodes : e[1] # e[2]},
         answered = "cycle" => call[c].dependent \in AncestorsIn(edges', call[c].parent)
  PROVE  DependencyInv'
<1>1. call[c] \in Calls
  BY DEF DependencyInv, TypeOK
<1> DEFINE w == [call[c] EXCEPT !.pc = "done", !.stack = <<>>, !.visited = {},
                                !.depth = 0, !.known = {}]
<1>2. /\ w \in Calls /\ w.pc = "done"
      /\ w.parent = call[c].parent /\ w.dependent = call[c].dependent
  BY <1>1, FinishedCall
<1>3. call' = [call EXCEPT ![c] = w] /\ result' = [result EXCEPT ![c] = answered]
  BY DEF Finish
<1> HIDE DEF w
<1>4. /\ TypeOK' /\ call'[c] = w /\ result'[c] = answered
      /\ \A d \in Adds \ {c} : call'[d] = call[d] /\ result'[d] = result[d]
  BY <1>2, <1>3 DEF DependencyInv, TypeOK
<1>5. c \notin Running'
  BY <1>2, <1>4 DEF Running
<1> QED
  BY <1>2, <1>4, <1>5, OthersStay DEF DependencyInv, RejectedOnlyCycles

\* One iteration meets only ancestors, and nothing recorded when it began is
\* left out.
LEMMA WalkStep ==
  ASSUME DependencyInv, NEW c \in Adds, Walk(c)
  PROVE  DependencyInv'
<1> DEFINE w == call[c]
           met == ParentsOf(Top(w.stack))
           new == met \ w.visited
<1>1. /\ w \in Calls /\ w.pc = "walk" /\ w.stack # <<>> /\ w.stack \in Seq(Nodes)
      /\ w.depth \in Nat /\ w.depth <= MaxDepth /\ w.visited \subseteq Nodes
      /\ w.parent \in Nodes /\ c \in Running /\ edges' = edges /\ MaxDepth \in Nat
  BY ScopeAssumption DEF Walk, DependencyInv, TypeOK, Calls, Running
<1>2. WalkedInv(w) /\ ExpandedInv(w) /\ CountInv(w)
  BY <1>1 DEF DependencyInv
<1>3. /\ Top(w.stack) \in w.visited
      /\ \A p \in met : p \in Nodes /\ p \in AncestorsIn(edges, w.parent)
      /\ \A p \in Nodes : <<p, Top(w.stack)>> \in w.known => p \in met
  <2>1. Top(w.stack) \in w.visited
    <3>1. Len(w.stack) \in Nat \ {0} /\ Top(w.stack) = w.stack[Len(w.stack)]
      BY <1>1, Popped
    <3>2. Len(w.stack) \in 1..Len(w.stack)
      BY <3>1
    <3> QED
      BY <1>2, <3>1, <3>2 DEF WalkedInv
  <2>2. ASSUME NEW p \in met PROVE p \in Nodes /\ p \in AncestorsIn(edges, w.parent)
    <3>1. p \in Nodes /\ <<p, Top(w.stack)>> \in edges
      BY DEF ParentsOf
    <3> QED
      BY <1>2, <2>1, <3>1, ParentIsAncestor DEF WalkedInv
  <2>3. \A p \in Nodes : <<p, Top(w.stack)>> \in w.known => p \in met
    BY <1>2 DEF WalkedInv, ParentsOf
  <2> QED
    BY <2>1, <2>2, <2>3
<1>4. CASE w.dependent \in met /\ Finish(c, "cycle")
  <2>1. edges' \subseteq {e \in Nodes \X Nodes : e[1] # e[2]}
    BY <1>1 DEF DependencyInv, TypeOK
  <2> QED
    BY <1>1, <1>3, <1>4, <2>1, FinishStep
<1>5. ASSUME w.dependent \notin met, result' = result, NEW order \in Orders(new),
             call' = [call EXCEPT ![c] =
                        [w EXCEPT !.stack = Rest(w.stack) \o order,
                                  !.visited = w.visited \cup new,
                                  !.depth = w.depth + 1]]
      PROVE  DependencyInv'
  <2> DEFINE s == Rest(w.stack) \o order
  <2>1. new \in SUBSET Nodes
    BY <1>3
  <2>2. /\ s \in Seq(Nodes) /\ Len(s) = Len(w.stack) - 1 + Cardinality(new)
        /\ \A i \in 1..Len(s) : s[i] \in new \/ \E j \in 1..Len(w.stack) : s[i] = w.stack[j]
        /\ \A x \in new : \E i \in 1..Len(s) : s[i] = x
        /\ \A j \in 1..Len(w.stack) : w.stack[j] = Top(w.stack)
             \/ \E i \in 1..Len(s) : s[i] = w.stack[j]
    <3>1. order \in Orders(new) /\ w.stack \in Seq(Nodes) /\ w.stack # <<>>
      BY <1>1, <1>5
    <3> DEFINE st == w.stack
    <3> HIDE DEF new, st
    <3>2. /\ Rest(st) \o order \in Seq(Nodes)
          /\ Len(Rest(st) \o order) = Len(st) - 1 + Cardinality(new)
          /\ \A i \in 1..Len(Rest(st) \o order) :
               \/ (Rest(st) \o order)[i] \in new
               \/ \E j \in 1..Len(st) : (Rest(st) \o order)[i] = st[j]
          /\ \A x \in new : \E i \in 1..Len(Rest(st) \o order) :
               (Rest(st) \o order)[i] = x
          /\ \A j \in 1..Len(st) : st[j] = Top(st)
               \/ \E i \in 1..Len(Rest(st) \o order) : (Rest(st) \o order)[i] = st[j]
      <4>1. st \in Seq(Nodes) /\ st # <<>>
        BY <3>1 DEF st
      <4> QED
        BY <2>1, <3>1, <4>1, Pushed
    <3> QED
      BY <3>2 DEF st
  <2>3. IsFiniteSet(new) /\ Cardinality(new) \in Nat
    <3> HIDE DEF new
    <3> QED
      BY <1>5, <2>1, OrderIsSeq
  <2> DEFINE x == [w EXCEPT !.stack = s, !.visited = w.visited \cup new,
                            !.depth = w.depth + 1]
  <2>4. /\ x \in Calls /\ x.pc = "walk" /\ x.parent = w.parent
        /\ x.dependent = w.dependent /\ x.known = w.known /\ x.stack = s
        /\ x.visited = w.visited \cup new /\ x.depth = w.depth + 1
    <3> DEFINE v == w.visited \cup new
               d == w.depth + 1
    <3>1. w \in Calls /\ w.pc = "walk" /\ s \in Seq(Nodes) /\ v \in SUBSET Nodes /\ d \in Nat
      BY <1>1, <2>1, <2>2
    <3> HIDE DEF w, s, v, d
    <3>2. LET y == [w EXCEPT !.stack = s, !.visited = v, !.depth = d] IN
          /\ y \in Calls /\ y.pc = w.pc /\ y.parent = w.parent
          /\ y.dependent = w.dependent /\ y.known = w.known
          /\ y.stack = s /\ y.visited = v /\ y.depth = d
      BY <3>1 DEF Calls
    <3> QED
      BY <3>1, <3>2 DEF v, d
  <2>5. call' = [call EXCEPT ![c] = x]
    BY <1>5
  <2> HIDE DEF x, s
  <2>6. /\ TypeOK' /\ call'[c] = x
        /\ \A d \in Adds \ {c} : call'[d] = call[d] /\ result'[d] = result[d]
    BY <1>1, <1>5, <2>4, <2>5 DEF DependencyInv, TypeOK
  <2>7. WalkedInv(call[c])'
    <3>1. /\ x.known \subseteq edges /\ x.parent # x.dependent /\ x.parent \in x.visited
          /\ \A m \in x.visited : m = x.parent \/ m \in AncestorsIn(edges, x.parent)
      BY <1>2, <1>3, <2>4 DEF WalkedInv
    <3>2. \A i \in 1..Len(x.stack) : x.stack[i] \in x.visited
      <4>1. \A j \in 1..Len(w.stack) : w.stack[j] \in w.visited
        BY <1>2 DEF WalkedInv
      <4>2. \A i \in 1..Len(s) : s[i] \in w.visited \cup new
        BY <2>2, <4>1
      <4> QED
        BY <2>4, <4>2
    <3> QED
      BY <1>1, <2>6, <3>1, <3>2 DEF WalkedInv
  <2>8. ExpandedInv(call[c])'
    <3>1. ASSUME NEW m \in x.visited, \A i \in 1..Len(s) : s[i] # m,
                 NEW p \in Nodes, <<p, m>> \in w.known
          PROVE  p \in x.visited /\ p # w.dependent
      <4>1. m \in w.visited
        BY <2>2, <2>4, <3>1
      <4>2. CASE m = Top(w.stack)
        BY <1>3, <1>5, <2>4, <3>1, <4>2
      <4>3. CASE m # Top(w.stack)
        <5>1. \A j \in 1..Len(w.stack) : w.stack[j] # m
          BY <2>2, <3>1, <4>3
        <5> QED
          BY <1>2, <2>4, <3>1, <4>1, <5>1 DEF ExpandedInv
      <4> QED
        BY <4>2, <4>3
    <3> QED
      BY <2>4, <2>6, <3>1 DEF ExpandedInv
  <2>9. CountInv(call[c])'
    <3>1. IsFiniteSet(w.visited) /\ Cardinality(w.visited) = w.depth + Len(w.stack)
      BY <1>2 DEF CountInv
    <3>2. w.visited \cap new = {}
      OBVIOUS
    <3>3. /\ IsFiniteSet(w.visited \cup new)
          /\ Cardinality(w.visited \cup new) = Cardinality(w.visited) + Cardinality(new)
      <4> HIDE DEF new
      <4>1. Cardinality(w.visited \cap new) = 0
        BY <3>2, FS_EmptySet
      <4>2. Cardinality(w.visited) \in Nat
        BY <3>1, FS_CardinalityType
      <4>3. /\ IsFiniteSet(w.visited \cup new)
            /\ Cardinality(w.visited \cup new) =
                 Cardinality(w.visited) + Cardinality(new) - Cardinality(w.visited \cap new)
        BY <2>3, <3>1, FS_Union
      <4> QED
        BY <2>3, <4>1, <4>2, <4>3
    <3>4. Len(w.stack) \in Nat
      BY <1>1
    <3>5. Cardinality(x.visited) = x.depth + Len(x.stack)
      <4> HIDE DEF new
      <4> QED
        BY <1>1, <2>2, <2>3, <2>4, <3>1, <3>3, <3>4
    <3> QED
      BY <2>4, <2>6, <3>3, <3>5 DEF CountInv
  <2>10. result'[c] = "none"
    BY <1>1, <1>5 DEF DependencyInv
  <2> QED
    BY <1>1, <2>6, <2>7, <2>8, <2>9, <2>10, OthersStay DEF DependencyInv, RejectedOnlyCycles
<1>6. \/ w.dependent \in met /\ Finish(c, "cycle")
      \/ /\ w.dependent \notin met /\ result' = result
         /\ \E order \in Orders(new) :
              call' = [call EXCEPT ![c] =
                         [w EXCEPT !.stack = Rest(w.stack) \o order,
                                   !.visited = w.visited \cup new,
                                   !.depth = w.depth + 1]]
  BY DEF Walk
<1> QED
  BY <1>4, <1>5, <1>6

\* The loop ends with an empty stack or at the bound.
LEMMA WalkEndsStep ==
  ASSUME DependencyInv, NEW c \in Adds, WalkEnds(c)
  PROVE  DependencyInv'
<1> DEFINE x == [call[c] EXCEPT !.pc = "insert"]
<1>1. /\ call[c] \in Calls /\ c \in Running /\ call[c].pc = "walk"
      /\ call[c].stack = <<>> \/ call[c].depth > MaxDepth
  BY DEF WalkEnds, DependencyInv, TypeOK, Running
<1>2. /\ x \in Calls /\ x.pc = "insert" /\ x.parent = call[c].parent
      /\ x.dependent = call[c].dependent /\ x.known = call[c].known
      /\ x.stack = call[c].stack /\ x.visited = call[c].visited
      /\ x.depth = call[c].depth
  BY <1>1 DEF Calls
<1>3. call' = [call EXCEPT ![c] = x] /\ result' = result /\ edges' = edges
  BY DEF WalkEnds
<1> HIDE DEF x
<1>4. /\ TypeOK' /\ call'[c] = x
      /\ \A d \in Adds \ {c} : call'[d] = call[d] /\ result'[d] = result[d]
  BY <1>2, <1>3 DEF DependencyInv, TypeOK
<1>5. WalkedInv(call[c])' /\ ExpandedInv(call[c])' /\ CountInv(call[c])'
  <2>1. WalkedInv(call[c]) /\ ExpandedInv(call[c]) /\ CountInv(call[c])
    BY <1>1 DEF DependencyInv
  <2> QED
    BY <1>1, <1>2, <1>3, <1>4, <2>1 DEF WalkedInv, ExpandedInv, CountInv
<1>6. result'[c] = "none"
  BY <1>1, <1>3 DEF DependencyInv
<1> QED
  BY <1>3, <1>4, <1>5, <1>6, OthersStay DEF DependencyInv, RejectedOnlyCycles

\* The edge inserted relates two Actions.
LEMMA InsertStep ==
  ASSUME DependencyInv, NEW c \in Adds, Insert(c)
  PROVE  DependencyInv'
<1>1. /\ call[c].parent \in Nodes /\ call[c].dependent \in Nodes /\ c \in Running
  BY DEF Insert, DependencyInv, TypeOK, Calls, Running
<1>2. call[c].parent # call[c].dependent
  BY <1>1 DEF DependencyInv, WalkedInv
<1>3. /\ edges \subseteq edges' /\ Finish(c, "added")
      /\ edges' \subseteq {e \in Nodes \X Nodes : e[1] # e[2]}
  BY <1>1, <1>2 DEF Insert, DependencyInv, TypeOK
<1> QED
  BY <1>3, FinishStep

-----------------------------------------------------------------------------
(* The theorems. *)

LEMMA DependencyInit ==
  Init => DependencyInv
<1> SUFFICES ASSUME Init PROVE DependencyInv
  OBVIOUS
<1>1. PICK n \in Nodes :
        call = [c \in Adds |-> [pc |-> "idle", parent |-> n, dependent |-> n,
                                visited |-> {}, stack |-> <<>>, depth |-> 0,
                                known |-> {}]]
  <2>1. (CHOOSE n \in Nodes : TRUE) \in Nodes
    BY ScopeAssumption
  <2> QED
    BY <2>1 DEF Init
<1>2. [pc |-> "idle", parent |-> n, dependent |-> n, visited |-> {},
       stack |-> <<>>, depth |-> 0, known |-> {}] \in Calls
  BY EmptySeq DEF Calls
<1>3. call \in [Adds -> Calls] /\ \A c \in Adds : call[c].pc = "idle"
  BY <1>1, <1>2
<1>4. TypeOK
  BY <1>3, ScopeAssumption DEF Init, TypeOK
<1>5. Running = {}
  BY <1>3 DEF Running
<1> QED
  BY <1>4, <1>5 DEF Init, DependencyInv, RejectedOnlyCycles

LEMMA DependencyStep ==
  DependencyInv /\ [Next]_vars => DependencyInv'
<1> SUFFICES ASSUME DependencyInv, [Next]_vars PROVE DependencyInv'
  OBVIOUS
<1>1. CASE UNCHANGED vars
  <2>1. edges' = edges /\ call' = call /\ result' = result
    BY <1>1 DEF vars
  <2>2. Running' = Running
    BY <2>1 DEF Running
  <2> QED
    BY <2>1, <2>2 DEF DependencyInv, TypeOK, WalkedInv, ExpandedInv, CountInv,
       RejectedOnlyCycles
<1> QED
  BY <1>1, StartStep, WalkStep, WalkEndsStep, InsertStep DEF Next, AllDone

\* What walks have met, expanded and left on their stacks agrees in every state.
THEOREM DependencyInductive == Spec => []DependencyInv
  BY DependencyInit, DependencyStep, PTL DEF Spec

\* An edge is refused only if it would close a cycle.
THEOREM OnlyCyclesRejected == Spec => []RejectedOnlyCycles
<1>1. DependencyInv => RejectedOnlyCycles
  BY DEF DependencyInv
<1> QED
  BY <1>1, DependencyInductive, PTL

\* A cycle there was to be seen is found, unless the ancestry met is longer than
\* the bound on the walk: whatever is inserted while it walks.
THEOREM VisibleCyclesFound == Spec => []VisibleCyclesRejected
<1>1. ASSUME DependencyInv, NEW c \in Adds, call[c].pc = "insert",
             call[c].dependent \in AncestorsIn(call[c].known, call[c].parent)
      PROVE  Cardinality(call[c].visited) > MaxDepth + 1
  <2> DEFINE w == call[c]
             S == {p \in Nodes : \E m \in w.visited : <<p, m>> \in w.known}
  <2>1. /\ WalkedInv(w) /\ ExpandedInv(w) /\ CountInv(w) /\ w \in Calls
    BY <1>1 DEF DependencyInv, Running, TypeOK
  <2>2. /\ w.stack \in Seq(Nodes) /\ w.depth \in Nat /\ w.known \subseteq Nodes \X Nodes
        /\ w.visited \subseteq Nodes
    BY <2>1 DEF Calls
  <2>3. ASSUME w.stack = <<>> PROVE FALSE
    <3>1. Len(w.stack) = 0
      BY <2>3
    <3>2. \A m \in w.visited, p \in Nodes :
            <<p, m>> \in w.known => p \in w.visited /\ p # w.dependent
      BY <2>1, <3>1 DEF ExpandedInv
    <3>3. S \subseteq w.visited /\ w.dependent \notin S
      BY <3>2
    <3>4. \A e \in w.known : e[2] = w.parent \/ e[2] \in S => e[1] \in S
      <4> SUFFICES ASSUME NEW e \in w.known, e[2] = w.parent \/ e[2] \in S
                   PROVE  e[1] \in S
        OBVIOUS
      <4>1. e[1] \in Nodes /\ e = <<e[1], e[2]>>
        BY <2>2
      <4>2. e[2] \in w.visited
        BY <2>1, <3>3 DEF WalkedInv
      <4> QED
        BY <4>1, <4>2
    <3>5. AncestorsIn(w.known, w.parent) \subseteq S
      <4>1. S \in SUBSET Nodes
        OBVIOUS
      <4> HIDE DEF S
      <4> QED
        BY <3>4, <4>1, AncestorsWithin
    <3> QED
      BY <1>1, <3>3, <3>5
  <2>4. Len(w.stack) \in Nat \ {0}
    BY <2>2, <2>3, EmptySeq
  <2> QED
    BY <1>1, <2>1, <2>2, <2>3, <2>4, ScopeAssumption DEF CountInv
<1>2. DependencyInv => VisibleCyclesRejected
  BY <1>1 DEF VisibleCyclesRejected
<1> QED
  BY <1>2, DependencyInductive, PTL

-----------------------------------------------------------------------------
(* Calls that do not overlap *)

\* The ancestors of an ancestor are ancestors.
LEMMA AncestorsOfAncestor ==
  ASSUME NEW E \in SUBSET (Nodes \X Nodes), NEW n, NEW m \in AncestorsIn(E, n)
  PROVE  AncestorsIn(E, m) \subseteq AncestorsIn(E, n)
<1> DEFINE S == AncestorsIn(E, n)
<1>1. S \in SUBSET Nodes
  BY DEF AncestorsIn
<1>2. ASSUME NEW e \in E, e[2] = m \/ e[2] \in S PROVE e[1] \in S
  <2>1. e = <<e[1], e[2]>> /\ e[1] \in Nodes
    OBVIOUS
  <2> QED
    BY <1>2, <2>1, ParentIsAncestor
<1> HIDE DEF S
<1>3. AncestorsIn(E, m) \subseteq S
  BY <1>1, <1>2, AncestorsWithin
<1> QED
  BY <1>3 DEF S

\* An edge closes a cycle only if its parent depended on its dependent before.
LEMMA EdgeClosesCycle ==
  ASSUME NEW E \in SUBSET (Nodes \X Nodes), NEW p \in Nodes, NEW d \in Nodes, p # d,
         \A n \in Nodes : n \notin AncestorsIn(E, n), d \notin AncestorsIn(E, p)
  PROVE  \A n \in Nodes : n \notin AncestorsIn(E \cup {<<p, d>>}, n)
<1> SUFFICES ASSUME NEW n \in Nodes
             PROVE  n \notin AncestorsIn(E \cup {<<p, d>>}, n)
  OBVIOUS
<1> DEFINE Below == d = n \/ d \in AncestorsIn(E, n)
           S == AncestorsIn(E, n) \cup (IF Below THEN {p} \cup AncestorsIn(E, p) ELSE {})
<1>1. S \in SUBSET Nodes
  BY DEF AncestorsIn
<1>2. ASSUME NEW e \in E, e[2] = n \/ e[2] \in S PROVE e[1] \in S
  <2>1. e = <<e[1], e[2]>> /\ e[1] \in Nodes
    OBVIOUS
  <2>2. CASE e[2] = n \/ e[2] \in AncestorsIn(E, n)
    BY <2>1, <2>2, ParentIsAncestor
  <2>3. CASE Below /\ (e[2] = p \/ e[2] \in AncestorsIn(E, p))
    <3>1. e[1] \in AncestorsIn(E, p)
      BY <2>1, <2>3, ParentIsAncestor
    <3> QED
      BY <2>3, <3>1
  <2> QED
    BY <1>2, <2>2, <2>3
<1>3. d = n \/ d \in S => p \in S
  <2>1. d \notin {p} \cup AncestorsIn(E, p)
    OBVIOUS
  <2> QED
    BY <2>1
<1>4. n \notin S
  <2>1. n = p => ~ Below
    OBVIOUS
  <2>2. n \in AncestorsIn(E, p) => ~ Below
    <3>1. n \in AncestorsIn(E, p) => AncestorsIn(E, n) \subseteq AncestorsIn(E, p)
      BY AncestorsOfAncestor
    <3> QED
      BY <3>1
  <2> QED
    BY <2>1, <2>2
<1>5. \A e \in E \cup {<<p, d>>} : e[2] = n \/ e[2] \in S => e[1] \in S
  <2>1. <<p, d>>[1] = p /\ <<p, d>>[2] = d
    OBVIOUS
  <2> HIDE DEF S
  <2> QED
    BY <1>2, <1>3, <2>1
<1> HIDE DEF S
<1>6. AncestorsIn(E \cup {<<p, d>>}, n) \subseteq S
  BY <1>1, <1>5, AncestorsWithin
<1> QED
  BY <1>4, <1>6

\* One call at a time sees every edge.
AloneInv ==
  /\ \A c, d \in Running : c = d
  /\ \A c \in Running : call[c].known = edges
  /\ NoCycleRecorded

\* A call alone inserts no edge that closes a cycle, if the bound on the walk
\* exceeds every ancestry.
LEMMA AloneStep ==
  ASSUME IsFiniteSet(Adds), MaxConcurrent = 1, Cardinality(Nodes) <= MaxDepth + 1,
         DependencyInv, VisibleCyclesRejected, AloneInv, [Next]_vars
  PROVE  AloneInv'
<1>1. CASE UNCHANGED vars
  BY <1>1 DEF vars, AloneInv, Running, NoCycleRecorded
<1>2. ASSUME NEW c \in Adds, Start(c) PROVE AloneInv'
  <2>1. Running = {}
    <3>1. IsFiniteSet(Running) /\ Cardinality(Running) < 1
      BY <1>2, FS_Subset DEF Start, Running
    <3>2. Cardinality(Running) \in Nat
      BY <3>1, FS_CardinalityType
    <3> QED
      BY <3>1, <3>2, FS_EmptySet
  <2>2. /\ edges' = edges /\ \A d \in Adds \ {c} : call'[d] = call[d]
        /\ call'[c].pc # "done" => call'[c].known = edges
    BY <1>2 DEF Start, DependencyInv, TypeOK
  <2>3. \A d \in Running' : d = c
    BY <2>1, <2>2 DEF Running
  <2> QED
    BY <2>2, <2>3 DEF AloneInv, NoCycleRecorded, Running
<1>3. ASSUME NEW c \in Adds, Walk(c) \/ WalkEnds(c) PROVE AloneInv'
  <2>1. c \in Running /\ call[c] \in Calls /\ edges' = edges
    BY <1>3 DEF Walk, WalkEnds, Running, DependencyInv, TypeOK
  <2>2. /\ \A d \in Adds \ {c} : call'[d] = call[d]
        /\ call'[c].pc # "done" => call'[c].known = call[c].known
    <3>1. call \in [Adds -> Calls]
      BY DEF DependencyInv, TypeOK
    <3>2. CASE WalkEnds(c)
      BY <2>1, <3>1, <3>2 DEF WalkEnds, Calls
    <3>3. CASE Walk(c)
      <4>1. CASE Finish(c, "cycle")
        BY <2>1, <3>1, <4>1 DEF Finish, Calls
      <4>2. CASE ~ Finish(c, "cycle")
        <5>1. PICK s, v, d :
                call' = [call EXCEPT ![c] =
                  [call[c] EXCEPT !.stack = s, !.visited = v, !.depth = d]]
          BY <3>3, <4>2 DEF Walk
        <5> QED
          BY <2>1, <3>1, <5>1 DEF Calls
      <4> QED
        BY <4>1, <4>2
    <3> QED
      BY <1>3, <3>2, <3>3
  <2>3. Running' \subseteq Running
    BY <2>1, <2>2 DEF Running
  <2> QED
    BY <2>1, <2>2, <2>3 DEF AloneInv, NoCycleRecorded, Running
<1>4. ASSUME NEW c \in Adds, Insert(c) PROVE AloneInv'
  <2>1. /\ c \in Running /\ call[c] \in Calls /\ call[c].pc = "insert"
        /\ call[c].known = edges
    BY <1>4 DEF Insert, Running, DependencyInv, TypeOK, AloneInv
  <2>2. /\ \A d \in Adds \ {c} : call'[d] = call[d]
        /\ call'[c].pc = "done"
        /\ edges' = edges \cup {<<call[c].parent, call[c].dependent>>}
    BY <1>4, <2>1 DEF Insert, Finish, DependencyInv, TypeOK, Calls
  <2>3. Running' = {}
    BY <2>1, <2>2 DEF Running, AloneInv
  <2>4. call[c].dependent \notin AncestorsIn(edges, call[c].parent)
    <3>1. Cardinality(call[c].visited) <= Cardinality(Nodes)
      BY <2>1, ScopeAssumption, FS_Subset DEF Calls
    <3>2. IsFiniteSet(call[c].visited)
      BY <2>1 DEF DependencyInv, CountInv
    <3>3. Cardinality(call[c].visited) \in Nat /\ Cardinality(Nodes) \in Nat
      BY <3>2, ScopeAssumption, FS_CardinalityType
    <3>4. ~ (Cardinality(call[c].visited) > MaxDepth + 1)
      BY <3>1, <3>3, ScopeAssumption
    <3> QED
      BY <2>1, <3>4 DEF VisibleCyclesRejected
  <2>5. /\ call[c].parent \in Nodes /\ call[c].dependent \in Nodes
        /\ call[c].parent # call[c].dependent /\ edges \in SUBSET (Nodes \X Nodes)
    BY <2>1 DEF Calls, DependencyInv, WalkedInv, TypeOK
  <2>6. \A n \in Nodes : n \notin AncestorsIn(edges', n)
    BY <2>2, <2>4, <2>5, EdgeClosesCycle DEF AloneInv, NoCycleRecorded
  <2> QED
    BY <2>3, <2>6 DEF AloneInv, NoCycleRecorded
<1> QED
  BY <1>1, <1>2, <1>3, <1>4 DEF Next, AllDone

\* The rejection of cycles fails for overlap and for the bound, and for nothing
\* else: calls that follow one another never record a cycle in a scope that the
\* walk can cover.
THEOREM NoCycleAlone ==
  ASSUME IsFiniteSet(Adds), MaxConcurrent = 1, Cardinality(Nodes) <= MaxDepth + 1,
         \A n \in Nodes : n \notin AncestorsIn(Recorded, n)
  PROVE  Spec => []NoCycleRecorded
<1>1. Init => AloneInv
  BY DEF Init, AloneInv, Running, NoCycleRecorded
<1>2. DependencyInv /\ VisibleCyclesRejected /\ AloneInv /\ [Next]_vars => AloneInv'
  BY AloneStep
<1>3. AloneInv => NoCycleRecorded
  BY DEF AloneInv
<1> QED
  BY <1>1, <1>2, <1>3, DependencyInductive, VisibleCyclesFound, PTL DEF Spec
=============================================================================
