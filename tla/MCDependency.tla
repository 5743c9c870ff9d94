---------------------------- MODULE MCDependency ----------------------------
(* Instances of Dependency for TLC. *)
EXTENDS Dependency, TLC

\* Every edge over the Actions, from an empty graph.
NoneRecorded == {}
AnyEdge == Nodes \X Nodes

\* 3 depends on 1 and 2, which both depend on 0; 4 stands alone.
Diamond == {<<0, 1>>, <<0, 2>>, <<1, 3>>, <<2, 3>>}

\* The calls differ in nothing but their names.
AddSymmetry == Permutations(Adds)
=============================================================================
