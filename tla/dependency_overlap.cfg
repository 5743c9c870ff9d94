\* Overlapping calls of Add; the bound on the walk is within reach.
SPECIFICATION Spec
CONSTANTS
  Nodes = {0, 1, 2, 3, 4}
  Adds = {x1, x2, x3}
  Requested <- AnyEdge
  Recorded <- Diamond
  MaxDepth = 2
  MaxConcurrent = 3
SYMMETRY AddSymmetry
INVARIANTS
  DependencyInv
  VisibleCyclesRejected
  RejectedOnlyCycles
