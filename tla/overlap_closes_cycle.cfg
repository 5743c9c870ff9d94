\* Two calls of Add that overlap.
SPECIFICATION Spec
CONSTANTS
  Nodes = {0, 1, 2}
  Adds = {x1, x2}
  Requested <- AnyEdge
  Recorded <- NoneRecorded
  MaxDepth = 64
  MaxConcurrent = 2
SYMMETRY AddSymmetry
INVARIANTS
  NoCycleRecorded
