\* A refused attempt gives the Action back after its window.
SPECIFICATION Spec
CONSTANTS
  r1 = r1 r2 = r2 r3 = r3 a1 = a1 a2 = a2 k1 = k1
  None = None
  Actions = {a1}
  Attempts <- Two
  Keys = {k1}
  ExpiresAt <- Windows
  Answers <- KnownAnswers
  KnownEdges <- NoEdges
  LateEdges <- NoEdges
  MaxTime = 1
  MaxCrashes = 0
  MaxAborts = 0
SYMMETRY ReqSymmetry
INVARIANTS
  WindowRespected
