\* A parent and a dependent that is recorded meanwhile; no request aborts.
SPECIFICATION Spec
CONSTANTS
  r1 = r1 r2 = r2 r3 = r3 a1 = a1 a2 = a2 k1 = k1
  None = None
  Actions = {a1, a2}
  Attempts <- Two
  Keys = {k1}
  ExpiresAt <- Windows
  Answers <- SomeAnswers
  KnownEdges <- NoEdges
  LateEdges <- A2OnA1
  MaxTime = 1
  MaxCrashes = 1
  MaxAborts = 0
SYMMETRY ReqSymmetry
INVARIANTS
  AccountInv
  RepliesRecorded
  OnlyUnrecognizedStays
  HistoryBalanced
  ClientErrorMeansUntouched
PROPERTIES
  NoBeginWhileBlocked
  ImplementsContract
