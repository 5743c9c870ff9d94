\* Liveness under fair handlers, racing rounds and recovery.
SPECIFICATION FewSpec
CONSTANTS
  r1 = r1 r2 = r2 r3 = r3 a1 = a1 a2 = a2 k1 = k1
  c1 = c1 c2 = c2
  None = None
  Actions = {a1}
  Attempts <- Two
  Rounds = {c1, c2}
  Keys = {k1}
  ExpiresAt <- NoWindows
  Answers <- SettledAnswers
  KnownEdges <- NoEdges
  LateEdges <- NoEdges
  MaxTime = 0
  MaxCrashes = 1
  MaxAborts = 0
PROPERTIES
  EveryRequestAnswered
  EveryAttemptSettles
  EveryRoundAnswered
  EvidenceSettles
