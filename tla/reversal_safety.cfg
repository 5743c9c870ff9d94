\* Three requests on one Action, with a key, an expiry, a crash and an abort.
SPECIFICATION Spec
CONSTANTS
  r1 = r1 r2 = r2 r3 = r3 a1 = a1 a2 = a2 k1 = k1
  None = None
  Actions = {a1}
  Attempts <- Three
  Keys = {k1}
  ExpiresAt <- Windows
  Answers <- CoreAnswers
  KnownEdges <- NoEdges
  LateEdges <- NoEdges
  MaxTime = 1
  MaxCrashes = 1
  MaxAborts = 1
SYMMETRY ReqSymmetry
INVARIANTS
  TypeOK
  RunningIsReversing
  OpenAttemptOwnsAction
  StatusHonest
  EffectOnce
  KeyBindsOneAttempt
  LateOnlyAfterReturn
  HistoryOrder
