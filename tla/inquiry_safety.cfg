\* Two requests on a parent and its dependent, beside one inquiry.
SPECIFICATION InquirySpec
CONSTANTS
  r1 = r1 r2 = r2 i1 = i1 a1 = a1 a2 = a2 k1 = k1
  None = None
  Actions = {a1, a2}
  Attempts = {r1, r2}
  Inquiries = {i1}
  Declared = {a1}
  Keys = {}
  ExpiresAt <- Windows
  Answers <- ReaderAnswers
  KnownEdges <- A2OnA1
  LateEdges <- NoEdges
  MaxTime = 1
  MaxCrashes = 1
  MaxAborts = 0
SYMMETRY InquirySymmetry
INVARIANTS
  ReadersInv
  ReceiptShowsWhatRemains
  PlanNamesStandingBlockers
  AppliedLateOnlyAfterReturn
  VerifiedNeverDenied
