\* One resource with updates, a notification and a publication.
\* The system stops when nobody calls it any more.
SPECIFICATION Spec
CONSTANTS
  Creates = {c1}
  Updates = {u1, u2, u3}
  Notifies = {n1}
  Publishes = {p1}
  MaxPlans = 1
  None = None
SYMMETRY UpdateSymmetry
CHECK_DEADLOCK FALSE
INVARIANTS
  ApiInv
  VersionsAreHistory
  VerifiedMeansDone
PROPERTIES
  RestoreIsExact
  PublishedStays
  DeleteSparesSeenChanges
  KeepsContract
  FreshPlanForetells
