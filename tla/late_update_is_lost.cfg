\* An update between the dependency check and the delete.
\* The system stops when nobody calls it any more.
SPECIFICATION Spec
CONSTANTS
  Creates = {c1}
  Updates = {u1}
  Notifies = {n1}
  Publishes = {p1}
  MaxPlans = 0
  None = None
SYMMETRY UpdateSymmetry
CHECK_DEADLOCK FALSE
PROPERTIES
  DeleteLosesNothing
