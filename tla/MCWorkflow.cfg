\* Four invocations of run or rollback; any call may raise, and in the lossy world
\* it may raise after its effect.
CONSTANTS
  e1 = e1
  e2 = e2
  e3 = e3
  e4 = e4
  d1 = d1
  d2 = d2
  Executors = {e1, e2, e3, e4}
  Donors = {d1, d2}
  N = 4
  Kind <- MCKind
  Donor <- MCDonor
  Qty <- MCQty
  LostAnswers = {FALSE, TRUE}
SYMMETRY MCSymmetry
SPECIFICATION Spec
INVARIANTS TypeOK WrittenOnce UndoSavedFirst WritesAreReserved RolledBackIsClean
PROPERTIES ImplementsPart
CHECK_DEADLOCK FALSE
