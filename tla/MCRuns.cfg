SPECIFICATION RSpec
CONSTANTS
  Starters = {s1, s2}
  Loops = {l1, l2}
  Fields = {f1, f2}
  MaxRuns = 2
  Worlds <- MCWorlds
CHECK_DEADLOCK FALSE
SYMMETRY MCSymmetry
INVARIANTS OneRun InvestigationIsOwned FailuresEscalate
