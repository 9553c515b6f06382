SPECIFICATION LiveSpec
CONSTANTS
  Starters = {s1}
  Loops = {l1}
  Fields = {}
  MaxRuns = 3
  Worlds <- MCWorlds
  w1 = w1
  w2 = w2
  Workers = {w1, w2}
  MaxMessages = 1
CHECK_DEADLOCK FALSE
INVARIANT AskedOnce
PROPERTIES OneEnd NoEndlessWait
