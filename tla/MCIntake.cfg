CONSTANTS
  Signals = {s1, s2, s3}
  Orders = {p1, p2}
  Workers = {w1, w2}
  p1 = p1
  p2 = p2
  s1 = s1
  s2 = s2
  s3 = s3
  w1 = w1
  w2 = w2
  Serves <- MCServes
  Scenes <- MCScenes
  MaxCases = 3
SPECIFICATION FairSpec
CHECK_DEADLOCK FALSE
INVARIANTS OneOpenCase AttachedOnce
PROPERTY ExtractedIsHandled
