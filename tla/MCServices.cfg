SPECIFICATION Spec
CONSTANTS
  c1 = c1
  c2 = c2
  h1 = h1
  h2 = h2
  q1 = q1
  q2 = q2
  s1 = s1
  s2 = s2
  w1 = w1
  w2 = w2
  Writers = {w1, w2}
  MaxAttempts = 2
  MaxEvents = 4
  Clocks = {1, 2}
  Kinds <- Actions
  attempts = 3
  MaxFaults = 3
  MaxEdits = 2
  Day = 2
  Hour = 1
  WindowDays = 3
  Cases <- MCCases
  Suppliers <- MCSuppliers
  Callers = {c1, c2}
  Posts <- MCPosts
  Consoles = {s1, s2}
  MaxActs = 2
  MaxPushes = 3
  Batches <- MCBatches
  Keyed = {"m1", "m2"}
  Hands = {h1, h2}
  MaxSignals = 3
  Recipients = {1, 2, 3}
  Allowed = {1, 3}
  Polls = {q1, q2}
  Arrivals <- MCArrivals
  Handlers = {h1, h2}
  Ordered = 1
  Claims = {2}
  Admins = {c1}
  Requests <- MCRequests
  Seeded = {"rate"}
  Readers = {s1}
  CacheTime = 2
  Lag = 1
  MaxNow = 4
  Used = {"ratio"}
  MaxAsks = 2
CHECK_DEADLOCK FALSE
INVARIANTS TrailIsWhole ActionIsExact FiguresAreRight ConsoleIsServed ChannelsAreTrue EvidenceIsSound SeenInTime
