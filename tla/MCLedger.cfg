\* Three invocations, two parts, one donor stock with two free units.
CONSTANTS
  s1 = s1
  p1 = p1
  p2 = p2
  c1 = c1
  c2 = c2
  c3 = c3
  Stocks = {s1}
  Parts = {p1, p2}
  Callers = {c1, c2, c3}
  MaxQty = 2
  Capacity <- MCCapacity
SYMMETRY MCSymmetry
SPECIFICATION Spec
INVARIANTS BalanceMatches NoOverbooking
PROPERTY ImplementsReservations
