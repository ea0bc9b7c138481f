SPECIFICATION BadgesSpec
CONSTANTS
  Badges = {1, 2}
  Workers = {w1, w2}
  MaxAttempts = 2
  None = None
  MaxOrders = 1
  MaxCrashes = 1
SYMMETRY Symmetry
INVARIANTS TwoRetriesAtMost DoubtKeepsItsKey
PROPERTIES NoSecondCharge
