SPECIFICATION Spec
CONSTANTS
  amy = amy
  bea = bea
  a1 = a1
  b1 = b1
  Characters = {amy, bea}
  Sources = {a1, b1}
  Of <- MCOf
  Processes = {p1, p2}
  Lifetime = 2
  Lease = 1
  Window = 1
  UserLimit = 1
  Cooldown = 1
  MaxUnanswered = 1
  ActiveWindow = 0
  Delays = {1}
  MaxAttempts = 2
  MaxFailures = 1
  Horizon = 1
  MaxTurns = 1
  MaxCrashes = 1
INVARIANTS QuotasHeld
PROPERTIES SentOnce NeverInterrupts
SYMMETRY Symmetry
