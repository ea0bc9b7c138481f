SPECIFICATION Spec
CONSTANTS
  Letters = {l1}
  Processes = {p1, p2}
  Transits = {0, 1}
  MaxAttempts = 2
  Lease = 1
  Backoff <- Doubling
  Horizon = 1
  MaxEpoch = 1
  MaxCrashes = 1
INVARIANTS AnsweredOnce NothingForgotten
SYMMETRY Symmetry
