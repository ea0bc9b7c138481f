SPECIFICATION FairSpec
CONSTANTS
  Letters = {l1, l2}
  Processes = {p1}
  Transits = {0, 1}
  MaxAttempts = 1
  Lease = 1
  Backoff <- Doubling
  Horizon = 1
  MaxEpoch = 0
  MaxCrashes = 1
PROPERTIES ReadInOrder EveryTaskEnds LetterSpec
