SPECIFICATION Spec
CONSTANTS
  Letters = {l1}
  Others = {o1}
  Workers = {w1, w2}
  None = None
  Pictures <- Sharing
  MaxAttempts = 2
  MaxMishaps = 1
SYMMETRY Symmetry
INVARIANTS CommitIsWhole GiftFollowsOpening PictureKept
CHECK_DEADLOCK FALSE
