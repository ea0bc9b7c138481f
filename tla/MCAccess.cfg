\* Two accounts, one invitation for one of them, two requests at a time.
SPECIFICATION Spec
CONSTANTS
  Users = {ann, bob}
  Invites = {i1}
  Requests = {r1, r2}
  SessionIds = {s1, s2}
  Nobody = Nobody
  MaxUses = 1
  MaxPasswordWork = 2
  FailureLimit = 2
  Window = 1
  SessionLife = 1
  MaxHash = 3
  MaxFailures = 4
SYMMETRY Symmetry
INVARIANTS
  SessionsAreCurrent
  GuessesBounded
  InvitesAddUp
PROPERTY
  ResetStands
