\* Two accounts, texts and pictures, every operation, limits that change.
SPECIFICATION Spec
CONSTANTS
  ann = ann
  bob = bob
  a1 = a1
  a2 = a2
  aPicture = aPicture
  b1 = b1
  bPicture = bPicture
  Users = {ann, bob}
  Calls = {a1, a2, aPicture, bPicture}
  Owner <- TwoAccounts
  Images <- Pictures
  Nobody = Nobody
  Settings <- Changing
INVARIANTS
  SlotsMatch
  NoLostWakeup
  BannedIsAborted
PROPERTY
  TextIsServed
