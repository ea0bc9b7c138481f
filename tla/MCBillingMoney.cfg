CONSTANTS
  ann = ann
  bob = bob
  chat = chat
  review = review
  mine = mine
  NoReply = NoReply
  Purged = Purged
  Nobody = Nobody
  Users = {ann, bob}
  Calls = {chat, review, mine}
  Owner <- TwoOwners
  OwnKey = {}
  Ceiling <- Spread
  Tries <- OneTry
  Fees = {2}
  TopUps <- NoTopUps
  Opening = 3
  Settings <- Tight
  MaxDay = 1
  MaxCrashes = 0
  MaxBalance = 6
SPECIFICATION Spec
INVARIANTS WalletMatchesAttempts DailyBudgetHeld
