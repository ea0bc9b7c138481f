CONSTANTS
  ann = ann
  bob = bob
  chat = chat
  review = review
  mine = mine
  NoReply = NoReply
  Purged = Purged
  Nobody = Nobody
  Users = {ann}
  Calls = {chat}
  Owner <- OneOwner
  OwnKey = {}
  Ceiling <- Ceilings
  Tries <- RetryTries
  Fees = {1, 3}
  TopUps <- Signed
  Opening = 5
  Settings <- OnAndOff
  MaxDay = 0
  MaxCrashes = 2
  MaxBalance = 6
SPECIFICATION Spec
INVARIANTS SentOnce ChargedAnswerWasSaved
PROPERTIES CallsEnd SentIsResolved FinalIsFinal LedgerSpec
