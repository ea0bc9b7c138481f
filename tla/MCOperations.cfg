SPECIFICATION FairSpec
CONSTANTS
  Requests = {r1, r2}
  Messages = {m1, m2}
  Inputs = {hello, bye}
  None = None
  MaxFaults = 2
  MaxCrashes = 2
INVARIANTS
  OneHandler
  ToldIsStored
  RowsAgree
PROPERTIES
  PaidIsResolved
  PromiseSpec
