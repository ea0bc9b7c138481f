SPECIFICATION QueueSpec
CONSTANTS
  ada = ada
  bob = bob
  a1 = a1
  a2 = a2
  a3 = a3
  a4 = a4
  b1 = b1
  None = None
  Actors <- MCActors
  Tasks <- MCTasks
  Of <- MCOf
INVARIANTS OneAtATime
PROPERTIES EveryTaskEnds
CHECK_DEADLOCK FALSE
