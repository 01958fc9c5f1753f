CONSTANTS
  head = head
  worker = worker
  idle = idle
  Node = {head, worker, idle}
  Driver = head
  File <- Staged
  MaxFaults = 2
  MaxCalls = 2
SPECIFICATION LiveSpec
INVARIANTS
  CountExact
  StagingKept
PROPERTIES
  KeepsPromise
  CollectEnds
CHECK_DEADLOCK FALSE
