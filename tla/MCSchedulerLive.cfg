CONSTANTS
  r1 = r1
  r2 = r2
  r3 = r3
  w1 = w1
  w2 = w2
  w3 = w3
  none = none
  Requests <- MCRequests3
  WorkerIds <- MCWorkers2
  InitialWorkers <- MCInitial1
  Limits = {1}
  Keys = {}
  NoKey = NoKey
  NoWorker = none
  Policy = "strict_affinity"
  ClientOps = {"pause", "availability", "cancel", "scale", "stop"}
  CounterCycle = 2
SPECIFICATION FairSpec
PROPERTIES
  EveryRequestAnswered
  PausedDrains
CHECK_DEADLOCK FALSE
