CONSTANTS
  r1 = r1
  r2 = r2
  r3 = r3
  w1 = w1
  w2 = w2
  w3 = w3
  none = none
  Requests <- MCRequests3
  WorkerIds <- MCWorkers2
  InitialWorkers <- MCInitial2
  Limits = {1}
  Keys = {1, 2}
  NoKey = NoKey
  NoWorker = none
  Policy = "least_loaded"
  ClientOps = {"scale", "affinity"}
  CounterCycle = 2
SPECIFICATION Spec
INVARIANT RoutingTotal
