CONSTANTS
  r1 = r1
  r2 = r2
  r3 = r3
  w1 = w1
  w2 = w2
  w3 = w3
  none = none
  Requests <- MCRequests3
  WorkerIds <- MCWorkers2
  InitialWorkers <- MCInitial2
  Limits = {1, 2}
  Keys = {0, 1, 3}
  NoKey = NoKey
  NoWorker = none
  Policy = "prefix_affinity"
  ClientOps = {"affinity", "adjust", "metrics"}
  CounterCycle = 2
SPECIFICATION Spec
SYMMETRY Interchangeable
INVARIANTS
  GroupsSpread
  RecordsExact
PROPERTIES
  GroupTogether
