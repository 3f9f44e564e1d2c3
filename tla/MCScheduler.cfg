CONSTANTS
  r1 = r1
  r2 = r2
  r3 = r3
  w1 = w1
  w2 = w2
  w3 = w3
  none = none
  Requests <- MCRequests3
  WorkerIds <- MCWorkers2
  InitialWorkers <- MCInitial1
  Limits = {1, 2}
  Keys = {}
  NoKey = NoKey
  NoWorker = none
  Policy = "least_loaded"
  ClientOps = {"availability", "cancel", "scale", "adjust", "stop"}
  CounterCycle = 6
SPECIFICATION Spec
SYMMETRY Interchangeable
INVARIANTS
  SlotsAccounted
  InflightExact
  NoOrphans
PROPERTIES
  KeepsLedger
  NoOverCommit
  UnavailableOnlyDrains
CHECK_DEADLOCK FALSE
