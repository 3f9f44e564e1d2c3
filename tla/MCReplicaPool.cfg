CONSTANTS
  r1 = r1
  r2 = r2
  w1 = w1
  w2 = w2
  c1 = c1
  c2 = c2
  Requests <- MCRequests
  WorkerIds <- MCWorkers
  InitialWorkers <- MCInitial2
  Limits = {1}
  Keys = {}
  NoKey = NoKey
  NoWorker = NoWorker
  Policy = "least_loaded"
  ClientOps = {"pause", "availability", "cancel", "scale", "affinity", "stop"}
  CounterCycle = 2
  Calls <- MCCalls
  NoCall = NoCall
  PoolOps = {"sleep", "wake_up", "wake_weights", "wake_kv", "sync_drain", "sync_skip"}
  WorkerErrors = {TRUE, FALSE}
  PartialGroups = FALSE
  Generations = 1
SPECIFICATION PoolSpec
SYMMETRY Interchangeable
INVARIANTS
  OnlyBacklogRuns
  GateRestored
  AwakeEnginesReady
