CONSTANTS
  r1 = r1
  r2 = r2
  w1 = w1
  w2 = w2
  c1 = c1
  c2 = c2
  Requests <- MCOneRequest
  WorkerIds <- MCWorkers
  InitialWorkers <- MCInitial1
  Limits = {1}
  Keys = {}
  NoKey = NoKey
  NoWorker = NoWorker
  Policy = "least_loaded"
  ClientOps = {"pause", "availability", "cancel", "scale", "affinity", "stop"}
  CounterCycle = 2
  Calls <- MCCalls
  NoCall = NoCall
  PoolOps = {"scale_up", "scale_down", "reset", "sync_hotswap", "ipc_drain", "shutdown"}
  WorkerErrors = {FALSE}
  PartialGroups = TRUE
  Generations = 1
SPECIFICATION FairPoolSpec
INVARIANTS
  ListsAgree
PROPERTIES
  SyncReachesAll
  CallsReturn
  GenerateAnswered
CHECK_DEADLOCK FALSE
