CONSTANTS
  ma = ma
  mb = mb
  mc = mc
  c1 = c1
  c2 = c2
  Models <- MCModels3
  Tp <- MCTp
  TotalGpus = 6
  PoolIds <- MCPools3
  NoPool = NoPool
  Calls <- MCCalls2
  Nobody = Nobody
  Scaler = Scaler
  Explicit = {1}
  DriverOps = {"load", "shutdown", "shutdown_all", "fail"}
  HastyBound = 1
SPECIFICATION FairDriverSpec
INVARIANTS
  NeverEmptied
  FitsInTurn
CHECK_DEADLOCK FALSE
PROPERTIES
  SplitEvenly
  LoadsInTurnReturn
