CONSTANTS
  Models <- mcModels
  Place <- mcPlace
  BucketSize = 3
  Rounds = 2
  MaxFaults = 1
  Nil = Nil
  Settings <- mcSettings
  Names <- mcNames
  Fused <- mcFused
  BasePort = 100
  SyncRounds = 2
  Readers = {1}
  ShmRounds = 3
  MaxTimeouts = 2
SPECIFICATION AllSpec
INVARIANTS
  DoneMeansCurrent
  HandoverExact
PROPERTIES
  ImplementsChannel
  
CHECK_DEADLOCK FALSE
