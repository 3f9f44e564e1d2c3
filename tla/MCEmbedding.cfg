CONSTANTS
  Ports = {1, 2}
  Calls = {1, 2}
  Prompts <- mcPrompts
  Policies = {"round_robin", "least_loaded", "random"}
  MaxFaults = 1
  None = None
SPECIFICATION FairSpec
INVARIANTS
  LoadCoversRunning
  NoOrphanProcess
PROPERTIES
  HealthFollows
CHECK_DEADLOCK FALSE
