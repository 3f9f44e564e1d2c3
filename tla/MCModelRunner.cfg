CONSTANTS
  Requests = {1, 2}
  MaxOut = 3
  NumSpec = 2
  NPredict = 1
  SoftLimit = 1
  MaxModelLen = 5
  MaxSpecLen = 3
  MaxSkips = 1
  CacheSizes = {0, 1, 2}
  SeqSpace = 2
  Unlimited = Unlimited
  Nil = Nil
  Modes <- mcModes
  MaxTokens = 6
  VocabPad = 4
  Wrong = Wrong
  MaxRequests = 3
  Contexts = {0, 3}
  MaxQuery = 3
  MaxKeep = 2
  PageSize = 2
  GraphSizes = {1, 2, 4}
  MaxReqs = 4
  BlockSize = 2
  CascadeMinPrefix = 4
  CascadeMinReqs = 2
  NumStates = 5
  QuantBatch = 2
  MaxVersions = 2
  Garbage = 99
SPECIFICATION AllSpec
INVARIANTS
  ResponsesAgree
  PlacesExact
  LayoutExact
  OutputsExact
  SelectionExact
  AttendedOnce
CHECK_DEADLOCK FALSE
