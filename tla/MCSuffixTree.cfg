CONSTANTS
  Seqs = {1, 2, 3}
  Tokens = {1, 2}
  MaxDepth = 4
  MaxLength = 5
  MaxExtend = 2
  MaxSpec = 4
  Factor = 1
  Offset = 2
  MinProbs <- mcMinProbs
  Kids = {a, b, c, d}
  MaxCount = 4
  Nil = Nil
  Keys = {1, 2, 3, 4, 5, 6}
  Values = {v1, v2}
  Hash <- mcHash
  Empty = Empty
  Tomb = Tomb
SPECIFICATION AllSpec
SYMMETRY Interchangeable
INVARIANTS
  Integrity
  DraftsExact
PROPERTIES
  ImplementsIndex
  ImplementsOrder
  ImplementsMap
CHECK_DEADLOCK FALSE
