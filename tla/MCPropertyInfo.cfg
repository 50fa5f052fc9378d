CONSTANT
  Lines <- MCLines
  MaxLines = 3
  RequireOp = FALSE
  DefaultCtx <- MCDefaultCtx
  DefaultType <- MCDefaultType
  EnumWord <- MCEnumWord
  PlainTypes <- MCPlainTypes
  Space = 1
  MaxSegments = 3
  Queries <- MCQueries
  HashOrders <- MCHashOrders
  ArenaLimit = 400
  MaxTrieDepth = 4
SPECIFICATION ASpec
INVARIANT ImageInv
INVARIANT FailsOnClashOnly
INVARIANT LookupCorrect
PROPERTY Reproducible
CHECK_DEADLOCK FALSE
