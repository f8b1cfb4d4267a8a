SPECIFICATION Spec
CONSTANTS
  w1 = w1  w2 = w2
  Main = main
  Workers = {w1, w2}
  Fn <- OneParameter
  Fallible <- OnlyA
  Forms = {}
  Batches <- OneBatch
  Programs <- NewDatabase
  OwnSocket = FALSE
  None = none
  Raised = exception
  Empty = empty
  Opaque = {empty}
  MaxDials = 8
  MaxMaps = 2
  MaxCalls = 0
  MaxDeaths = 0
INVARIANTS ReturnCodesAreZero
CHECK_DEADLOCK FALSE
