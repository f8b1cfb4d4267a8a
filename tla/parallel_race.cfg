SPECIFICATION Spec
CONSTANTS
  w1 = w1  w2 = w2
  Main = main
  Workers = {w1, w2}
  Fn <- OneParameter
  Fallible <- Nothing
  Forms = {}
  Batches <- ThreadBatches
  Programs <- NewDatabase
  OwnSocket = FALSE
  None = none
  Raised = exception
  Empty = empty
  Opaque = {empty}
  MaxDials = 1
  MaxMaps = 1
  MaxCalls = 0
  MaxDeaths = 0
INVARIANTS ThreadsShareOneHandle
CHECK_DEADLOCK FALSE
