SPECIFICATION FairSpec
CONSTANTS
  w1 = w1  w2 = w2
  Main = main
  Workers = {w1, w2}
  Fn <- OneParameter
  Fallible <- OnlyB
  Forms <- SomeForms
  Batches <- AllBatches
  Programs <- AllPrograms
  OwnSocket = TRUE
  None = none
  Raised = exception
  Empty = empty
  Opaque = {empty}
  MaxDials = 2
  MaxMaps = 2
  MaxCalls = 1
  MaxDeaths = 1
INVARIANTS TypeOK ResultsAligned NeverRecomputed HandedBack
PROPERTIES HandsOver MapsEnd
CHECK_DEADLOCK FALSE
