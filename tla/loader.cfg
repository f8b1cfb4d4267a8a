SPECIFICATION Spec
CONSTANTS
  Byte = 2
  Half = 8
  Full = 128
  Exact32 = 4
  Exact64 = 32
  Powers = {1, 2, 4, 8, 16, 32, 64, 128}
  Calls <- SomeCalls
  MaxCalls = 2
  MaxKills = 1
  MaxFaults = 1
INVARIANTS TypeOK LoadedExactly NeverPartly ErrorsAreExplained
CHECK_DEADLOCK FALSE
