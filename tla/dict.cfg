SPECIFICATION Spec
CONSTANTS
  t1 = t1  t2 = t2  s1 = s1
  Threads = {t1, t2, s1}
  Keys <- SomeKeys
  Values = {"v"}
  Absent = "absent"
  Mode <- ThreadModes
  Soughts <- SomePrefixes
  Filled <- SomeDatabases
  Extracted = 1
  MaxCalls = 3
  CacheUsers = {t1, t2}
  Second <- OneKey
INVARIANTS TypeOK FailedCallsChangeNothing RawIteratorsAreSnapshots PrefixIteratorsMatch CacheHoldsWhatWasRead ChainFinds
SYMMETRY UserSymmetry
CHECK_DEADLOCK FALSE
