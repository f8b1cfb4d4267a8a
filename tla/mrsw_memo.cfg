SPECIFICATION Spec
CONSTANTS
  c1 = c1  s1 = s1  c2 = c2  k1 = k1  v1 = v1  v2 = v2  v3 = v3
  Clients = {c1, c2}
  Stoppers = {}
  Keys = {k1}
  Values = {v1, empty}
  Writable <- MemoWritable
  Empty = empty
  Absent = absent
  Faults = {"operation", "kill"}
  MaxDials = 1
  MaxCalls = 2
  MaxResends = 1
  MaxStarts = 2
INVARIANTS Inv AnswersFresh KnownKeysAreFound
PROPERTIES LatePutsAreHarmless ImplementsMapService
SYMMETRY ClientSymmetry
CHECK_DEADLOCK FALSE
