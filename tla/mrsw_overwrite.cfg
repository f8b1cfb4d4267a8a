SPECIFICATION Spec
CONSTANTS
  c1 = c1  s1 = s1  c2 = c2  k1 = k1  v1 = v1  v2 = v2  v3 = v3
  Clients = {c1, c2}
  Stoppers = {s1}
  Keys = {k1}
  Values = {v1, v2, empty}
  Writable <- FreeWritable
  Empty = empty
  Absent = absent
  Faults = {}
  MaxDials = 1
  MaxCalls = 2
  MaxResends = 1
  MaxStarts = 1
INVARIANTS PrimaryAnswersFresh KnownKeysAreFound
SYMMETRY ClientSymmetry
CHECK_DEADLOCK FALSE
