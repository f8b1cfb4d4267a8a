SPECIFICATION FairSpec
CONSTANTS
  c1 = c1  s1 = s1  c2 = c2  k1 = k1  v1 = v1  v2 = v2  v3 = v3
  Clients = {c1}
  Stoppers = {}
  Keys = {k1}
  Values = {v1, empty}
  Writable <- MemoWritable
  Empty = empty
  Absent = absent
  Faults = {"operation"}
  MaxDials = 1
  MaxCalls = 1
  MaxResends = 0
  MaxStarts = 1
PROPERTY ErrorsAreReported
CHECK_DEADLOCK FALSE
