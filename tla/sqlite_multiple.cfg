SPECIFICATION Spec
CONSTANTS
  p1 = p1  p2 = p2  v1 = v1  bad = bad  data = data  other = other
  Procs = {p1, p2}
  Keys <- OneKey
  Values = {v1}
  Unserializable = {}
  Absent = absent
  Nobody = nobody
  Tables = {data, other}
  Opens <- TwoTables
  Memo = data
  Fn <- SomeFn
  Forms = {}
  Empty = empty
  Opaque = {empty}
  Batches = {}
  MaxStarts = 2
  MaxCalls = 1
  MaxKills = 1
INVARIANT OpenedTablesExist
CHECK_DEADLOCK FALSE
