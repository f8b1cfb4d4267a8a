SPECIFICATION FairSpec
CONSTANTS
  p1 = p1  p2 = p2  v1 = v1  bad = bad  data = data  other = other
  Procs = {p1, p2}
  Keys <- SomeKeys
  Values = {v1, bad}
  Unserializable = {bad}
  Absent = absent
  Nobody = nobody
  Tables = {data}
  Opens <- OneTable
  Memo = data
  Fn <- SomeFn
  Forms <- SomeForms
  Empty = empty
  Opaque = {empty}
  Batches <- SomeBatches
  MaxStarts = 3
  MaxCalls = 3
  MaxKills = 1
INVARIANTS TypeOK OpenedTablesExist WritesAreWhole IteratorsSeeOneState NeverRecomputed AnswersOwnCall
PROPERTIES CallsEnd
CHECK_DEADLOCK FALSE
