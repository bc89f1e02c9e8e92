SPECIFICATION TBSpec
CONSTANTS
  Keys = {k1, k2, k3}
  Values = {v1}
  nil = nil
  Sizes = {1, 2, 3}
  delayTime = 0
  MaxNodes = 4
  MaxTime = 1
  MaxForced = 2
  Objs = {o1, o2}
  MaxPushes = 5
  Uids = {u1, u2}
  Callers = {c1, c2}
  limit = 2
  FirstId = 3
  MaxId = 5
  Kinds = {sync_log, async_log}
  MaxPeriod = 3
  dlMaxTime = 2
  MaxLines = 2
  cd = 2
  endTime = 7
  avMaxTime = 8
  MaxTimers = 5
SYMMETRY Symmetry
INVARIANT CacheIsSound
PROPERTY ImplementsLRU
INVARIANT ChainIsSound
PROPERTY ImplementsFIFO
INVARIANT RecordsAreRight
INVARIANT LinesAreRight
INVARIANT ValuesComeOnTime
CHECK_DEADLOCK FALSE
