SPECIFICATION SFairSpec
CONSTANTS
  nil = nil
  game1 = game1
  game2 = game2
  global1 = global1
  Nodes <- MCNodes
  Level <- MCLevel
  LoginLevel = 4
  closeSeconds = 2
  Requests = {r1, r2, r3}
  command = command
  arg = arg
  MaxHandles = 4
  Variants = {"inline", "fork"}
  Periods = {0, 1}
  MaxTimers = 3
  MaxTime = 3
INVARIANT CloseIsOrderly
PROPERTY CloseEnds
PROPERTY CallersAreTold
INVARIANT NoStartIsLost
PROPERTY FunctionsRun
INVARIANT OnSchedule
PROPERTY RemovedDoNotFire
PROPERTY EveryTimerFires
CHECK_DEADLOCK FALSE
