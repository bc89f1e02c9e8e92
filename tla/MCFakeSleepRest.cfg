SPECIFICATION Spec
CONSTANTS
  Epoch = 10
  Settings <- MCSettings
  Requests = {1, 3}
  Conds = {c1}
  c1 = c1
  Sec = 2
  WaitMs <- MCWaitMs
  MaxNow = 6
  MaxExpired = 2
INVARIANT ReturnedPartsAreFaked
CHECK_DEADLOCK FALSE
