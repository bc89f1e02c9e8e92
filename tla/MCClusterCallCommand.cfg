SPECIFICATION Spec
CONSTANTS
  Requests = {r1, r2}
  command = command
  arg = arg
  nil = nil
CHECK_DEADLOCK FALSE
INVARIANT CommandArrives
