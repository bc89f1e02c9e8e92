SPECIFICATION STSpec
CONSTANTS
  N = 4
  SKIPLIST_MAXLEVEL = 3
  score <- Scores
  timestamp <- Timestamps
  ptr <- Names
  fsize = 1
  Sizes = {1, 2}
  SecondsOfDay = 2
  MaxMsgs = 3
  MaxClock = 2
  MaxFaults = 2
  TIME_NEAR = 4
  TIME_LEVEL = 2
  LEVELS = 3
  Handles = {1, 2}
  Delays = {1, 2, 3, 4, 5, 6, 7, 8, 9, 10, 11, 12, 13, 14, 15}
  MaxDiff = 2
INVARIANT RanksAreRight
PROPERTY ImplementsSortedSet
 
PROPERTY FiresOnTime
CHECK_DEADLOCK FALSE
