SPECIFICATION NTSpec
CONSTANTS
  DefaultSize = 7
  IntMax = 100
  DefaultDepth = 4
  MaxCalls = 2
  MaxConfig = 1
  p1 = p1
  p2 = p2
  cond = cond
INVARIANT TextsComeBack
INVARIANT BuffersAreSound
 
 
 
 
INVARIANT FindsEveryElement
PROPERTY ImplementsOrderedMap
CHECK_DEADLOCK FALSE
