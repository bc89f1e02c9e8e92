SPECIFICATION FairSpec
CONSTANTS
  Callers = {c1, c2, c3}
  Keys = {k1, k2}
  Nobody = Nobody
  MaxDepth = 2
  Queues = {q1, q2, q3}
  nil = nil
INVARIANT SectionsAreSound
PROPERTY EverybodyEnters
