CONSTANTS
  Addrs = {a1, a2}
  ConKeys = {k1}
  MaxFlow = 2
  MaxConv = 3
  maxclient = 1
  Timeout = 1
  Wait = 1
SPECIFICATION FairSpec
INVARIANT TablesAgree
INVARIANT OwnerIsRight
PROPERTY AnswersNameTheOwner
PROPERTY SilentIsClosed
