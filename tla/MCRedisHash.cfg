CONSTANTS
  StringKeys = {}
  HashKeys = {h}
  Fields = {f1, f2}
  Vals = {v1, v2}
  Unencodable = {v2}
  Nothing = nil
  Callers = {}
  MaxWrites = 2
SPECIFICATION DSpec
INVARIANT QueueIsSound
INVARIANT CrashCostsOnlyRecent
PROPERTY ImplementsStore
