CONSTANTS
  StringKeys = {s}
  HashKeys = {h}
  Fields = {f}
  Vals = {v}
  Unencodable = {}
  Nothing = nil
  Callers = {c}
  MaxWrites = 2
SPECIFICATION FairSpec
INVARIANT ReadsAreCurrent
PROPERTY PendingIsFlushed
