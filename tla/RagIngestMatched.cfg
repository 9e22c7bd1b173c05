\* One file of two chunks.
SPECIFICATION Spec
CONSTANTS
  f1 = f1
  f2 = f2
  v1 = v1
  v2 = v2
  empty = empty
  Unread = Unread
  Files = {f1}
  Versions = {v1, v2}
  Blank = {}
  Parts = {1, 2}
  MaxRequests = 2
SYMMETRY Symmetric
INVARIANT
  AddedWhenMatched
