\* Two files, ingested together or apart, that change, change back and become empty.
SPECIFICATION Spec
CONSTANTS
  f1 = f1
  f2 = f2
  v1 = v1
  v2 = v2
  empty = empty
  Unread = Unread
  Files = {f1, f2}
  Versions = {v1, v2, empty}
  Blank = {empty}
  Parts = {1}
  MaxRequests = 3
SYMMETRY Symmetric
INVARIANTS
  StoresAgree
  OneDocPerFile
  DocstoreCurrent
