\* Two uploads and runs, a download and a file sent, all under one name.
SPECIFICATION RunnerSpec
CONSTANTS
  name = name
  Outside = Outside
  Absent = Absent
  Other = Other
  Broken = Broken
  Uploads = {u1, u2}
  Downloads = {d1}
  Paths = {p1}
  Base <- SameName
  Chunks = 1
  Runs = {r1, r2}
  Posts = {f1}
  Elsewhere = {r1, r2, f1}
SYMMETRY Symmetric
INVARIANTS
  UploadWhole
  CopyNotOlder
  NewestKept
  StateAfterFiles
  RefusedOnlyBroken
CHECK_DEADLOCK FALSE
