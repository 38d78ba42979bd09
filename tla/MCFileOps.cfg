\* Two goroutines, so that every pair of commands overlaps, on two files and three
\* folders of two volumes.  Commands stop for good only when none is sent.
SPECIFICATION MCSpec
CONSTANTS
  f1 = f1
  f2 = f2
  f3 = f3
  a = a
  b = b
  Folders = {f1, f2, f3}
  Near = {f1, f3}
  Names = {a, b}
  Ops = {r1, r2}
  Data = {v, w}
  Upload = Upload
  Nothing = Nothing
  Torn = Torn
  Commands <- MCCommands
INVARIANTS
  FilesTypeOK
  NoLoss
