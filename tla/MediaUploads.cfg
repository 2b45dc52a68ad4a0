SPECIFICATION MCSpec
CONSTANTS
  u1 = u1
  u2 = u2
  r1 = r1
  r2 = r2
  t1 = t1
  t2 = t2
  g1 = g1
  g2 = g2
  x = x
  y = y
  name = name
  bytes = bytes
  Uploads = {u1, u2}
  Removers = {r1, r2}
  Names = {name}
  Contents = {bytes}
  NameOf <- MCNameOf
  ContentOf <- MCContentOf
  Mixed = Mixed
  None = None
  Tasks = {t1, t2}
  a = a
  b = b
  Requests = {a, b}
  Lists <- MCLists
  Named = {a}
  Post = Post
  Jobs = {j1}
  Merges = {g1, g2}
  Splits = {s1}
  RequestIds = {x, y}
SYMMETRY MCSymmetry
INVARIANTS
  FileKept
  NoDuplicate
  ContentRemoved
  ListsStored
  ResultsWhole
\* The system stops when every upload, removal, download and conversion has ended.
CHECK_DEADLOCK FALSE
