SPECIFICATION MCSpec
CONSTANTS
  Subjects = {"streams", "lists"}
  r1 = r1
  r2 = r2
  r3 = r3
  c1 = c1
  c2 = c2
  k1 = k1
  k2 = k2
  n1 = n1
  n2 = n2
  g1 = g1
  g2 = g2
  Requests = {r1, r2, r3}
  TsRequests = {r2}
  Channels = {c1, c2}
  Keys = {k1, k2}
  ChannelOf <- MCChannelOf
  KeyOf <- SameChannel
  MaxStreams = 1
  MaxRestarts = 1
  None = None
  Imports = {i1, i2}
  MaxImports = 3
  MaxCalls = 1
  Entries <- MCEntries
  Versions = {v1, v2}
SYMMETRY MCSymmetry
INVARIANTS
  NoSlotLeak
  OrphanOnlyByRace
  PlaylistImported
\* The system stops when every request has been answered and every stream and import ended.
CHECK_DEADLOCK FALSE
