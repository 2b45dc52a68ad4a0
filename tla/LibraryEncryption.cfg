SPECIFICATION MCSpec
CONSTANTS
  Subjects = {"password", "format", "bytes", "images", "plugins", "views", "copies"}
  a = a
  b = b
  t1 = t1
  t2 = t2
  t3 = t3
  u1 = u1
  u2 = u2
  m1 = m1
  m2 = m2
  Patches = {p1, p2}
  Medias = {m1, m2}
  Remote <- MCRemote
  Passwords = {a, b}
  None = None
  Garbage = Garbage
  BodySizes = {0, 1, 16, 33}
  ThumbSizes = {0, 12}
  InfosSizes = {0, 16}
  Pieces = {1, 15, 17, 64}
  Sizes = {0, 1, 20, 41}
  Bounds = {0, 1, 3, 19, 20, 21, 41, 42}
  StoredPieces = {1, 15}
  Wrap = 256
  Absent = Absent
  Tasks = {t1, t2, t3}
  MaxImages = 2
  Callers = {u1, u2}
  Startup = u0
  PluginFiles = {f1, f2}
  MaxFiles = 2
  MaxPlugin = 2
  MaxMappings = 2
  Keys = {k1}
  MaxSource = 2
  MaxStarts = 2
  Torn = Torn
SYMMETRY MCSymmetry
INVARIANTS
  FilesMatchPassword
  LostOnlyByTwoChanges
  RestoredWhole
  ServedAsAnnounced
  UpdateShown
  LoadedAsOnDisk
  HoldersWaitOnlyToReread
  LinkedUsersRead
  CopyKept
\* The system stops when every request, upload, file and call is through.
CHECK_DEADLOCK FALSE
