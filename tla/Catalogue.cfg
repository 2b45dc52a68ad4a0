SPECIFICATION MCSpec
CONSTANTS
  a = a
  b = b
  r1 = r1
  r2 = r2
  r3 = r3
  Subjects = {"episodes", "tags", "works", "faces", "edits", "pages"}
  c1 = c1
  c2 = c2
  m1 = m1
  m2 = m2
  None = None
  Callers = {c1, c2}
  Pictures = {m1, m2}
  Looks = {a, b}
  Refreshes = {r1, r2, r3}
  NumListed = 3
  Medias = {m}
  MaxTags = 3
  MaxTagCalls = 2
  MaxWorks = 2
  Mains = {i}
  MaxWorkCalls = 3
  Deleted = Deleted
  MaxFaces = 4
  MaxPeople = 2
  PersonMedias = 2
  Task = Task
  Api = Api
  MaxFaceCalls = 3
  MaxMadeTags = 2
  MaxRemovals = 1
  MaxMedias = 3
  MaxLimit = 2
  MaxEdits = 1
  MaxClock = 2
SYMMETRY MCSymmetry
INVARIANTS
  RefreshesComplete
  
  RemovalsRecorded
  
  EditsTaken
  PagesFollowed
PROPERTIES
  MergeKeepsItems
  EnrichKeepsEdits
CHECK_DEADLOCK FALSE
