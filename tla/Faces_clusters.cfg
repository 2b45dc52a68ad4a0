SPECIFICATION Spec
CONSTANTS
  MaxFaces = 4
  MaxPeople = 2
  Medias = {m1, m2}
  Looks = {a, b}
  PersonMedias = 2
  Task = Task
  Api = Api
  MaxCalls = 3
  None = None
PROPERTIES
  PromotedTogether
\* The system stops when every request has been answered.
CHECK_DEADLOCK FALSE
