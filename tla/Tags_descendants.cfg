SPECIFICATION Spec
CONSTANTS
  MaxTags = 3
  Names = {x, y}
  Callers = {c1}
  MaxCalls = 2
  None = None
INVARIANTS
  DescendantsRemoved
\* The system stops when every request has been answered.
CHECK_DEADLOCK FALSE
