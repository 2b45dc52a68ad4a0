SPECIFICATION MCSpec
CONSTANTS
  Subjects = {"backup", "accounts", "stores"}
  Medias = {m1, m2}
  Runs = {r1, r2}
  MaxClock = 2
  None = None
  Users = {a, u1, u2}
  Admins = {a}
  Libraries = {m1, m2}
  Codes = {c1, c2}
  Requests = {r1, r2}
  MaxRequests = 5
  Server = Server
  Scripts = {28, 29, 30, 31, 32}
  Rerunnable = {32}
  Garbage = Garbage
SYMMETRY MCSymmetry
INVARIANTS
  NothingPassedOver
  DeletedCopiesFound
  
  ServedWhole
\* The system stops when every run ended and every media was deleted, or every
\* request was made.
CHECK_DEADLOCK FALSE
