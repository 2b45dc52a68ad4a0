SPECIFICATION MCSpec
CONSTANTS
  Subjects = {"convert", "streams", "library"}
  r1 = r1
  r2 = r2
  r3 = r3
  n1 = n1
  n2 = n2
  c1 = c1
  c2 = c2
  k1 = k1
  k2 = k2
  m1 = m1
  Requests = {r1, r2, r3}
  FileOverlay = {r3}
  Names = {n1, n2}
  DestOf <- MCDestOf
  NoRequest = NoRequest
  Passwords = {a}
  Garbage = Garbage
INVARIANTS
  NoLostWakeup
PROPERTIES
  ImplementsService
  AcceptedEnds
  CancelledSessionEnds
  PasswordReachesFiles
\* The system stops when every request has been answered and what it started ended.
CHECK_DEADLOCK FALSE
