SPECIFICATION Spec
CONSTANTS
  r1 = r1
  r2 = r2
  r3 = r3
  k1 = k1
  k2 = k2
  Requests = {r1, r2}
  Keys = {k1, k2}
  KeyOf <- MCKeyOf
  None = None
PROPERTY
  OnlyCancelledLeaveMap
\* The system stops when every request has been answered and every session ended.
CHECK_DEADLOCK FALSE
