SPECIFICATION Spec
CONSTANTS
  Patches = {p1}
  Medias = {m1}
  Remote = {}
  Passwords = {a}
  None = None
  Garbage = Garbage
INVARIANTS
  DecryptsOnlyRemoved
\* The system stops when every request and upload is through.
CHECK_DEADLOCK FALSE
