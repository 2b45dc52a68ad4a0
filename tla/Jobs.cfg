SPECIFICATION MCSpec
CONSTANTS
  Subjects = {"requests", "scheduler"}
  Requests = {r1, r2}
  None = None
  MaxCrashes = 1
  refresh = refresh
  face = face
  ask1 = ask1
  ask2 = ask2
  Periodic = {refresh}
  OneOff = {face}
  Calls = {ask1, ask2}
  TaskOf <- MCTaskOf
  Period <- MCPeriod
  MaxClock = 3
  NoItem = NoItem
PROPERTIES
  FinishedIsFetched
  RequestServed
  PeriodicComesBack
\* The requests stop when each is settled.
CHECK_DEADLOCK FALSE
