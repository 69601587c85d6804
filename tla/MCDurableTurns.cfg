SPECIFICATION FairSpec
CONSTANTS
  p1 = p1
  p2 = p2
  s1 = s1
  s2 = s2
  here = here
  there = there
  beside = beside
  Places = {here}
  Processes = {p1}
  Sessions = {s1}
  ProcessOf <- MCProcessOf
  SessionOf <- MCSessionOf
  Requests <- ReusedRequests
  MaxEvents = 2
  MaxOperations = 2
  MaxFaults = 1
  MaxCancels = 1
  MaxCrashes = 1
INVARIANTS OperationOnce ToldAsRecorded
PROPERTIES TurnsEnd
CHECK_DEADLOCK FALSE
