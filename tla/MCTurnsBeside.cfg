SPECIFICATION Spec
CONSTANTS
  p1 = p1
  p2 = p2
  s1 = s1
  s2 = s2
  here = here
  there = there
  beside = beside
  Places = {here, there, beside}
  Processes = {p1, p2}
  Sessions = {s1, s2}
  ProcessOf <- MCProcessOf
  SessionOf <- MCSessionOf
  Requests <- TwoRequests
  MaxEvents = 2
  MaxOperations = 3
  MaxFaults = 0
  MaxCancels = 0
  MaxCrashes = 0
INVARIANTS StreamSound MemoryOnRecord
CHECK_DEADLOCK FALSE
