SPECIFICATION Spec
CONSTANTS
  p1 = p1
  p2 = p2
  s1 = s1
  s2 = s2
  here = here
  there = there
  beside = beside
  Places = {here}
  Processes = {p1}
  Sessions = {s1}
  ProcessOf <- MCProcessOf
  SessionOf <- MCSessionOf
  Requests <- ThreeRequests
  MaxEvents = 3
  MaxOperations = 3
  MaxFaults = 0
  MaxCancels = 1
  MaxCrashes = 0
INVARIANTS StreamReadable
CHECK_DEADLOCK FALSE
