SPECIFICATION Spec
CONSTANTS
  s1 = s1
  c1 = c1
  c2 = c2
  k1 = k1
  k2 = k2
  k3 = k3
  x1 = x1
  x2 = x2
  Callbacks = {c1}
  Owners = {s1}
  OwnerOf <- OwnedBy
  Schedules <- SoonerAgain
  Cancels <- CanceledTwice
  MaxCallbacks = 1
  MaxFuture = 2
  MaxTime = 2
  MaxFaults = 1
INVARIANTS CanceledBeforeRemoval
CHECK_DEADLOCK FALSE
