SPECIFICATION FairSpec
CONSTANTS
  s1 = s1
  c1 = c1
  c2 = c2
  k1 = k1
  k2 = k2
  k3 = k3
  x1 = x1
  x2 = x2
  Callbacks = {c1, c2}
  Owners = {s1}
  OwnerOf <- OwnedBy
  Schedules <- OnceAgainAndOther
  Cancels <- CanceledTwice
  MaxCallbacks = 2
  MaxFuture = 2
  MaxTime = 1
  MaxFaults = 1
INVARIANTS JobsCancelable ClosedLeavesNothing
PROPERTIES DialsAreWanted SweepsEnd
CHECK_DEADLOCK FALSE
