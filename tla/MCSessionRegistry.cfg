SPECIFICATION FairSpec
CONSTANTS
  i1 = i1
  i2 = i2
  i3 = i3
  t1 = t1
  t2 = t2
  Ids = {i1, i2, i3}
  Tasks = {t1, t2}
  MaxSessions = 2
  MaxObjects = 3
  MaxThreads = 1
  CancelPoints = {"waiting", "turning", "closing"}
INVARIANTS AdmissionSound TurnsServed CleanupRetryable
PROPERTIES ReservationsEnd
CHECK_DEADLOCK FALSE
