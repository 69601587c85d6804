SPECIFICATION FairBreakerSpec
CONSTANTS
  c1 = c1
  c2 = c2
  c3 = c3
  Calls = {c1, c2, c3}
  FailureThreshold = 3
  RecoveryTimeout = 2
  MaxAttempts = 2
INVARIANTS SlotHeld
PROPERTIES OnlyFailuresOpen AlwaysRecovers
