SPECIFICATION FairSpec
CONSTANTS
  Call = {c1, c2}
  Writer = {w1}
  FailureThreshold = 2
  FailureWindow = 1
  Cooldown = 1
  HalfOpenMaxAttempts = 1
  SuccessThreshold = 2
  Never = never
  MaxRestarts = 1
INVARIANTS NeverWedged NoMissedTrip
PROPERTIES ClosesOnStreak Recovers
CHECK_DEADLOCK FALSE
