SPECIFICATION FairSpec
CONSTANTS
  Event = {e1}
  Manual = {}
  Channel <- OnlySms
  Handler = {h1}
  Limit = 1
  MaxRetries = 0
  MaxRuns = 1
  MaxReports = 6
  MaxCrashes = 0
  RouterChannel <- Both
  Slot = {s1}
  MaxAttempts <- Attempts
  Fallback <- ToEmail
  NoChannel = none
  AttemptBound = 2
  MaxFaults = 0
  sms = sms
  email = email
INVARIANTS CallsHaveRows
PROPERTIES SidesBehave ComesToRest
CHECK_DEADLOCK FALSE
