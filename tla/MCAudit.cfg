SPECIFICATION PartsSpec
CONSTANTS
  s1 = s1
  s2 = s2
  u1 = u1
  x1 = x1
  v1 = v1
  Message = {s1, s2, u1, x1, v1}
  Kind <- KindOf
  Content <- Fingerprint
  UnfitEvent = {u1}
  UnfitExtra = {}
  BatchSize = 2
  Prefetch = 2
  MaxRetries = 2
  MaxFaults = 2
  Entry = {e1}
  Request = {r1, r2}
  RetentionDays = 1
  MaxDay = 3
  MaxPublished = 2
  Channel = {email}
  DayLength = 2
  Lookback = 2
  MaxHour = 2
  MaxArrivals = 2
  MaxRuns = 2
  Notification = {n1, n2}
  Correlation = {c1}
  PageSize = 1
  exportMaxRows = 2
  searchMaxResults = 2
  MaxRows = 3
  
PROPERTIES  MessagesEnd
CHECK_DEADLOCK FALSE
