SPECIFICATION RowsSpec
CONSTANTS
  Event = {e1}
  Manual = {x1}
  Channel = {email}
  Handler = {h1, h2}
  Limit = 1
  MaxRetries = 1
  MaxRuns = 2
  MaxReports = 1
  MaxCrashes = 1
  Rule = {"r1", "r2"}
  Condition = {"a"}
  Admin = {w1}
  Lookup = {l1}
  RuleHandler = {n1, n2}
  MaxRuleSaves = 0
  Customer = {u1, u2}
  KnownChannel = {"email"}
  RuleChannels = {"email"}
  Recipient = {t1, t2}
  Upsert = {p1}
  Override = {o1, o2}
  ttl = 1
  maxSize = 1
  MaxTime = 1
  MaxPrefSaves = 1
  MaxOverrideSaves = 2
  Number = {1, 2}
  MaxRules = 2
  None = None
  Group = {g1, g2}
  Member = {m1, m2}
  Name = {"a", "b"}
  Page = {d1}
  Client = {c1}
  MaxRequests = 3
SYMMETRY Interchangeable
INVARIANTS DispatchedIsRendered SentIsDispatched
PROPERTIES LifecycleUpToLostUpdates
CHECK_DEADLOCK FALSE
