SPECIFICATION PartsSpec
CONSTANTS
  Event = {e1}
  Manual = {}
  Channel = {email}
  Handler = {h1}
  Limit = 1
  MaxRetries = 0
  MaxRuns = 3
  MaxReports = 2
  MaxCrashes = 2
  Rule = {"r1", "r2"}
  Condition = {"a"}
  Admin = {w1}
  Lookup = {l1}
  RuleHandler = {n1, n2}
  MaxRuleSaves = 2
  Customer = {u1, u2}
  KnownChannel = {"email"}
  RuleChannels = {"email"}
  Recipient = {t1, t2}
  Upsert = {p1}
  Override = {o1, o2}
  ttl = 1
  maxSize = 1
  MaxTime = 1
  MaxPrefSaves = 1
  MaxOverrideSaves = 2
  Number = {1, 2}
  MaxRules = 2
  None = None
  Group = {g1, g2}
  Member = {m1, m2}
  Name = {"a", "b"}
  Page = {d1}
  Client = {c1}
  MaxRequests = 3
INVARIANTS  RulesApply ChannelsAsConfigured
PROPERTIES EventDrains GroupsConsistent
CHECK_DEADLOCK FALSE
