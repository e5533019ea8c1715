SPECIFICATION PartsSpec
CONSTANTS
  e1 = e1
  Event = {e1}
  Copies <- MCCopies
  EventOf <- MCEventOf
  Consumer = {k1, k2}
  Request = {r1}
  MaxRetries = 1
  MaxFaults = 1
  Mapping = {"m1", "m2", "m3"}
  TypeOf <- MCTypeOf
  EventType = {"order"}
  Writer = {w1}
  MappingHandler = {h1, h2}
  MaxMappingSaves = 3
  MaxRestarts = 1
  Fields = 2
  Target = {"a", "b"}
  Transform = {"direct", "toNumber", "unknown"}
INVARIANTS PublishedOnce RowMatchesBroker
PROPERTIES EventsDrain 
CHECK_DEADLOCK FALSE
