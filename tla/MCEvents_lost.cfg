SPECIFICATION PartsSpec
CONSTANTS
  e1 = e1
  Event = {e1}
  Copies <- MCCopies
  EventOf <- MCEventOf
  Consumer = {k1}
  Request = {}
  MaxRetries = 1
  MaxFaults = 0
  Mapping = {"m1", "m2", "m3"}
  TypeOf <- MCTypeOf
  EventType = {"order"}
  Writer = {}
  MappingHandler = {}
  MaxMappingSaves = 0
  MaxRestarts = 0
  Fields = 0
  Target = {}
  Transform = {"direct"}
INVARIANTS NoSilentLoss
CHECK_DEADLOCK FALSE
