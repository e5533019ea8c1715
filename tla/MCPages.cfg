SPECIFICATION PartsSpec
CONSTANTS
  None = None
  MaxChanges = 2
  MaxFaults = 1
  MaxVisits = 2
  MaxRetries = 1
  Text <- MCText
  Sizes = {1, 2}
  Arriving <- MCArriving
  MaxRows = 3
  MaxEdits = 3
  MaxOthers = 2
  MaxExports = 1
  
PROPERTIES ScreensCatchUp
CHECK_DEADLOCK FALSE
