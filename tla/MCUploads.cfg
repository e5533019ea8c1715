SPECIFICATION PartsSpec
CONSTANTS
  Rows = 4
  Blank = {2}
  BatchSize = 3
  Concurrency = 2
  Worker = {w1}
  Request = {q1, q2}
  MaxFaults = 2
  Call = {c1, c2, c3}
  Threshold = 2
  Cooldown = 1
  MAX_RETRIES = 2
  FileRows = 5
  GroupOf <- MCGroupOf
  OrderData <- MCOrderData
  BlankGroups = {"b"}
  conflictMode = "strict"
  BatchSizes = {2, 3, 6}
  MaxRetries = 1
  MaxGroupFaults = 2
  Header = {"eventType", "orderId", "item.sku", "_note"}
  Reserved = {"_note"}
  ItemHeader = {"item.sku"}
  KeyHeader = "orderId"
  Value = {"x"}
  Columns = 3
  MaxSheetRows = 2
  maxRows = 2
INVARIANTS RowsAccounted 
PROPERTIES BreakersSafe UploadsEnd
CHECK_DEADLOCK FALSE
