\* No failures: a malformed file alone.
SPECIFICATION Spec
CONSTANTS
  Keys = {k1, k2}
  Known = {k1}
  MaxRows = 2
  BatchSize = 2
  MaxErrorLogCount = 1
  MaxRetries = 2
  MaxFaults = 0
PROPERTIES
  ImportReturns
CHECK_DEADLOCK FALSE
