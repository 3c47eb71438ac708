\* No failures: one record the database refuses among good ones.
SPECIFICATION Spec
CONSTANTS
  Keys = {k1, k2}
  Known = {k1}
  MaxRows = 2
  BatchSize = 2
  MaxErrorLogCount = 1
  MaxRetries = 2
  MaxFaults = 0
INVARIANTS
  RecordsIndependent
CHECK_DEADLOCK FALSE
