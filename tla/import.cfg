\* Files of up to three records, a batch flushed inside the file and one left over,
\* and as many failures as it takes to use up the retries of a batch.
SPECIFICATION Spec
CONSTANTS
  Keys = {k1, k2}
  Known = {k1}
  MaxRows = 3
  BatchSize = 2
  MaxErrorLogCount = 1
  MaxRetries = 2
  MaxFaults = 2
INVARIANTS
  ImportTypeOK
  BatchSound
  StoredOnce
  RowsCounted
  CompletedIsComplete
  ErrorsReported
PROPERTIES
  SoundFileReturns
CHECK_DEADLOCK FALSE
