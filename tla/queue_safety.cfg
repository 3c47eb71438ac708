\* Two imports and an export, two processes, any two failures,
\* creation times that may be equal or out of order.
SPECIFICATION Spec
CONSTANTS
  Imports = {a, b}
  Exports = {x}
  Instances = {w1, w2}
  IdemKeys = {key}
  NoKey = nokey
  ObjKeys = {obj}
  NoSource = nosource
  Poison = {}
  Stamps = {1, 2}
  FaultKinds = {"db", "s3", "crash"}
  MaxFaults = 2
  None = None
SYMMETRY Interchangeable
INVARIANTS
  TypeOK
  ExclusiveClaim
  AtMostOnce
  NoLostUpdate
  IdempotentSubmission
  SourcePresent
  ResultHonest
  OneFaultOneJob
PROPERTIES
  RowsOnlyAdvance
CHECK_DEADLOCK FALSE
