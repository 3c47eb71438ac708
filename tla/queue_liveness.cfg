\* One import that can hang, one that cannot and one export, two processes and
\* one failure of any kind, under fairness.  No symmetry: liveness is checked.
SPECIFICATION FairSpec
CONSTANTS
  Imports = {a, b}
  Exports = {x}
  Instances = {w1, w2}
  IdemKeys = {key}
  NoKey = nokey
  ObjKeys = {obj}
  NoSource = nosource
  Poison = {b}
  Stamps = {1}
  FaultKinds = {"db", "s3", "crash"}
  MaxFaults = 1
  None = None
PROPERTIES
  JobsSettle
  ImplementsLifecycle
CHECK_DEADLOCK FALSE
