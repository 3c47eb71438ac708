\* A single crash, and a process that is started again.
SPECIFICATION FairSpec
CONSTANTS
  Imports = {a}
  Exports = {x}
  Instances = {w1}
  IdemKeys = {key}
  NoKey = nokey
  ObjKeys = {obj}
  NoSource = nosource
  Poison = {}
  Stamps = {1}
  FaultKinds = {"crash"}
  MaxFaults = 1
  None = None
PROPERTIES
  RestartSafe
CHECK_DEADLOCK FALSE
