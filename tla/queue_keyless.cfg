\* Two imports and nothing that fails.
SPECIFICATION Spec
CONSTANTS
  Imports = {a, b}
  Exports = {}
  Instances = {w1}
  IdemKeys = {key}
  NoKey = nokey
  ObjKeys = {obj}
  NoSource = nosource
  Poison = {}
  Stamps = {1}
  FaultKinds = {}
  MaxFaults = 0
  None = None
INVARIANTS
  KeylessImportAccepted
CHECK_DEADLOCK FALSE
