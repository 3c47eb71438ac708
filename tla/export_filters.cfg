\* No failures: an export of somebody's articles, and one of an article's comments.
SPECIFICATION Spec
CONSTANTS
  Requests = {r1, r2}
  MaxFaults = 0
  BcryptKey <- MCBcryptKey
  TooLong = {"long"}
  RandomPassword = "random"
  Scenarios <- ExportScenarios
  SlugOf <- MCSlugOf
SYMMETRY AnyOrder
INVARIANTS
  SomeFilterApplies
CHECK_DEADLOCK FALSE
