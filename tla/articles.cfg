\* Three requests, each any call of its scenario, one of them with a failing
\* statement.
SPECIFICATION Spec
CONSTANTS
  Requests = {r1, r2, r3}
  MaxFaults = 1
  BcryptKey <- MCBcryptKey
  TooLong = {"long"}
  RandomPassword = "random"
  Scenarios <- MCScenarios
  SlugOf <- MCSlugOf
SYMMETRY AnyOrder
INVARIANTS
  ApiTypeOK
  DuplicatesNeedARace
  RelationSettles
  RefusedOnlyOutsiders
  UpdatesAddUp
  PasswordHolds
  FeedComplete
  ExportOfFound
PROPERTIES
  OwnersDecide
  NobodyWrites
CHECK_DEADLOCK FALSE
