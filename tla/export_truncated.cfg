\* The one failure is the database connection's, in the middle of the query.
SPECIFICATION Spec
CONSTANTS
  MaxRows = 2
  MaxFaults = 1
INVARIANTS
  BrokenStreamNoticed
CHECK_DEADLOCK FALSE
