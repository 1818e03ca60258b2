\* Two calls of one delivery id, one file, two targets, one change of the
\* situation and one restart.
SPECIFICATION Spec
CONSTANTS
  Calls = {c1, c2}
  Ids = {d1}
  Files = {f1}
  None = None
  MaxTargets = 2
  MaxChanges = 1
  MaxRetries = 1
  MaxProcesses = 2
INVARIANTS TypeOK 
PROPERTIES DeliveriesAreSound DeliveriesSettle
CHECK_DEADLOCK FALSE
