SPECIFICATION FairSpec
CONSTANTS
  None = None
  Callers = {c1, c2}
  Runtimes = {r1, r2}
  MaxProcs = 3
  MaxAttempts = 2
  Capacity = 2
  MaxChanges = 1
  MaxFaults = 2
INVARIANTS TypeOK
PROPERTIES OwnershipIsKept PoolSettles
CHECK_DEADLOCK FALSE
