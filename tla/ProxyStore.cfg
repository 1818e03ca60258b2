SPECIFICATION Spec
CONSTANTS
  None = None
  Actors = {queue, scopes, cli}
  Servers = {queue, scopes}
  Tested = {queue}
  MaxMutations = 2
  MaxCrashes = 2
  MaxFaults = 1
INVARIANTS TypeOK
PROPERTIES PolicyIsKept MutationsEnd
CHECK_DEADLOCK FALSE
