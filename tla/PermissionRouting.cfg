CONSTANTS
  Bridges = {b1, b2}
  Channel = b1
  Requests = {r1, r2}
  Allowable = {r1}
  NoRequest = none
SPECIFICATION FairSpec
INVARIANTS TypeOK
PROPERTIES RequestsKeepApart
CHECK_DEADLOCK FALSE
