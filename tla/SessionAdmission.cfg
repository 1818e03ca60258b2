\* Two sessions, one of them resumed, and two prompts for one slot or two.
SPECIFICATION FairSpec
CONSTANTS
  Sessions = {s1, s2}
  Resumed = {s1}
  Prompts = {p1, p2}
  Limits = {1, 2}
  Unread = Unread
INVARIANTS TypeOK CapacityNeverExceeded RunningSessionsOwnASlot
PROPERTIES AdmissionsSettle
CHECK_DEADLOCK FALSE
