\* Two sessions, a running and an ended state, up to three mutations between
\* two writes.
SPECIFICATION Spec
CONSTANTS
  Ids = {s1, s2}
  Values = {"active", "finished"}
  Running = {"active"}
  None = None
  MaxPending = 3
INVARIANTS TypeOK WorkingViewIsReplay PendingIsScheduled
PROPERTIES ImplementsRecordStore
