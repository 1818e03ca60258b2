\* Two attempts, the second one behind a crash, a completion or a cancellation.
SPECIFICATION FairSpec
CONSTANTS
  Attempts = {1, 2}
  NoOne = 0
  MaxQueue = 2
INVARIANT TypeOK
PROPERTIES GenerationsAgree LifecyclesSettle
CHECK_DEADLOCK FALSE
