CONSTANTS
  Bridges = {b1, b2}
  Primary = b1
  Starts = {{}, {b1, b2}}
  Events = {e1, e2}
  AllowAttach = TRUE
  AllowDetach = TRUE
  AllowBlock = TRUE
  AllowIoError = TRUE
  AllowCancel = TRUE
  AllowShutdown = TRUE
SPECIFICATION FairSpec
INVARIANTS TypeOK
PROPERTIES DeliveryIsHonoured ClaimedDeliveryEnds
CHECK_DEADLOCK FALSE
