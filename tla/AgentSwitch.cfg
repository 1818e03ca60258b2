\* Two switches between two agents, one secondary adapter.
SPECIFICATION FairSpec
CONSTANTS
  Agents = {claude, gemini}
  First = claude
  Adapters = {telegram, sse}
  Channel = telegram
  MaxSwitches = 2
INVARIANTS TypeOK
PROPERTIES SwitchIsAtomic SwitchesSettle
CHECK_DEADLOCK FALSE
