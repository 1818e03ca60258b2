\* Three prompts, two cancellations: a running turn, one in the cleanup, one pending.
CONSTANTS
  NoPrompt = NoPrompt
  Prompts = {p1, p2, p3}
  CancelOps = {c1, c2}
  OnErrorMayThrow = FALSE
SPECIFICATION FairSpec
INVARIANTS TypeOK SerialExecution CancellationNeverLeaks
PROPERTIES ImplementsPromptLine CallersAreFreed
CHECK_DEADLOCK FALSE
