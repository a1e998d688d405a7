SPECIFICATION Spec
CONSTANTS
  ToolCalls = {1, 2, 3}
  MaxHits = 2
INVARIANTS DryRunRunsNothing
CHECK_DEADLOCK FALSE
