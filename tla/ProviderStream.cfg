SPECIFICATION Spec
CONSTANTS
  Calls = {c1, c2}
  c1 = c1
  c2 = c2
  Vendors = {"blocking", "async"}
  Events <- MCEvents
  MaxEvents <- MCMaxEvents
  MaxRetries = 1
  PoolSize = 1
INVARIANTS OneExchange MeteredAsReported
PROPERTIES CallsEnd
CHECK_DEADLOCK FALSE
