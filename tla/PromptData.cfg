SPECIFICATION MCSpec
CONSTANTS
  Tables = {"t1", "t2"}
  MaxLines = 6
  HubLimit = 2
  SeedLimit = 2
  Canonical <- MCCanonical
  Empty = "empty"
  Unparsed = "unparsed"
  MaxMarks = 5
  MaxAvailable = 8
  MaxText = 6
INVARIANTS TablesAsSaid ChoicesKept SqlKept CutsKept ExplanationFits
CHECK_DEADLOCK FALSE
