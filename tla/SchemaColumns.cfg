SPECIFICATION DocSpec
CONSTANTS
  Tables = {"t1", "t2"}
  MaxLines = 6
INVARIANTS ColumnsKept
CHECK_DEADLOCK FALSE
