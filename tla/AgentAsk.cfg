SPECIFICATION Spec
CONSTANTS
  ToolCalls = {1, 2, 3}
  MaxHits = 2
INVARIANTS RowsOfTheirSQL CitationsMeant
PROPERTIES KeepsContract
CHECK_DEADLOCK FALSE
