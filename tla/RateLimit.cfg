CONSTANTS
    Calls = {c1, c2, c3, c4}
    Limit = 1
    Window = 1
    Second = 2
    MaxTime = 5
SPECIFICATION Spec
SYMMETRY Symmetry
INVARIANTS
    WindowBound
PROPERTIES
    RefusalEarned
    RetryHonoured
CHECK_DEADLOCK FALSE
