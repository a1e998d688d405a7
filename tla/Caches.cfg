CONSTANTS
    Procs = {p, q}
    Users = {u, v}
    Calls = {c1, c2, c3}
    TTL = 2
    MaxTime = 2
    MaxVersion = 2
SPECIFICATION Spec
SYMMETRY Symmetry
INVARIANTS
    UsersApart
    AgeBounded
    NeverBackInTime
    ContextIsCurrent
CHECK_DEADLOCK FALSE
