CONSTANTS
    Tools = {"tool"}
    MaxVersion = 2
    MaxStarts = 3
    Widths = {1, 2}
SPECIFICATION FairSpec
INVARIANTS
    IndexIsOneBuild
    KnownWidthIsTables
PROPERTIES
    ServesAnIndex
    JobsEnd
CHECK_DEADLOCK FALSE
