CONSTANTS
    Turns = {t1, t2}
    MaxMessages = 3
SPECIFICATION FairSpec
INVARIANTS
    HistoryBounded
    ExchangesInOrder
    AcknowledgedRecorded
    UndisturbedExact
PROPERTIES
    NoResurrection
    TurnEnds
CHECK_DEADLOCK FALSE
