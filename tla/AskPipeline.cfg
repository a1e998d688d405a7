CONSTANT Requests = {r1}
SPECIFICATION FairSpec
INVARIANTS
    GuardedExecution
    DeliveredSQLChecked
    AnswerMatchesRoute
    TokensOfFinalAnswer
    AuditTrail
    FailureAudited
PROPERTIES
    EveryCallEnds
    KeepsContract
CHECK_DEADLOCK FALSE
