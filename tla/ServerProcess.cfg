SPECIFICATION FairSpec
CONSTANTS
    Requests = {r1, r2}
    PoolSize = 1
    MaxFaults = 1
INVARIANTS GracefulShutdownAnswers
PROPERTIES ProcessEnds RequestsEnd AnsweredChangesAreAudited AuditRowsAreKept
CHECK_DEADLOCK FALSE
