SPECIFICATION Spec
CONSTANTS
    r1 = r1
    r2 = r2
    s1 = s1
    s2 = s2
    Remote = {r1, r2}
    Stdio = {s1, s2}
    Retries <- MCRetries
    Concurrency = 1
INVARIANTS TypeOK SessionsReady AttemptsBounded NoEarlyGiveUp AtMostOneLateStart
PROPERTY StartAllReturns
CHECK_DEADLOCK FALSE
