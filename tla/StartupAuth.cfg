SPECIFICATION Spec
CONSTANTS
    r1 = r1
    r2 = r2
    s1 = s1
    s2 = s2
    Remote = {r1}
    Stdio = {s1}
    Retries <- MCRetries
    Concurrency = 1
INVARIANT AuthOutcomeKnown
CHECK_DEADLOCK FALSE
