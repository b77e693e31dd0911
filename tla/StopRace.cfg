SPECIFICATION Spec
CONSTANTS
    b1 = b1
    b2 = b2
    Backends = {b1, b2}
    Configs <- MCConfigs
    FirstConfig <- MCFirst
    Requests = {q}
    Watcher = w
    Flaky = {}
    Invalid = Invalid
    None = None
    MaxEdits = 1
    MaxRequests = 1
    MaxStops = 2
INVARIANT StoppedHasNoSessions
CHECK_DEADLOCK FALSE
