SPECIFICATION Spec
CONSTANTS
    Backends = {b1, b2}
    Started = {b1, b2}
    NumTypes = 1
    MaxDisconnects = 1
    MaxRestores = 1
    Threshold = 2
    MaxFailures = 2
PROPERTY OpenIsProbedAgain
CHECK_DEADLOCK FALSE
