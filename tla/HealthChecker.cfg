SPECIFICATION Spec
CONSTANTS
    Backends = {b1, b2}
    Started = {b1, b2}
    NumTypes = 1
    MaxDisconnects = 1
    MaxRestores = 2
    Threshold = 2
    MaxFailures = 2
INVARIANTS TypeOK TwinBreakersAgree ListedRoutable
PROPERTY HiddenOnlyByTrip
CHECK_DEADLOCK FALSE
