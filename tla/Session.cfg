SPECIFICATION FairSpec
CONSTANTS
    P = 2
    Pullable = {1}
    COUNT = 8
    Targets = {0, 1}
    Events = {"refresh", "reconnect", "bye"}
    MaxOps = 4
    MaxRefused = 1
INVARIANTS
    MarksBacked
    ViewAgrees
PROPERTIES
    MarksSettle
    NoIdInFlightReused
CHECK_DEADLOCK FALSE
