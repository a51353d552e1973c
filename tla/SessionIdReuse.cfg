SPECIFICATION Spec
CONSTANTS
    P = 1
    Pullable = {}
    COUNT = 4
    Targets = {1}
    Events = {"refresh"}
    MaxOps = 6
    MaxRefused = 0
PROPERTIES
    ListenerIdNotReused
CHECK_DEADLOCK FALSE
