SPECIFICATION FairSpec
CONSTANTS
    EventCapacity = 1
    MaxRequests = 3
    MaxPortOps = 2
    MaxFaults = 1
    MaxChanges = 3
INVARIANT EndsAgree
INVARIANT LevelShown
PROPERTY RequestsSettle
PROPERTY NothingForgottenRuns
CHECK_DEADLOCK FALSE
