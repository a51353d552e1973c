SPECIFICATION FairSpec
CONSTANTS
    ROUTES <- MCRoutes
    Layout <- MCLayout
    Devices <- MCDevices
    Levels = {"HIGH"}
    MaxPresses = 5
    MaxLost = 1
    MaxSwaps = 2
INVARIANT MapWhole
INVARIANT MapSound
INVARIANT DiscoveryBacked
INVARIANT KeptInStep
INVARIANT EachBankInOneTab
PROPERTY SetAsAsked
PROPERTY MapSettles
CHECK_DEADLOCK FALSE
