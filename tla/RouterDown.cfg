SPECIFICATION FairSpec
CONSTANTS
    N = 2
    Id = {i1, i2, i3}
    NoId = NoId
    Capacity = 2
    Dest = {"LPC", "ABC", "XYZ", "lost"}
    Reaches <- MCReaches
PROPERTIES
    UnsentFailsWithRouteDown
CHECK_DEADLOCK FALSE
