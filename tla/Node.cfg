SPECIFICATION FairNodeSpec
CONSTANTS
    N = 1
    Id = {i1, i2, i3}
    NoId = NoId
    Capacity = 1
    Dest = {"LPC"}
    Reaches <- MCReaches
    MaxLines = 2
    Local <- MCLocal
INVARIANTS
    OneFinalAnswer
PROPERTIES
    SlotNeverOverrun
    NothingAfterFinal
    RequestsSettle
    NoSourceStarves
