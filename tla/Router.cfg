\* A queue of one frame, where the code has two: three requests then fill slot
\* and queue and are refused.  The proofs cover every capacity.
SPECIFICATION FairSpec
CONSTANTS
    N = 2
    Id = {i1, i2, i3}
    NoId = NoId
    Capacity = 1
    Dest = {"LPC", "ABC", "XYZ", "lost"}
    Reaches <- MCReaches
INVARIANTS
    InOrderWhileUp
    NothingForgotten
    AnsweredOnce
PROPERTIES
    DownIsFinal
    AcceptedSettles
CHECK_DEADLOCK FALSE
