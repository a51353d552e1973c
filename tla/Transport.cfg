SPECIFICATION Spec
CONSTANTS
    MaxLen = 3
    RxCapacity = 5
    Content = {x}
    TxLens = {2, 3}
    MaxBytes = 7
    MaxTx = 2
INVARIANTS
    RingHoldsTail
    FramesAreLines
    WrittenWhole
CHECK_DEADLOCK FALSE
