\* Capacity 3 rather than the code's 2: a ring of two slots cannot tell
\* "the slot after head" from "the slot before head".
SPECIFICATION Spec
CONSTANTS
    Frame = {f1, f2, f3}
    Capacity = 3
    None = None
INVARIANTS
    FrontIsOldest
PROPERTIES
    RefinesFifo
