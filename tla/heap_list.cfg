CONSTANTS
    H = 2
    Base = 4
    Limit = 16
    Sizes = {1, 2, 4}
SPECIFICATION HeapSpec
CHECK_DEADLOCK FALSE
INVARIANTS ListOK OwnedOK
PROPERTIES ImplementsAlloc
