CONSTANTS
    Size = 3
    Words = 2
    U8 = 4
    LBA = 4
    MaxCount = 3
    Datum = {a, b}
    Calls = 3
    Faults = 2
SPECIFICATION Spec
CHECK_DEADLOCK FALSE
PROPERTIES ImplementsMedium 
