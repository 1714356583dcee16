CONSTANTS
    P = 2
    FirstFrame = 2
    LastFrame = 11
    TablePages = 2
    HeapStart = 12
    HeapPages = 6
    UserPages = 3
    Mm = {m1, m2}
    Root = root
    Structs = {1, 2}
    Requests = {1, 3}
    Increments = {1, 2}
    Decrements = {1}
    CrossPage = TRUE
SPECIFICATION Spec
CHECK_DEADLOCK FALSE
INVARIANTS FrameOnce
