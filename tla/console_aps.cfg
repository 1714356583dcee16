CONSTANTS
    MaxUser = 2
    Ap = {a1, a2}
    Logging = TRUE
SPECIFICATION Spec
CHECK_DEADLOCK FALSE
INVARIANTS StackExclusive
