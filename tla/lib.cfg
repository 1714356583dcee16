CONSTANTS
    L = 2
    U = 5
    Strings <- MCStrings
    Directives <- MCDirectives
    BODY = 3
    EXT = 1
    PART = 2
    MAX = 5
    CodePage <- MCCodePage
    Entries = 21792
    Programs <- MCPrograms
    Typed <- MCTyped
SPECIFICATION Spec
CHECK_DEADLOCK FALSE
INVARIANTS Exact ReadsBack Compares Searches NamesKept
