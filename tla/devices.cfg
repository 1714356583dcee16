CONSTANTS
    ROWS = 2
    COLS = 2
    TAB = 1
    Glyph = {"x"}
    Plain <- MCPlain
    Shifted <- MCShifted
    Key <- MCKey
    Task = {t1, t2}
    FD_NR = 2
    DEV_NR = 4
    KDirs <- MCKDirs
    KNodes <- MCKNodes
    UPaths <- MCUPaths
    Modes <- MCModes
    Fil = {f1, f2}
    Loads <- MCLoads
SPECIFICATION Spec
SYMMETRY Symmetry
CHECK_DEADLOCK FALSE
INVARIANTS BoundIsCurrent FilsOwned KeepsOldest ShiftIsPhysical ShowsTail
PROPERTIES FdStable PathStable
