CONSTANTS
    NClust = 6
    EPS = 4
    SPS = 4
    Alias <- MCAlias
    Paths <- MCPaths
    Dirs <- MCDirs
    Modes <- MCModes
    Fil = {f, g}
    Size = 2
    Images <- MCImages
    Calls = 4
SPECIFICATION Spec
SYMMETRY Symmetry
CHECK_DEADLOCK FALSE
INVARIANTS WriteThrough CountExact FilesIntact MediumSound Accounting
