\* Every interleaving, the clock inside task_exit included.
CONSTANTS
    Root = root
    Slot = {root, p1, p2, p3}
    MaxPid = 4
    MAX_TASK_NUM = 2
    KernelTasks = TRUE
    ExitTick = TRUE
SPECIFICATION Spec
SYMMETRY SlotSymmetry
CHECK_DEADLOCK FALSE
INVARIANTS RingOK ContextIsOwn StaleNextLive ExitNeverReturns
