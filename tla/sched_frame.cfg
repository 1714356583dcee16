CONSTANTS
    Root = root
    Slot = {root, p1, p2, p3}
    MaxPid = 3
    MAX_TASK_NUM = 2
    KernelTasks = FALSE
    ExitTick = TRUE
SPECIFICATION Spec
CHECK_DEADLOCK FALSE
INVARIANTS FramesOwn
