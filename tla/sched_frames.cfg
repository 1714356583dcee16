\* No clock interrupt inside task_exit's schedule(); safety, refinement and liveness.
CONSTANTS
    Root = root
    Slot = {root, p1, p2, p3}
    MaxPid = 4
    MAX_TASK_NUM = 2
    KernelTasks = TRUE
    ExitTick = FALSE
SPECIFICATION FairSpec
CHECK_DEADLOCK FALSE
INVARIANTS FramesOwn
PROPERTIES IdleLast ImplementsTasks RoundRobin
