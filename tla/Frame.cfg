CONSTANTS
    Owners = {o1, o2}
    Cmds = {c1, c2}
    None = None
    Interval = 2
    Delays = {0}
    Steps = {1, 2}
    MaxTimers = 4
    Budgets <- MCBudgets
    MaxDepth = 2
    Careless = FALSE
SPECIFICATION FairSpec
INVARIANTS FrameSound SafeFrames TimersKeepTime
PROPERTY FrameLive
CHECK_DEADLOCK FALSE
