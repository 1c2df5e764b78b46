SPECIFICATION FairSpec
CONSTANTS
    Workers = {w1, w2}
    Submitters = {s1, s2}
    Tasks = {t1, t2}
    NoTask = NoTask
    NoThread = NoThread
INVARIANTS TypeOK NoSleepOnWork StoppedIsQuiet
PROPERTIES Implements TasksExecuted StopReturns
CHECK_DEADLOCK FALSE
