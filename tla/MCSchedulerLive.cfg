SPECIFICATION FairSpec
CONSTANTS
    Thread = {idle, t1, t2}
    Process = {kernel, p1}
    KernelProcess = kernel
    IdleThread = idle
    InitProcess = p1
    InitThread = t1
    NoThread = null
    frequency = 2
    MaxSleep = 1
PROPERTIES ReadyRuns StoppedReclaimed SleeperWakes
CHECK_DEADLOCK FALSE
