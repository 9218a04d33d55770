SPECIFICATION SleepSpec
CONSTANTS
    Thread = {idle, t1, t2}
    Process = {kernel, p1}
    KernelProcess = kernel
    IdleThread = idle
    InitProcess = p1
    InitThread = t1
    NoThread = null
    frequency = 2
    MaxSleep = 3
INVARIANTS SleepErrorBounded
CHECK_DEADLOCK FALSE
