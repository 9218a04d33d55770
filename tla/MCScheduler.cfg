SPECIFICATION Spec
CONSTANTS
    Thread = {idle, t1, t2}
    Process = {kernel, p1, p2}
    KernelProcess = kernel
    IdleThread = idle
    InitProcess = p1
    InitThread = t1
    NoThread = null
    frequency = 2
    MaxSleep = 1
INVARIANTS TypeOK NoDanglingThread RunnableExists WaiterDoesNotReturn
PROPERTIES ImplementsLifecycle
CHECK_DEADLOCK FALSE
