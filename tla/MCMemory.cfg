SPECIFICATION Spec
CONSTANTS
    maximumBlocks = 16
    MemoryMap <- LowAndHigh
    Protected <- KernelAndModule
    UINT32 = 96
    Thread = {t1}
    MaxSize = 1
    Process = {p, q}
    HeapStart = 1
    MaxHeap = 2
    MaxThreads = 2
    RegionPages = 1
    MaxRemoved = 2
INVARIANTS TypeOK  CountSound OnlyTablesLost
SYMMETRY Symmetry
CHECK_DEADLOCK FALSE
