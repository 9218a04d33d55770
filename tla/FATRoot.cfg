SPECIFICATION Spec
CONSTANTS
    totalClusters = 7
    SlotsPerSector = 3
    FatType = "FAT16"
    rootDirSectors = 3
    rootSearchSectors = 2
    FSInfo = {2}
    Name = {a, b}
    Long = {}
    MaxLen = 2
    MaxFailed = 1
INVARIANTS EntriesKept
CHECK_DEADLOCK FALSE
