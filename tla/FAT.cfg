SPECIFICATION Spec
CONSTANTS
    totalClusters = 7
    SlotsPerSector = 2
    FatType = "FAT32"
    rootDirSectors = 0
    rootSearchSectors = 0
    FSInfo = {0, 1, 2, 4}
    Name = {a, b}
    Long = {b}
    MaxLen = 2
    MaxFailed = 1
INVARIANTS TypeOK NoCrossLink ChainsEnd CreatedIsFound DirectoryClean SizeCovered EntriesKept
CHECK_DEADLOCK FALSE
