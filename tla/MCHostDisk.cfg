SPECIFICATION HostSpec
CONSTANTS
    BytesPerSector = 2
    SectorsPerCluster = 3
    PartitionStart = 4
    ReservedSectors = 1
    NumberOfFats = 2
    FatSectors = 1
    RootCluster = 5
    EndOfChain = 20
    Fat <- MCFatTable
    Directory <- MCDirectory
    Lower <- MCLower
    Requests <- AllRequests
    NUMBER_OF_DESCRIPTORS = 3
    IdxMod = 6
    NodeLists <- MCNodeLists
INVARIANTS
    OkMovesFileBytes
    MovesWithinRequest
    PagesReturned
    DeviceServesCaller
    QueueIdle
PROPERTY RequestReturns
