SPECIFICATION Spec
CONSTANTS
    SectorSize = 2
    Align = 1
    Word <- MCWord
    Crc32 <- CheckSum
    Partitions <- MCPartitions
    FlashSize = 8
    InitialFlash <- MCInitialFlash
    Data <- MCData
    Crc16 <- MCCrc16
    Headers <- MCHeaders
    MaxWord = 15
    ChunkMax = 2
    CmdCap = 3
    HeaderCap = 3
    Timeout = 2
    MaxErrors = 2
    MaxTracked = 2
INVARIANTS
    TypeOK
    AckedKept
    NoOldBits
    AckedReadsBack
PROPERTIES
    Confined
