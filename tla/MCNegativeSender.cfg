SPECIFICATION NegativeSpec
CONSTANTS
    SectorSize = 2
    Align = 1
    Word <- MCWord
    Crc32 <- MCCrc32
    Partitions <- MCPartitions
    FlashSize = 4
    InitialFlash <- MCInitialFlash
    Data <- MCData
    Crc16 <- MCCrc16
    Headers <- MCHeaders
    MaxWord = 15
    ChunkMax = 3
    CmdCap = 3
    HeaderCap = 3
    Timeout = 1
    MaxErrors = 3
    MaxTracked = 2
    Images <- MCImages
    ChunkSize = 3
    MaxRuns = 2
    MaxFaults = 1
    Fill <- MCFill
    PartialSize = 1
    CrcRange = 2
INVARIANTS
    NegativeTypeOK
    SuccessMeansInstalled
    CrcCaseMeansInvalid
PROPERTIES
    RefusedChangeNothing
CHECK_DEADLOCK FALSE
