SPECIFICATION TimingSpec
CONSTANTS
    SectorSize = 2
    Align = 2
    Word <- MCWord
    Crc32 <- MCCrc32
    Partitions <- MCPartitions
    FlashSize = 6
    InitialFlash <- MCInitialFlash
    Data <- MCData
    Crc16 <- MCCrc16
    Headers <- MCHeaders
    MaxWord = 15
    ChunkMax = 2
    CmdCap = 3
    HeaderCap = 3
    Timeout = 2
    MaxErrors = 2
    MaxTracked = 2
INVARIANTS
    BuffersInBounds
    PayloadWaitBounded
PROPERTIES
    OnlyForGoodFrames
    KeepsPromise
    SilenceEndsSession
