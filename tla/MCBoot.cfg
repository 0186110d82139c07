SPECIFICATION LiveSpec
CONSTANTS
    SectorSize = 1
    Align = 1
    Word <- MCWord
    Crc32 <- MCCrc32
    Partitions <- MCPartitions
    FlashSize = 5
    InitialFlash <- MCInitialFlash
    Data <- MCData
    FatalCycles = 2
    Garbage = "GARBAGE"
INVARIANTS
    TypeOK
    OnlyCheckedImagesRun
    ContextIsTrue
PROPERTIES
    KeepsGatePromise
    Settles
    GoodImageBoots
CHECK_DEADLOCK FALSE
