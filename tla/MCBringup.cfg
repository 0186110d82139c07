SPECIFICATION Spec
CONSTANTS
    SectorSize = 2
    Align = 1
    Word <- MCWord
    Crc32 <- MCCrc32
    Partitions <- MCPart
    FlashSize = 4
    InitialFlash <- MCInitialFlash
    Data <- MCData
    MaxWord = 3
    Inputs <- MCInputs
    Tables <- MCTables
    MaxEvents = 3
    MaxStalls = 1
INVARIANTS
    TypeOK
    BuiltImageIsTrue
    VerdictMeansPath
    GoodBootPasses
    StallsChangeNothing
    LateCapturePasses
CHECK_DEADLOCK FALSE
