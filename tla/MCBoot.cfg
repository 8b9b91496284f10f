SPECIFICATION BootSpec
CONSTANTS
    k = k
    p = p
    Null = Null
    NoTask = NoTask
    Idle = Idle
    Task = {k, p}
    Process = {p}
    BannerTask = k
    InitProcess = p
    Pid <- MCPid
    UserBase <- MCUserBase
    UserLen <- MCUserLen
    Cell <- MCCell
    FileMode <- MCFileMode
    Node <- MCNode
    Tables <- MCTables
    Images <- MCImages
    Op <- MCOp
    WordMod = 16
    IntMod = 8
    MaxFiles = 4
    MemorySize = 9
    SlotCount = 1
    MaxOps = 6
    Banner <- MCBanner
    BannerSize = 4
    Online <- MCOnline
    Clean <- MCClean
    Failed <- MCFailed
    CopyFailed <- MCCopyFailed
    WriteFailed <- MCWriteFailed
    NewLine = 9
    Return13 = 13
    InitMsg <- MCInitMsg
    InitPath <- MCInitPath
    InitMotd <- MCInitMotd
    InitBufferLen = 3
    InitPad = 2
    Programs <- MCPrograms
    FifoSize = 2
INVARIANTS BootTypeOK NothingLost ConsoleInOrder SelectorsLoaded
PROPERTIES BootEnds
CHECK_DEADLOCK FALSE
