SPECIFICATION Spec
CONSTANTS
    p = p
    q = q
    Null = Null
    NoTask = NoTask
    Idle = Idle
    Task = {p}
    Process = {p}
    Pid <- MCPid
    UserBase <- MCUserBase
    UserLen <- MCUserLen
    Cell <- MCCell
    FileMode <- MCFileMode
    Node <- MCNode
    Tables <- MCTables
    Images <- MCImages
    Op <- MCOp
    WordMod = 8
    IntMod = 8
    MaxFiles = 6
    MemorySize = 3
    SlotCount = 2
    MaxOps = 3
INVARIANTS TypeOK SlotsOwnDescriptors RuntimeChecksSuffice EmfileOnlyAfterLeak
PROPERTIES LeakOnlyByReopen ExitIsFinal
