SPECIFICATION Spec
CONSTANTS
    a = a
    b = b
    Null = Null
    NoTask = NoTask
    Task = {a, b}
    Pid <- MCPid
    UserBase <- MCUserBase
    UserLen <- MCUserLen
    Cell <- MCCell
    FileMode <- MCFileMode
    Node <- MCNode
    Tables <- MCTables
    Regs <- MCWideRegs
    InitMem <- MCInitMem
    WordMod = 10
    IntMod = 8
    MaxFiles = 4
PROPERTY UnknownIsRefused
