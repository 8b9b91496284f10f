------------------------------- MODULE Syscall ------------------------------
(***************************************************************************)
(* System calls of the mini kernel (kernel/syscall.c).                     *)
(*                                                                         *)
(* A task is a window of user memory and a table of KTASK_MAX_FILES        *)
(* descriptors.  ksyscall_dispatch runs one call of one task from its      *)
(* checks to its result; nothing preempts it, so one call is one step.     *)
(* All windows lie in one memory, because the kernel and its tasks share   *)
(* an address space: what keeps a call inside the caller's window is       *)
(* task_contains_user_range alone, with the wrap-around of uintptr_t.      *)
(*                                                                         *)
(* The variable `last' is the ksyscall_result of the latest call together  *)
(* with who made it and the bytes it handed to write_byte.                 *)
(***************************************************************************)
EXTENDS KernelFs, Integers

CONSTANTS
    Task,       \* the struct ktask objects
    Pid,        \* task.pid
    UserBase,   \* task.user_base
    UserLen,    \* task.user_len
    NoTask,     \* a NULL task pointer
    WordMod,    \* 2^64 in the build: where uintptr_t wraps
    IntMod,     \* 2^32 in the build: where int and enum ksyscall_number wrap
    MaxFiles,   \* KTASK_MAX_FILES
    Tables      \* the tables kfs_mount is called with

FirstFile == 3                  \* KSYSCALL_FD_FIRST_FILE
StatSize  == 3                  \* sizeof(struct kfs_stat), in cells
Addr      == 0..(WordMod - 1)

(* Mutant of FileFd: the last descriptor of the table never used.          *)
FileFdShort == FirstFile..(MaxFiles - 2)

FileFd    == FirstFile..(MaxFiles - 1)

(***************************************************************************)
(* A task's memory is an object of the program: it is not at address 0     *)
(* and does not wrap.                                                      *)
(***************************************************************************)
ASSUME TaskAssumption ==
    /\ NoTask \notin Task
    /\ WordMod \in Nat /\ IntMod \in Nat /\ 6 < IntMod /\ IntMod <= WordMod
    /\ MaxFiles \in Nat /\ MaxFiles < WordMod
    /\ Pid \in [Task -> Nat]
    /\ UserBase \in [Task -> Addr \ {0}]
    /\ UserLen \in [Task -> Addr]
    /\ \A t \in Task : UserBase[t] + UserLen[t] < WordMod
    /\ Tables \subseteq Seq(Node)

VARIABLES
    mounted,    \* mounted_nodes and mounted_count; a NULL table is << >>
    files,      \* task.files
    mem,        \* the memory every pointer points into
    last        \* the latest call and its result

vars == <<mounted, files, mem, last>>

Window(t) == UserBase[t]..(UserBase[t] + UserLen[t] - 1)
FreeFile  == [used |-> FALSE, node |-> Null, offset |-> 0]
FreeFds(t) == {fd \in FileFd : ~files[t][fd].used}

(* __builtin_add_overflow of two uintptr_t                                 *)
AddOverflows(x, y) == x + y >= WordMod

(* Mutant of TaskContainsUserRange: the end of the range unchecked.        *)
RangeStartsInWindow(t, ptr, len) ==
    t # NoTask /\ (len > 0 => ptr \in Window(t))

TaskContainsUserRange(t, ptr, len) ==
    /\ t # NoTask
    /\ len > 0 =>
          /\ ~AddOverflows(ptr, len)
          /\ ~AddOverflows(UserBase[t], UserLen[t])
          /\ ptr >= UserBase[t]
          /\ ptr + len <= UserBase[t] + UserLen[t]

(* The `len' cells at ptr, and memory with `cells' stored at ptr.          *)
Load(ptr, len) == [i \in 1..len |-> mem[ptr + i - 1]]
Store(ptr, cells) ==
    [a \in Addr |-> IF a \in ptr..(ptr + Len(cells) - 1)
                    THEN cells[a - ptr + 1] ELSE mem[a]]

Result(t, value, error, bytes) ==
    [task |-> t, value |-> value, error |-> error, bytes |-> bytes,
     exits |-> FALSE, status |-> 0]

(* ksyscall_result(value, KSYSCALL_OK), and ksyscall_result(-1, error)     *)
Return(t, value, bytes) == last' = Result(t, value, "OK", bytes)
Fail(t, error) ==
    /\ last' = Result(t, -1, error, << >>)
    /\ UNCHANGED <<mounted, files, mem>>

SysWrite(t, fd, ptr, len) ==
    \/ /\ fd \notin {1, 2}
       /\ Fail(t, "EBADF")
    \/ /\ fd \in {1, 2}
       /\ ~TaskContainsUserRange(t, ptr, len)
       /\ Fail(t, "EFAULT")
    \/ /\ fd \in {1, 2}
       /\ TaskContainsUserRange(t, ptr, len)
       /\ Return(t, len, Load(ptr, len))
       /\ UNCHANGED <<mounted, files, mem>>

LowestFree(t) == CHOOSE fd \in FreeFds(t) : \A g \in FreeFds(t) : fd <= g

(* Mutant of SysOpen: the missing file unnoticed.                          *)
SysOpenMissing(t, ptr, len) ==
    /\ TaskContainsUserRange(t, ptr, len)
    /\ FreeFds(t) # {}
    /\ files' = [files EXCEPT ![t][LowestFree(t)] =
                   [used |-> TRUE, offset |-> 0,
                    node |-> KfsLookup(mounted, Load(ptr, len))]]
    /\ Return(t, LowestFree(t), << >>)
    /\ UNCHANGED <<mounted, mem>>

SysOpen(t, ptr, len) ==
    \/ /\ ~TaskContainsUserRange(t, ptr, len)
       /\ Fail(t, "EFAULT")
    \/ /\ TaskContainsUserRange(t, ptr, len)
       /\ LET node == KfsLookup(mounted, Load(ptr, len)) IN
          \/ /\ node = Null
             /\ Fail(t, "ENOENT")
          \/ /\ node # Null
             /\ FreeFds(t) = {}
             /\ Fail(t, "EMFILE")
          \/ /\ node # Null
             /\ FreeFds(t) # {}
             /\ files' = [files EXCEPT ![t][LowestFree(t)] =
                            [used |-> TRUE, node |-> node, offset |-> 0]]
             /\ Return(t, LowestFree(t), << >>)
             /\ UNCHANGED <<mounted, mem>>

(* The test sys_close and sys_read begin with.                             *)
IsOpen(t, fd) == t # NoTask /\ fd \in FileFd /\ files[t][fd].used

(* Mutant of SysClose: the descriptor reported closed but kept.            *)
SysCloseKeeps(t, fd) ==
    \/ ~IsOpen(t, fd) /\ Fail(t, "EBADF")
    \/ IsOpen(t, fd) /\ Return(t, 0, << >>) /\ UNCHANGED <<mounted, files, mem>>

SysClose(t, fd) ==
    \/ /\ ~IsOpen(t, fd)
       /\ Fail(t, "EBADF")
    \/ /\ IsOpen(t, fd)
       /\ files' = [files EXCEPT ![t][fd] = FreeFile]
       /\ Return(t, 0, << >>)
       /\ UNCHANGED <<mounted, mem>>

(* Mutant of SysRead: the offset left where it was.                        *)
SysReadRepeats(t, fd, dst, len) ==
    \/ ~IsOpen(t, fd) /\ Fail(t, "EBADF")
    \/ IsOpen(t, fd) /\ ~TaskContainsUserRange(t, dst, len) /\ Fail(t, "EFAULT")
    \/ /\ IsOpen(t, fd) /\ TaskContainsUserRange(t, dst, len)
       /\ mem' = Store(dst, KfsReadNode(files[t][fd].node, files[t][fd].offset, len))
       /\ Return(t, ReadCount(files[t][fd].node, files[t][fd].offset, len), << >>)
       /\ UNCHANGED <<mounted, files>>

SysRead(t, fd, dst, len) ==
    \/ /\ ~IsOpen(t, fd)
       /\ Fail(t, "EBADF")
    \/ /\ IsOpen(t, fd)
       /\ ~TaskContainsUserRange(t, dst, len)
       /\ Fail(t, "EFAULT")
    \/ /\ IsOpen(t, fd)
       /\ TaskContainsUserRange(t, dst, len)
       /\ LET file == files[t][fd]
              n    == ReadCount(file.node, file.offset, len)
          IN  /\ mem' = Store(dst, KfsReadNode(file.node, file.offset, len))
              /\ files' = [files EXCEPT ![t][fd].offset = @ + n]
              /\ Return(t, n, << >>)
       /\ UNCHANGED mounted

(* Both ranges are checked before the path is looked up.  kfs_stat_node    *)
(* fails for an invalid node only, which kfs_lookup never returns.         *)
SysStat(t, ptr, len, statPtr) ==
    LET inRange == /\ TaskContainsUserRange(t, ptr, len)
                   /\ TaskContainsUserRange(t, statPtr, StatSize)
    IN  \/ /\ ~inRange
           /\ Fail(t, "EFAULT")
        \/ /\ inRange
           /\ LET node == KfsLookup(mounted, Load(ptr, len)) IN
              \/ /\ node = Null
                 /\ Fail(t, "ENOENT")
              \/ /\ node # Null
                 /\ mem' = Store(statPtr, KfsStatNode(node))
                 /\ Return(t, 0, << >>)
                 /\ UNCHANGED <<mounted, files>>

SysGetpid(t) ==
    IF t = NoTask \/ Pid[t] = 0
    THEN Fail(t, "EINVAL")
    ELSE Return(t, Pid[t], << >>) /\ UNCHANGED <<mounted, files, mem>>

(* The cast to int keeps the low bits of the argument, as two's complement. *)
AsInt(x) == LET low == x % IntMod IN
            IF 2 * low < IntMod THEN low ELSE low - IntMod

SysExit(t, arg) ==
    /\ last' = [task |-> t, value |-> 0, error |-> "OK", bytes |-> << >>,
                exits |-> TRUE, status |-> AsInt(arg)]
    /\ UNCHANGED <<mounted, files, mem>>

(***************************************************************************)
(* ksyscall_dispatch switches on the number cast to enum ksyscall_number,  *)
(* an unsigned int in this build: the high half of the register is lost.   *)
(***************************************************************************)
CallNumber(nr) == nr % IntMod

KsyscallDispatch(t, regs) ==
    LET n == CallNumber(regs.nr) IN
    \/ n = 0 /\ SysRead(t, regs.arg0, regs.arg1, regs.arg2)
    \/ n = 1 /\ SysWrite(t, regs.arg0, regs.arg1, regs.arg2)
    \/ n = 2 /\ SysOpen(t, regs.arg0, regs.arg1)
    \/ n = 3 /\ SysClose(t, regs.arg0)
    \/ n = 4 /\ SysStat(t, regs.arg0, regs.arg1, regs.arg2)
    \/ n = 5 /\ SysGetpid(t)
    \/ n = 6 /\ SysExit(t, regs.arg0)
    \/ n > 6 /\ Fail(t, "ENOSYS")

(* ksyscall_dispatch with a NULL register block                            *)
DispatchNullRegs(t) == Fail(t, "EINVAL")

(***************************************************************************)
(* ksyscall_entry passes the registers of the trap frame on in the order   *)
(* of the syscall instruction; the frame gets the result held in `last'.   *)
(***************************************************************************)
KsyscallEntry(t, frame) ==
    KsyscallDispatch(t, [nr   |-> frame.rax, arg0 |-> frame.rdi,
                         arg1 |-> frame.rsi, arg2 |-> frame.rdx])

(* kfs_mount replaces the table; open descriptors keep their node.         *)
KfsMount(table) ==
    /\ mounted' = table
    /\ UNCHANGED <<files, mem, last>>

-----------------------------------------------------------------------------
OpenFile == [used : {TRUE}, node : Node, offset : Nat] \cup {FreeFile}

Errors == {"OK", "ENOENT", "EBADF", "EFAULT", "EINVAL", "EMFILE", "ENOSYS"}

(* Type correctness of everything a call reads or writes: descriptors are  *)
(* free or name a node, memory holds cells, results are well formed.       *)
KernelTypeOK ==
    /\ mounted \in Seq(Node)
    /\ files \in [Task -> [0..(MaxFiles - 1) -> OpenFile]]
    /\ mem \in [Addr -> Cell]
    /\ last \in [task : Task \cup {NoTask}, value : Int, error : Errors,
                 bytes : Seq(Cell), exits : BOOLEAN, status : Int]

(* An open descriptor names a valid node and its offset never passes the   *)
(* end of the file (sys_open, sys_read), though the table the node came    *)
(* from may have been replaced; descriptors 0 to 2 are never files.        *)
OpenFilesSound ==
    \A t \in Task, fd \in 0..(MaxFiles - 1) :
        files[t][fd].used =>
            /\ fd >= FirstFile
            /\ NodeIsValid(files[t][fd].node)
            /\ files[t][fd].offset <= files[t][fd].node.size
=============================================================================
