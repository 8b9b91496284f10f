----------------------------- MODULE UserRuntime ----------------------------
(***************************************************************************)
(* The interpreter of user programs (kernel/user.c).                       *)
(*                                                                         *)
(* A process is a task whose window is its `memory' array, with a table of *)
(* fd_slots over the kernel's descriptors.  kuser_run executes a program   *)
(* one op at a time; an op is checked by the runtime, turned into a trap   *)
(* frame, and checked again by the kernel.  One step here is one turn of   *)
(* the loop of kuser_run.  The ops of a program are chosen as they are     *)
(* reached, so a run stands for every program of at most MaxOps ops.       *)
(*                                                                         *)
(* A process may be given program after program, and several processes     *)
(* share the one mount table, which each kuser_run replaces.               *)
(***************************************************************************)
EXTENDS Syscall

CONSTANTS
    Process,    \* the struct kuser_process objects: tasks with slots
    MemorySize, \* KUSER_MEMORY_SIZE
    SlotCount,  \* KUSER_MAX_FD_SLOTS
    Op,         \* the ops programs are made of
    MaxOps,     \* bound on op_count
    Images,     \* [memory, nodes]: initial memory and filesystem of a program
    Idle        \* no kuser_run is executing

Slot == 0..(SlotCount - 1)

ASSUME ProcessAssumption ==
    /\ Process \subseteq Task
    /\ \A p \in Process : UserLen[p] = MemorySize
    /\ SlotCount \in Nat /\ MaxOps \in Nat
    /\ 0 \in Cell
    /\ Idle \notin Process
    /\ \A image \in Images : /\ image.memory \in Seq(Cell)
                             /\ image.nodes \in Tables
    /\ \A op \in Op : /\ op.opcode \in STRING
                      /\ op.slot \in Nat /\ op.offset \in Nat /\ op.len \in Nat
                      /\ op.aux \in Nat
                      /\ op.status \in Int

VARIABLES
    slots,              \* process.fd_slots, -1 for none
    exited,             \* process.exited
    exitStatus,         \* process.exit_status
    lastError,          \* process.last_error
    lastSyscallError,   \* process.last_syscall_error
    running,            \* the process kuser_run is executing, or Idle
    ip,                 \* the loop variable of kuser_run
    outcome             \* what the latest kuser_run returned

kernelVars  == <<mounted, files, mem, last>>
processVars == <<slots, exited, exitStatus, lastError, lastSyscallError>>
runVars     == <<running, ip, outcome>>
userVars    == <<kernelVars, processVars, runVars>>

(* Mutant of UserRangeOk: only the start of the range checked.             *)
StartsInMemory(offset, len) == offset <= MemorySize

UserRangeOk(offset, len) == offset <= MemorySize /\ len <= MemorySize - offset
UserPtr(p, offset) == UserBase[p] + offset

(* kuser_init_process clears the whole structure, memory included.         *)
KuserInitProcess(p) ==
    /\ running = Idle
    /\ files' = [files EXCEPT ![p] = [fd \in DOMAIN @ |-> FreeFile]]
    /\ mem' = Store(UserBase[p], [i \in 1..MemorySize |-> 0])
    /\ slots' = [slots EXCEPT ![p] = [s \in Slot |-> -1]]
    /\ exited' = [exited EXCEPT ![p] = FALSE]
    /\ exitStatus' = [exitStatus EXCEPT ![p] = 0]
    /\ lastError' = [lastError EXCEPT ![p] = "OK"]
    /\ lastSyscallError' = [lastSyscallError EXCEPT ![p] = "OK"]
    /\ UNCHANGED <<mounted, last, runVars>>

(* kuser_run up to its loop.  Memory beyond the image, descriptors, slots  *)
(* and the exited flag of an earlier program stay as they are.             *)
StartRun(p, image) ==
    /\ running = Idle
    /\ \/ /\ Len(image.memory) > MemorySize
          /\ outcome' = "EFAULT"
          /\ UNCHANGED <<kernelVars, processVars, running, ip>>
       \/ /\ Len(image.memory) <= MemorySize
          /\ mem' = Store(UserBase[p], image.memory)
          /\ mounted' = image.nodes
          /\ lastError' = [lastError EXCEPT ![p] = "OK"]
          /\ lastSyscallError' = [lastSyscallError EXCEPT ![p] = "OK"]
          /\ running' = p /\ ip' = 0
          /\ UNCHANGED <<files, last, slots, exited, exitStatus, outcome>>

(* kuser_run without a process, a program or its ops                       *)
RunNothing ==
    /\ running = Idle
    /\ outcome' = "EINVAL"
    /\ UNCHANGED <<kernelVars, processVars, running, ip>>

(* The loop ends: the program is over, or the process has exited.          *)
FinishRun ==
    /\ running # Idle
    /\ running' = Idle /\ ip' = 0 /\ outcome' = "OK"
    /\ UNCHANGED <<kernelVars, processVars>>

(* A check of the runtime fails: the run is over, the kernel is not asked. *)
Reject(p, error) ==
    /\ lastError' = [lastError EXCEPT ![p] = error]
    /\ running' = Idle /\ ip' = 0 /\ outcome' = error
    /\ UNCHANGED <<kernelVars, slots, exited, exitStatus, lastSyscallError>>

(* Mutants of SlotsAfter: the slot kept on CLOSE, and every call storing   *)
(* its result.                                                             *)
SlotsAfterOpen(p, op, value) ==
    IF op.opcode = "OPEN" THEN [slots EXCEPT ![p][op.slot] = value] ELSE slots
SlotsAlwaysStored(p, op, value) ==
    IF op.slot \in Slot THEN [slots EXCEPT ![p][op.slot] = value] ELSE slots

(* The end of the loop body: OPEN and CLOSE move their slot.               *)
SlotsAfter(p, op, value) ==
    [slots EXCEPT ![p] =
        CASE op.opcode = "OPEN"  -> [@ EXCEPT ![op.slot] = value]
          [] op.opcode = "CLOSE" -> [@ EXCEPT ![op.slot] = -1]
          [] OTHER               -> @]

(* run_frame, and what kuser_run makes of its result.                      *)
RunFrame(p, op, frame) ==
    /\ KsyscallEntry(p, frame)
    /\ lastSyscallError' = [lastSyscallError EXCEPT ![p] = last'.error]
    /\ \/ /\ last'.error # "OK"
          /\ lastError' = [lastError EXCEPT ![p] = "ESYSCALL"]
          /\ running' = Idle /\ ip' = 0 /\ outcome' = "ESYSCALL"
          /\ UNCHANGED <<slots, exited, exitStatus>>
       \/ /\ last'.error = "OK"
          /\ exited' = [exited EXCEPT ![p] = @ \/ last'.exits]
          /\ exitStatus' = [exitStatus EXCEPT ![p] =
                              IF last'.exits THEN last'.status ELSE @]
          /\ slots' = SlotsAfter(p, op, last'.value)
          /\ ip' = ip + 1
          /\ UNCHANGED <<lastError, running, outcome>>

Frame(nr, x, y, z) == [rax |-> nr, rdi |-> x, rsi |-> y, rdx |-> z]

(* The slot of an op is usable when it exists and holds a descriptor.      *)
SlotHeld(p, s) == s \in Slot /\ slots[p][s] >= 0

ExecWrite(p, op) ==
    IF UserRangeOk(op.offset, op.len)
    THEN RunFrame(p, op, Frame(1, 1, UserPtr(p, op.offset), op.len))
    ELSE Reject(p, "EFAULT")

ExecOpen(p, op) ==
    IF op.slot \in Slot /\ UserRangeOk(op.offset, op.len)
    THEN RunFrame(p, op, Frame(2, UserPtr(p, op.offset), op.len, 0))
    ELSE Reject(p, "EFAULT")

ExecRead(p, op) ==
    IF SlotHeld(p, op.slot) /\ UserRangeOk(op.offset, op.len)
    THEN RunFrame(p, op, Frame(0, slots[p][op.slot], UserPtr(p, op.offset), op.len))
    ELSE Reject(p, "EBADFD")

ExecClose(p, op) ==
    IF SlotHeld(p, op.slot)
    THEN RunFrame(p, op, Frame(3, slots[p][op.slot], 0, 0))
    ELSE Reject(p, "EBADFD")

ExecStat(p, op) ==
    IF UserRangeOk(op.offset, op.len) /\ UserRangeOk(op.aux, StatSize)
    THEN RunFrame(p, op, Frame(4, UserPtr(p, op.offset), op.len, UserPtr(p, op.aux)))
    ELSE Reject(p, "EFAULT")

(* The status is an int; the cast to uintptr_t extends its sign.           *)
ExecExit(p, op) == RunFrame(p, op, Frame(6, op.status % WordMod, 0, 0))

Opcodes == {"WRITE", "OPEN", "READ", "CLOSE", "STAT", "EXIT"}

(* The switch of the loop.                                                 *)
Exec(p, op) ==
    \/ op.opcode = "WRITE" /\ ExecWrite(p, op)
    \/ op.opcode = "OPEN"  /\ ExecOpen(p, op)
    \/ op.opcode = "READ"  /\ ExecRead(p, op)
    \/ op.opcode = "CLOSE" /\ ExecClose(p, op)
    \/ op.opcode = "STAT"  /\ ExecStat(p, op)
    \/ op.opcode = "EXIT"  /\ ExecExit(p, op)
    \/ op.opcode \notin Opcodes /\ Reject(p, "EINVAL")

(* Mutant of Step: process->exited not tested.                             *)
StepAfterExit(p, op) == running = p /\ ip < MaxOps /\ Exec(p, op)

(* One turn of the loop.                                                   *)
Step(p, op) ==
    /\ running = p
    /\ ip < MaxOps
    /\ ~exited[p]
    /\ Exec(p, op)

(* Every process starts as kuser_init_process leaves it.                   *)
Init ==
    /\ mounted = << >>
    /\ files = [t \in Task |-> [fd \in 0..(MaxFiles - 1) |-> FreeFile]]
    /\ mem = [a \in Addr |-> 0]
    /\ last = Result(NoTask, 0, "OK", << >>)
    /\ slots = [p \in Process |-> [s \in Slot |-> -1]]
    /\ exited = [p \in Process |-> FALSE]
    /\ exitStatus = [p \in Process |-> 0]
    /\ lastError = [p \in Process |-> "OK"]
    /\ lastSyscallError = [p \in Process |-> "OK"]
    /\ running = Idle /\ ip = 0 /\ outcome = "OK"

Next ==
    \/ \E p \in Process :
          \/ KuserInitProcess(p)
          \/ \E image \in Images : StartRun(p, image)
          \/ \E op \in Op : Step(p, op)
    \/ RunNothing
    \/ FinishRun

Spec == Init /\ [][Next]_userVars

-----------------------------------------------------------------------------
RuntimeErrors == {"OK", "EFAULT", "ESYSCALL", "EBADFD", "EINVAL"}

(* Type correctness of the runtime and of the kernel under it.             *)
TypeOK ==
    /\ KernelTypeOK
    /\ slots \in [Process -> [Slot -> {-1} \cup FileFd]]
    /\ exited \in [Process -> BOOLEAN]
    /\ exitStatus \in [Process -> Int]
    /\ lastError \in [Process -> RuntimeErrors]
    /\ lastSyscallError \in [Process -> Errors]
    /\ running \in Process \cup {Idle}
    /\ ip \in 0..MaxOps
    /\ outcome \in RuntimeErrors

(* A slot that is not -1 holds a descriptor its own task has open, and no  *)
(* two slots hold the same one: an op on one slot never reads or closes    *)
(* the file of another (user.c keeps fd_slots in step with task.files).    *)
SlotsOwnDescriptors ==
    \A p \in Process, s \in Slot :
        slots[p][s] # -1 =>
            /\ files[p][slots[p][s]].used
            /\ \A r \in Slot \ {s} : slots[p][r] # slots[p][s]

(* What the runtime lets through the kernel accepts: a program is stopped  *)
(* by the kernel only for a file that is not there or for want of          *)
(* descriptors, never for a pointer, a descriptor or a call number.        *)
RuntimeChecksSuffice ==
    \A p \in Process : lastSyscallError[p] \in {"OK", "ENOENT", "EMFILE"}

(* The descriptors a process has open and can no longer name.              *)
Leaked(p) ==
    {fd \in FileFd : files[p][fd].used /\ \A s \in Slot : slots[p][s] # fd}

(* A descriptor is lost in one way only: OPEN into a slot that still holds *)
(* one.  Failed ops, CLOSE, the end of a run and the next program lose     *)
(* none.                                                                   *)
LeakOnlyByReopen ==
    [][\A p \in Process : Leaked(p)' \subseteq Leaked(p)
          \/ /\ Leaked(p)' \ Leaked(p) \subseteq {slots[p][s] : s \in Slot}
             /\ \E s \in Slot : /\ slots[p][s] \in Leaked(p)'
                                /\ slots'[p][s] \in FileFd \ {slots[p][s]}]_userVars

(* There are more descriptors than slots, so EMFILE stops a program only   *)
(* after descriptors have been lost.                                       *)
EmfileOnlyAfterLeak ==
    \A p \in Process :
        lastSyscallError[p] = "EMFILE" => Leaked(p) # {}

(* An exited process makes no further call and keeps its status, slots and *)
(* descriptors, whatever it is given to run, until it is initialised       *)
(* again; kuser_run still loads the program over its memory.               *)
ExitIsFinal ==
    [][\A p \in Process : exited[p] /\ exited'[p] =>
          UNCHANGED <<exitStatus[p], slots[p], files[p]>>]_userVars
=============================================================================
