---------------------------- MODULE KernelProofs ----------------------------
(***************************************************************************)
(* The mini kernel from its system calls up: the invariants of the user    *)
(* runtime and, over them, of the kernel's start.                          *)
(*                                                                         *)
(* First the runtime, for any number of processes, any programs, and any   *)
(* sizes of memory, slot table and descriptor table; nothing there cites   *)
(* BootAssumption.  Its properties need the kernel's and each other: a     *)
(* read or a close through a slot is accepted by the kernel only because   *)
(* the slot owns its descriptor, and slots own theirs only because no two  *)
(* of them hold the same one when CLOSE empties a slot.                    *)
(*                                                                         *)
(* Then kernel_start, for any texts, any program, any FIFO: the port that  *)
(* loses nothing, the tables that are loaded, what has been said at each   *)
(* place, and the console of the program the repository ships.             *)
(***************************************************************************)
EXTENDS KernelBoot, KernelLemmas, FiniteSetTheorems

IInv ==
    /\ TypeOK
    /\ OpenFilesSound
    /\ SlotsOwnDescriptors
    /\ RuntimeChecksSuffice

(* The descriptors a task has open.                                        *)
UsedFds(t) == {fd \in FileFd : files[t][fd].used}

LEMMA FdTypes ==
    /\ FileFd \subseteq 0..(MaxFiles - 1)
    /\ FileFd \subseteq Nat
    /\ -1 \notin FileFd
BY TaskAssumption DEF FileFd, FirstFile

(* What the runtime's check admits lies in the process's window.           *)
LEMMA RangeOkInWindow ==
    ASSUME NEW p \in Process, NEW offset \in Nat, NEW len \in Nat,
           UserRangeOk(offset, len)
    PROVE  /\ UserPtr(p, offset) \in Nat
           /\ TaskContainsUserRange(p, UserPtr(p, offset), len)
<1>1. p \in Task /\ p # NoTask
  BY ProcessAssumption, TaskAssumption
<1>2. /\ UserBase[p] \in Nat /\ MemorySize \in Nat /\ WordMod \in Nat
      /\ UserLen[p] = MemorySize /\ UserBase[p] + MemorySize < WordMod
  <2>1. UserLen[p] = MemorySize
    BY ProcessAssumption
  <2>2. UserLen[p] \in Addr /\ UserBase[p] \in Addr /\ UserBase[p] + UserLen[p] < WordMod
    BY <1>1, TaskAssumption
  <2> QED
    BY <2>1, <2>2, TaskAssumption DEF Addr
<1> QED
  BY <1>1, <1>2 DEF UserRangeOk, UserPtr, TaskContainsUserRange, AddOverflows

-----------------------------------------------------------------------------
(* What each call does to the table of descriptors and answers, once the   *)
(* runtime's checks have passed.                                           *)
LEMMA WriteEffect ==
    ASSUME NEW t \in Task, NEW ptr, NEW len,
           TaskContainsUserRange(t, ptr, len), SysWrite(t, 1, ptr, len)
    PROVE  last'.error = "OK" /\ files' = files
BY DEF SysWrite, Return, Result

LEMMA OpenEffect ==
    ASSUME KernelOK, NEW t \in Task, NEW ptr, NEW len,
           TaskContainsUserRange(t, ptr, len), SysOpen(t, ptr, len)
    PROVE  \/ /\ last'.error \in {"ENOENT", "EMFILE"} /\ files' = files
              /\ last'.error = "EMFILE" => UsedFds(t) = FileFd
           \/ /\ last'.error = "OK"
              /\ last'.value \in FileFd \ UsedFds(t)
              /\ UsedFds(t)' = UsedFds(t) \cup {last'.value}
              /\ \A u \in Task \ {t} : files'[u] = files[u]
<1>1. CASE Fail(t, "ENOENT") \/ (FreeFds(t) = {} /\ Fail(t, "EMFILE"))
  BY <1>1 DEF Fail, Result, FreeFds, UsedFds
<1>2. ASSUME NEW node, FreeFds(t) # {},
             files' = [files EXCEPT ![t][LowestFree(t)] =
                         [used |-> TRUE, node |-> node, offset |-> 0]],
             Return(t, LowestFree(t), << >>)
      PROVE  /\ last'.error = "OK"
             /\ last'.value \in FileFd \ UsedFds(t)
             /\ UsedFds(t)' = UsedFds(t) \cup {last'.value}
             /\ \A u \in Task \ {t} : files'[u] = files[u]
  <2>1. last'.error = "OK" /\ last'.value = LowestFree(t)
    BY <1>2 DEF Return, Result
  <2>2. LowestFree(t) \in FileFd /\ ~files[t][LowestFree(t)].used
    BY <1>2, LowestFreeIsFree DEF KernelOK
  <2> DEFINE fd == LowestFree(t)
  <2>3. fd \in 0..(MaxFiles - 1)
    BY <2>2, FdTypes
  <2> HIDE DEF fd
  <2>4. files' = [files EXCEPT ![t][fd] = [used |-> TRUE, node |-> node, offset |-> 0]]
    BY <1>2 DEF fd
  <2>5. /\ files'[t][fd].used
        /\ \A g \in FileFd \ {fd} : files'[t][g] = files[t][g]
        /\ \A u \in Task \ {t} : files'[u] = files[u]
    BY <2>3, <2>4, FdTypes DEF KernelOK, KernelTypeOK
  <2> QED
    BY <2>1, <2>2, <2>5 DEF UsedFds, fd
<1> QED
  BY <1>1, <1>2 DEF SysOpen

LEMMA CloseEffect ==
    ASSUME KernelOK, NEW t \in Task, NEW fd \in UsedFds(t), SysClose(t, fd)
    PROVE  /\ last'.error = "OK"
           /\ UsedFds(t)' = UsedFds(t) \ {fd}
           /\ \A u \in Task \ {t} : files'[u] = files[u]
<1>1. fd \in FileFd /\ fd \in 0..(MaxFiles - 1) /\ IsOpen(t, fd)
  BY FdTypes, TaskAssumption DEF UsedFds, IsOpen
<1>2. last'.error = "OK" /\ files' = [files EXCEPT ![t][fd] = FreeFile]
  BY <1>1 DEF SysClose, Return, Result
<1>3. /\ ~files'[t][fd].used
      /\ \A g \in FileFd \ {fd} : files'[t][g] = files[t][g]
      /\ \A u \in Task \ {t} : files'[u] = files[u]
  BY <1>1, <1>2, FdTypes DEF KernelOK, KernelTypeOK, FreeFile
<1> QED
  BY <1>1, <1>2, <1>3 DEF UsedFds

LEMMA ReadEffect ==
    ASSUME KernelOK, NEW t \in Task, NEW fd \in UsedFds(t), NEW dst, NEW len,
           TaskContainsUserRange(t, dst, len), SysRead(t, fd, dst, len)
    PROVE  /\ last'.error = "OK"
           /\ UsedFds(t)' = UsedFds(t)
           /\ \A u \in Task \ {t} : files'[u] = files[u]
<1> DEFINE n == ReadCount(files[t][fd].node, files[t][fd].offset, len)
<1>1. fd \in FileFd /\ fd \in 0..(MaxFiles - 1) /\ IsOpen(t, fd) /\ files[t][fd].used
  BY FdTypes, TaskAssumption DEF UsedFds, IsOpen
<1>2. last'.error = "OK" /\ files' = [files EXCEPT ![t][fd].offset = @ + n]
  BY <1>1 DEF SysRead, Return, Result
<1>3. files[t][fd] \in [used : {TRUE}, node : Node, offset : Nat]
  <2>1. files[t][fd] \in OpenFile
    BY <1>1 DEF KernelOK, KernelTypeOK
  <2>2. files[t][fd] # FreeFile
    BY <1>1 DEF FreeFile
  <2> QED
    BY <2>1, <2>2 DEF OpenFile
<1> HIDE DEF n
<1>4. /\ files'[t][fd].used
      /\ \A g \in FileFd \ {fd} : files'[t][g] = files[t][g]
      /\ \A u \in Task \ {t} : files'[u] = files[u]
  BY <1>1, <1>2, <1>3, FdTypes DEF KernelOK, KernelTypeOK
<1> QED
  BY <1>1, <1>2, <1>4 DEF UsedFds

LEMMA StatEffect ==
    ASSUME NEW t \in Task, NEW ptr, NEW len, NEW statPtr,
           TaskContainsUserRange(t, ptr, len),
           TaskContainsUserRange(t, statPtr, StatSize),
           SysStat(t, ptr, len, statPtr)
    PROVE  last'.error \in {"OK", "ENOENT"} /\ files' = files
BY DEF SysStat, Return, Fail, Result

LEMMA ExitEffect ==
    ASSUME NEW t, NEW arg, SysExit(t, arg)
    PROVE  last'.error = "OK" /\ files' = files
BY DEF SysExit

-----------------------------------------------------------------------------
(* The three ways the loop body leaves slots and descriptors related.      *)
SlotsKept(p) ==
    /\ slots' = slots
    /\ UsedFds(p)' = UsedFds(p)
SlotOpened(p, s, fd) ==
    /\ fd \in FileFd \ UsedFds(p)
    /\ slots' = [slots EXCEPT ![p][s] = fd]
    /\ UsedFds(p)' = UsedFds(p) \cup {fd}
SlotClosed(p, s) ==
    /\ slots' = [slots EXCEPT ![p][s] = -1]
    /\ UsedFds(p)' = UsedFds(p) \ {slots[p][s]}

SlotsType == slots \in [Process -> [Slot -> {-1} \cup FileFd]]

(* Slots own their descriptors, said of the set of descriptors in use.     *)
LEMMA OwnsUsed ==
    ASSUME SlotsType
    PROVE  SlotsOwnDescriptors <=>
             \A p \in Process, s \in Slot :
                slots[p][s] # -1 =>
                    /\ slots[p][s] \in UsedFds(p)
                    /\ \A r \in Slot \ {s} : slots[p][r] # slots[p][s]
BY DEF SlotsOwnDescriptors, UsedFds, SlotsType

LEMMA OwnershipStep ==
    ASSUME SlotsType, SlotsOwnDescriptors, NEW p \in Process,
           \A q \in Process \ {p} : files'[q] = files[q],
           \/ SlotsKept(p)
           \/ \E s \in Slot, fd \in FileFd : SlotOpened(p, s, fd)
           \/ \E s \in Slot : SlotHeld(p, s) /\ SlotClosed(p, s)
    PROVE  SlotsType' /\ SlotsOwnDescriptors'
<1>1. \A q \in Process \ {p} : UsedFds(q)' = UsedFds(q)
  BY DEF UsedFds
<1>2. \A q \in Process, s \in Slot :
        slots[q][s] # -1 =>
            /\ slots[q][s] \in UsedFds(q)
            /\ \A r \in Slot \ {s} : slots[q][r] # slots[q][s]
  BY OwnsUsed
<1>3. /\ SlotsType'
      /\ \A q \in Process, s \in Slot :
            slots'[q][s] # -1 =>
                /\ slots'[q][s] \in UsedFds(q)'
                /\ \A r \in Slot \ {s} : slots'[q][r] # slots'[q][s]
  <2>1. CASE SlotsKept(p)
    BY <2>1, <1>1, <1>2 DEF SlotsKept, SlotsType
  <2>2. ASSUME NEW s \in Slot, NEW fd \in FileFd, SlotOpened(p, s, fd)
        PROVE  <1>3!1 /\ <1>3!2
    <3>1. /\ slots'[p][s] = fd
          /\ \A r \in Slot \ {s} : slots'[p][r] = slots[p][r]
          /\ \A q \in Process \ {p} : slots'[q] = slots[q]
      BY <2>2 DEF SlotOpened, SlotsType
    <3>2. SlotsType'
      BY <2>2 DEF SlotOpened, SlotsType
    <3>3. fd # -1 /\ fd \notin UsedFds(p) /\ UsedFds(p)' = UsedFds(p) \cup {fd}
      BY <2>2, FdTypes DEF SlotOpened
    <3> QED
      BY <3>1, <3>2, <3>3, <1>1, <1>2
  <2>3. ASSUME NEW s \in Slot, SlotHeld(p, s), SlotClosed(p, s)
        PROVE  <1>3!1 /\ <1>3!2
    <3>1. /\ slots'[p][s] = -1
          /\ \A r \in Slot \ {s} : slots'[p][r] = slots[p][r]
          /\ \A q \in Process \ {p} : slots'[q] = slots[q]
      BY <2>3 DEF SlotClosed, SlotsType
    <3>2. SlotsType'
      BY <2>3 DEF SlotClosed, SlotsType
    <3>3. slots[p][s] # -1
      BY <2>3 DEF SlotHeld
    <3>4. UsedFds(p)' = UsedFds(p) \ {slots[p][s]}
      BY <2>3 DEF SlotClosed
    <3> QED
      BY <3>1, <3>2, <3>3, <3>4, <1>1, <1>2
  <2> QED
    BY <2>1, <2>2, <2>3
<1>4. (SlotsOwnDescriptors <=>
             \A q \in Process, s \in Slot :
                slots[q][s] # -1 =>
                    /\ slots[q][s] \in UsedFds(q)
                    /\ \A r \in Slot \ {s} : slots[q][r] # slots[q][s])'
  BY <1>3 DEF SlotsOwnDescriptors, UsedFds, SlotsType
<1> QED
  BY <1>3, <1>4

-----------------------------------------------------------------------------
FrameType == [rax : Nat, rdi : Nat, rsi : Nat, rdx : Nat]

(* One turn of the loop of kuser_run: of slots and descriptors only those  *)
(* of p move, in one of three ways; the kernel answers EMFILE only when    *)
(* every descriptor is in use; and a refusal ends the run.                 *)
TurnEffect(p) ==
    /\ \A q \in Process \ {p} : /\ files'[q] = files[q]
                               /\ exitStatus'[q] = exitStatus[q]
                               /\ lastSyscallError'[q] = lastSyscallError[q]
    /\ \/ SlotsKept(p)
       \/ \E s \in Slot, fd \in FileFd : SlotOpened(p, s, fd)
       \/ \E s \in Slot : SlotHeld(p, s) /\ SlotClosed(p, s)
    /\ lastSyscallError'[p] = "EMFILE" =>
          UsedFds(p)' = FileFd \/ lastSyscallError[p] = "EMFILE"
    /\ running' = Idle \/ (running' = p /\ lastSyscallError'[p] = "OK")

LEMMA EntryKeeps ==
    ASSUME KernelOK, NEW p \in Process, NEW frame \in FrameType, KsyscallEntry(p, frame)
    PROVE  CallKeeps(p)
<1> DEFINE regs == [nr   |-> frame.rax, arg0 |-> frame.rdi,
                    arg1 |-> frame.rsi, arg2 |-> frame.rdx]
<1>1. regs \in [nr : Nat, arg0 : Nat, arg1 : Nat, arg2 : Nat]
  BY DEF FrameType
<1>2. KsyscallDispatch(p, regs)
  BY DEF KsyscallEntry
<1>3. p \in Task \cup {NoTask}
  BY ProcessAssumption
<1> HIDE DEF regs
<1> QED
  BY <1>1, <1>2, <1>3, DispatchKeeps

(* What the kernel may answer an op the runtime has let through, and what  *)
(* becomes of the descriptors.                                             *)
Outcome(p) ==
    /\ last'.error \in {"OK", "ENOENT", "EMFILE"}
    /\ last'.error # "OK" => UsedFds(p)' = UsedFds(p)
    /\ last'.error = "EMFILE" => UsedFds(p)' = FileFd
    /\ \A q \in Process \ {p} : files'[q] = files[q]
    /\ last'.error = "OK" =>
          \/ SlotsKept(p)
          \/ \E s \in Slot, fd \in FileFd : SlotOpened(p, s, fd)
          \/ \E s \in Slot : SlotHeld(p, s) /\ SlotClosed(p, s)

LEMMA RunFrameKeeps ==
    ASSUME IInv, NEW p \in Process, NEW op, NEW frame \in FrameType,
           running = p, ip < MaxOps, RunFrame(p, op, frame), Outcome(p)
    PROVE  IInv' /\ TurnEffect(p)
<1>1. KernelOK
  BY DEF IInv, TypeOK, KernelOK
<1>2. CallKeeps(p)
  BY <1>1, EntryKeeps DEF RunFrame
<1>3. KernelTypeOK' /\ OpenFilesSound'
  BY <1>2 DEF CallKeeps, KernelOK
<1>4. last'.status \in Int /\ last'.exits \in BOOLEAN /\ last'.error \in Errors
  BY <1>3 DEF KernelTypeOK
<1>5. lastSyscallError' = [lastSyscallError EXCEPT ![p] = last'.error]
  BY DEF RunFrame
<1>6. lastSyscallError' \in [Process -> Errors] /\ RuntimeChecksSuffice'
  BY <1>4, <1>5 DEF IInv, TypeOK, RuntimeChecksSuffice, Outcome
<1>7. SlotsType /\ SlotsOwnDescriptors
  BY DEF IInv, TypeOK, SlotsType
<1>8. CASE /\ last'.error # "OK"
           /\ lastError' = [lastError EXCEPT ![p] = "ESYSCALL"]
           /\ running' = Idle /\ ip' = 0 /\ outcome' = "ESYSCALL"
           /\ UNCHANGED <<slots, exited, exitStatus>>
  <2>1. SlotsType' /\ SlotsOwnDescriptors'
    BY <1>7, <1>8, OwnershipStep DEF Outcome, SlotsKept
  <2>2. lastError' \in [Process -> RuntimeErrors]
    BY <1>8 DEF IInv, TypeOK, RuntimeErrors
  <2>3. TypeOK'
    BY <1>3, <1>6, <1>8, <2>1, <2>2, ProcessAssumption
       DEF IInv, TypeOK, SlotsType, RuntimeErrors
  <2>4. TurnEffect(p)
    BY <1>5, <1>8 DEF TurnEffect, Outcome, SlotsKept, IInv, TypeOK
  <2> QED
    BY <1>3, <1>6, <2>1, <2>3, <2>4 DEF IInv
<1>9. CASE /\ last'.error = "OK"
           /\ exited' = [exited EXCEPT ![p] = @ \/ last'.exits]
           /\ exitStatus' = [exitStatus EXCEPT ![p] =
                               IF last'.exits THEN last'.status ELSE @]
           /\ slots' = SlotsAfter(p, op, last'.value)
           /\ ip' = ip + 1
           /\ UNCHANGED <<lastError, running, outcome>>
  <2>1. SlotsType' /\ SlotsOwnDescriptors'
    BY <1>7, <1>9, OwnershipStep DEF Outcome
  <2>2. exited' \in [Process -> BOOLEAN]
    BY <1>4, <1>9 DEF IInv, TypeOK
  <2>3. exitStatus' \in [Process -> Int]
    BY <1>4, <1>9 DEF IInv, TypeOK
  <2>4. ip' \in 0..MaxOps
    BY <1>9, ProcessAssumption DEF IInv, TypeOK
  <2>5. TypeOK'
    BY <1>3, <1>6, <1>9, <2>1, <2>2, <2>3, <2>4 DEF IInv, TypeOK, SlotsType
  <2>6. TurnEffect(p)
    BY <1>5, <1>9 DEF TurnEffect, Outcome, IInv, TypeOK
  <2> QED
    BY <1>3, <1>6, <2>1, <2>5, <2>6 DEF IInv
<1> QED
  BY <1>8, <1>9 DEF RunFrame

(* A check of the runtime that fails changes nothing below it.             *)
LEMMA RejectKeeps ==
    ASSUME IInv, NEW p \in Process, NEW error \in RuntimeErrors, Reject(p, error)
    PROVE  IInv' /\ TurnEffect(p)
<1>1. KernelTypeOK' /\ OpenFilesSound'
  BY DEF IInv, TypeOK, Reject, kernelVars, KernelTypeOK, OpenFilesSound
<1>2. SlotsOwnDescriptors' /\ RuntimeChecksSuffice'
  BY DEF IInv, Reject, kernelVars, SlotsOwnDescriptors, RuntimeChecksSuffice
<1>3. TypeOK'
  BY <1>1, ProcessAssumption DEF IInv, TypeOK, Reject
<1>4. TurnEffect(p)
  BY DEF Reject, kernelVars, TurnEffect, SlotsKept, UsedFds
<1> QED
  BY <1>1, <1>2, <1>3, <1>4 DEF IInv

-----------------------------------------------------------------------------
(* What SlotsAfter makes of the slots, opcode by opcode.                   *)
LEMMA SlotsAfterCases ==
    ASSUME SlotsType, NEW p \in Process, NEW op, NEW value
    PROVE  /\ op.opcode = "OPEN" =>
                SlotsAfter(p, op, value) = [slots EXCEPT ![p][op.slot] = value]
           /\ op.opcode = "CLOSE" =>
                SlotsAfter(p, op, value) = [slots EXCEPT ![p][op.slot] = -1]
           /\ op.opcode \notin {"OPEN", "CLOSE"} => SlotsAfter(p, op, value) = slots
BY DEF SlotsAfter, SlotsType

(* The operands of an op and the frames made of them.                      *)
LEMMA OpTypes ==
    ASSUME NEW op \in Op
    PROVE  /\ op.slot \in Nat /\ op.offset \in Nat /\ op.len \in Nat
           /\ op.aux \in Nat /\ op.status % WordMod \in Nat
BY ProcessAssumption, TaskAssumption

LEMMA FrameTypes ==
    ASSUME NEW nr \in Nat, NEW x \in Nat, NEW y \in Nat, NEW z \in Nat
    PROVE  /\ Frame(nr, x, y, z) \in FrameType
           /\ Frame(nr, x, y, z).rax = nr /\ Frame(nr, x, y, z).rdi = x
           /\ Frame(nr, x, y, z).rsi = y  /\ Frame(nr, x, y, z).rdx = z
BY DEF Frame, FrameType

(* The numbers of the calls are below the width of the enum.               *)
LEMMA EntryCalls ==
    ASSUME NEW p, NEW x, NEW y, NEW z
    PROVE  /\ KsyscallEntry(p, Frame(0, x, y, z)) => SysRead(p, x, y, z)
           /\ KsyscallEntry(p, Frame(1, x, y, z)) => SysWrite(p, x, y, z)
           /\ KsyscallEntry(p, Frame(2, x, y, z)) => SysOpen(p, x, y)
           /\ KsyscallEntry(p, Frame(3, x, y, z)) => SysClose(p, x)
           /\ KsyscallEntry(p, Frame(4, x, y, z)) => SysStat(p, x, y, z)
           /\ KsyscallEntry(p, Frame(6, x, y, z)) => SysExit(p, x)
<1>1. \A n \in 0..6 : CallNumber(n) = n
  BY TaskAssumption DEF CallNumber
<1> QED
  BY <1>1 DEF KsyscallEntry, KsyscallDispatch, Frame

(* The value of a slot that holds a descriptor is one the process has open. *)
LEMMA HeldIsUsed ==
    ASSUME IInv, NEW p \in Process, NEW s, SlotHeld(p, s)
    PROVE  s \in Slot /\ slots[p][s] \in UsedFds(p) /\ slots[p][s] \in Nat
<1>1. SlotsType /\ SlotsOwnDescriptors
  BY DEF IInv, TypeOK, SlotsType
<1>2. s \in Slot /\ slots[p][s] \in {-1} \cup FileFd /\ slots[p][s] # -1
  BY <1>1 DEF SlotHeld, SlotsType
<1> QED
  BY <1>1, <1>2, OwnsUsed, FdTypes

LEMMA StepContext ==
    ASSUME IInv, NEW p \in Process
    PROVE  KernelOK /\ p \in Task /\ SlotsType
BY ProcessAssumption DEF IInv, TypeOK, KernelOK, SlotsType

LEMMA ErrorNames ==
    /\ "EFAULT" \in RuntimeErrors /\ "EBADFD" \in RuntimeErrors
    /\ "EINVAL" \in RuntimeErrors
BY DEF RuntimeErrors

LEMMA ExecWriteKeeps ==
    ASSUME IInv, NEW p \in Process, NEW op \in Op, op.opcode = "WRITE",
           running = p, ip < MaxOps, ExecWrite(p, op)
    PROVE  IInv' /\ TurnEffect(p)
<1>1. CASE ~UserRangeOk(op.offset, op.len)
  BY <1>1, RejectKeeps, ErrorNames DEF ExecWrite
<1>2. CASE UserRangeOk(op.offset, op.len)
  <2> DEFINE ptr == UserPtr(p, op.offset)
             frame == Frame(1, 1, ptr, op.len)
  <2>1. ptr \in Nat /\ TaskContainsUserRange(p, ptr, op.len)
    BY <1>2, OpTypes, RangeOkInWindow
  <2>2. frame \in FrameType
    BY <2>1, OpTypes, FrameTypes
  <2>3. RunFrame(p, op, frame)
    BY <1>2 DEF ExecWrite
  <2> HIDE DEF ptr
  <2>4. SysWrite(p, 1, ptr, op.len)
    BY <2>3, EntryCalls DEF RunFrame
  <2>5. last'.error = "OK" /\ files' = files
    BY <2>1, <2>4, StepContext, WriteEffect
  <2>6. slots' = SlotsAfter(p, op, last'.value)
    BY <2>3, <2>5 DEF RunFrame
  <2>7. Outcome(p)
    BY <2>5, <2>6, SlotsAfterCases, StepContext DEF Outcome, SlotsKept, UsedFds
  <2> HIDE DEF frame
  <2> QED
    BY <2>2, <2>3, <2>7, RunFrameKeeps
<1> QED
  BY <1>1, <1>2

LEMMA ExecOpenKeeps ==
    ASSUME IInv, NEW p \in Process, NEW op \in Op, op.opcode = "OPEN",
           running = p, ip < MaxOps, ExecOpen(p, op)
    PROVE  IInv' /\ TurnEffect(p)
<1>1. CASE ~(op.slot \in Slot /\ UserRangeOk(op.offset, op.len))
  BY <1>1, RejectKeeps, ErrorNames DEF ExecOpen
<1>2. CASE op.slot \in Slot /\ UserRangeOk(op.offset, op.len)
  <2> DEFINE ptr == UserPtr(p, op.offset)
             frame == Frame(2, ptr, op.len, 0)
  <2>1. ptr \in Nat /\ TaskContainsUserRange(p, ptr, op.len)
    BY <1>2, OpTypes, RangeOkInWindow
  <2>2. frame \in FrameType
    BY <2>1, OpTypes, FrameTypes
  <2>3. RunFrame(p, op, frame)
    BY <1>2 DEF ExecOpen
  <2> HIDE DEF ptr
  <2>4. SysOpen(p, ptr, op.len)
    BY <2>3, EntryCalls DEF RunFrame
  <2>5. \/ /\ last'.error \in {"ENOENT", "EMFILE"} /\ files' = files
           /\ last'.error = "EMFILE" => UsedFds(p) = FileFd
        \/ /\ last'.error = "OK"
           /\ last'.value \in FileFd \ UsedFds(p)
           /\ UsedFds(p)' = UsedFds(p) \cup {last'.value}
           /\ \A u \in Task \ {p} : files'[u] = files[u]
    BY <2>1, <2>4, StepContext, OpenEffect
  <2>6. last'.error = "OK" => slots' = [slots EXCEPT ![p][op.slot] = last'.value]
    <3>1. last'.error = "OK" => slots' = SlotsAfter(p, op, last'.value)
      BY <2>3 DEF RunFrame
    <3> QED
      BY <3>1, SlotsAfterCases, StepContext
  <2>7. last'.error = "OK" => SlotOpened(p, op.slot, last'.value)
    BY <2>5, <2>6 DEF SlotOpened
  <2>8. Outcome(p)
    <3>1. CASE /\ last'.error \in {"ENOENT", "EMFILE"} /\ files' = files
               /\ last'.error = "EMFILE" => UsedFds(p) = FileFd
      BY <3>1 DEF Outcome, UsedFds
    <3>2. CASE /\ last'.error = "OK"
               /\ last'.value \in FileFd
               /\ \A u \in Task \ {p} : files'[u] = files[u]
      BY <1>2, <2>7, <3>2, ProcessAssumption DEF Outcome
    <3> QED
      BY <2>5, <3>1, <3>2
  <2> HIDE DEF frame
  <2> QED
    BY <2>2, <2>3, <2>8, RunFrameKeeps
<1> QED
  BY <1>1, <1>2

LEMMA ExecReadKeeps ==
    ASSUME IInv, NEW p \in Process, NEW op \in Op, op.opcode = "READ",
           running = p, ip < MaxOps, ExecRead(p, op)
    PROVE  IInv' /\ TurnEffect(p)
<1>1. CASE ~(SlotHeld(p, op.slot) /\ UserRangeOk(op.offset, op.len))
  BY <1>1, RejectKeeps, ErrorNames DEF ExecRead
<1>2. CASE SlotHeld(p, op.slot) /\ UserRangeOk(op.offset, op.len)
  <2> DEFINE ptr == UserPtr(p, op.offset)
             fd == slots[p][op.slot]
             frame == Frame(0, fd, ptr, op.len)
  <2>1. ptr \in Nat /\ TaskContainsUserRange(p, ptr, op.len)
    BY <1>2, OpTypes, RangeOkInWindow
  <2>2. fd \in UsedFds(p) /\ fd \in Nat
    BY <1>2, HeldIsUsed
  <2> HIDE DEF ptr, fd
  <2>3. frame \in FrameType
    BY <2>1, <2>2, OpTypes, FrameTypes
  <2>4. RunFrame(p, op, frame)
    BY <1>2 DEF ExecRead, ptr, fd
  <2>5. SysRead(p, fd, ptr, op.len)
    BY <2>4, EntryCalls DEF RunFrame
  <2>6. /\ last'.error = "OK"
        /\ UsedFds(p)' = UsedFds(p)
        /\ \A u \in Task \ {p} : files'[u] = files[u]
    BY <2>1, <2>2, <2>5, StepContext, ReadEffect
  <2>7. slots' = SlotsAfter(p, op, last'.value)
    BY <2>4, <2>6 DEF RunFrame
  <2>8. Outcome(p)
    BY <2>6, <2>7, SlotsAfterCases, StepContext, ProcessAssumption DEF Outcome, SlotsKept
  <2> HIDE DEF frame
  <2> QED
    BY <2>3, <2>4, <2>8, RunFrameKeeps
<1> QED
  BY <1>1, <1>2

LEMMA ExecCloseKeeps ==
    ASSUME IInv, NEW p \in Process, NEW op \in Op, op.opcode = "CLOSE",
           running = p, ip < MaxOps, ExecClose(p, op)
    PROVE  IInv' /\ TurnEffect(p)
<1>1. CASE ~SlotHeld(p, op.slot)
  BY <1>1, RejectKeeps, ErrorNames DEF ExecClose
<1>2. CASE SlotHeld(p, op.slot)
  <2> DEFINE fd == slots[p][op.slot]
             frame == Frame(3, fd, 0, 0)
  <2>1. op.slot \in Slot /\ fd \in UsedFds(p) /\ fd \in Nat
    BY <1>2, HeldIsUsed
  <2> HIDE DEF fd
  <2>2. frame \in FrameType
    BY <2>1, FrameTypes
  <2>3. RunFrame(p, op, frame)
    BY <1>2 DEF ExecClose, fd
  <2>4. SysClose(p, fd)
    BY <2>3, EntryCalls DEF RunFrame
  <2>5. /\ last'.error = "OK"
        /\ UsedFds(p)' = UsedFds(p) \ {fd}
        /\ \A u \in Task \ {p} : files'[u] = files[u]
    BY <2>1, <2>4, StepContext, CloseEffect
  <2>6. slots' = [slots EXCEPT ![p][op.slot] = -1]
    <3>1. slots' = SlotsAfter(p, op, last'.value)
      BY <2>3, <2>5 DEF RunFrame
    <3> QED
      BY <3>1, SlotsAfterCases, StepContext
  <2>7. SlotClosed(p, op.slot)
    BY <2>5, <2>6 DEF SlotClosed, fd
  <2>8. Outcome(p)
    BY <1>2, <2>1, <2>5, <2>7, ProcessAssumption DEF Outcome
  <2> HIDE DEF frame
  <2> QED
    BY <2>2, <2>3, <2>8, RunFrameKeeps
<1> QED
  BY <1>1, <1>2

LEMMA ExecStatKeeps ==
    ASSUME IInv, NEW p \in Process, NEW op \in Op, op.opcode = "STAT",
           running = p, ip < MaxOps, ExecStat(p, op)
    PROVE  IInv' /\ TurnEffect(p)
<1>1. CASE ~(UserRangeOk(op.offset, op.len) /\ UserRangeOk(op.aux, StatSize))
  BY <1>1, RejectKeeps, ErrorNames DEF ExecStat
<1>2. CASE UserRangeOk(op.offset, op.len) /\ UserRangeOk(op.aux, StatSize)
  <2> DEFINE ptr == UserPtr(p, op.offset)
             out == UserPtr(p, op.aux)
             frame == Frame(4, ptr, op.len, out)
  <2>1. ptr \in Nat /\ TaskContainsUserRange(p, ptr, op.len)
    BY <1>2, OpTypes, RangeOkInWindow
  <2>2. out \in Nat /\ TaskContainsUserRange(p, out, StatSize)
    <3>1. StatSize \in Nat
      BY DEF StatSize
    <3> QED
      BY <3>1, <1>2, OpTypes, RangeOkInWindow
  <2> HIDE DEF ptr, out
  <2>3. frame \in FrameType
    BY <2>1, <2>2, OpTypes, FrameTypes
  <2>4. RunFrame(p, op, frame)
    BY <1>2 DEF ExecStat, ptr, out
  <2>5. SysStat(p, ptr, op.len, out)
    BY <2>4, EntryCalls DEF RunFrame
  <2>6. last'.error \in {"OK", "ENOENT"} /\ files' = files
    BY <2>1, <2>2, <2>5, StepContext, StatEffect
  <2>7. last'.error = "OK" => slots' = slots
    <3>1. last'.error = "OK" => slots' = SlotsAfter(p, op, last'.value)
      BY <2>4 DEF RunFrame
    <3> QED
      BY <3>1, SlotsAfterCases, StepContext
  <2>8. Outcome(p)
    BY <2>6, <2>7 DEF Outcome, SlotsKept, UsedFds
  <2> HIDE DEF frame
  <2> QED
    BY <2>3, <2>4, <2>8, RunFrameKeeps
<1> QED
  BY <1>1, <1>2

LEMMA ExecExitKeeps ==
    ASSUME IInv, NEW p \in Process, NEW op \in Op, op.opcode = "EXIT",
           running = p, ip < MaxOps, ExecExit(p, op)
    PROVE  IInv' /\ TurnEffect(p)
<1> DEFINE frame == Frame(6, op.status % WordMod, 0, 0)
<1>1. frame \in FrameType
  BY OpTypes, FrameTypes
<1>2. RunFrame(p, op, frame)
  BY DEF ExecExit
<1>3. SysExit(p, op.status % WordMod)
  BY <1>2, EntryCalls DEF RunFrame
<1>4. last'.error = "OK" /\ files' = files
  BY <1>3, ExitEffect
<1>5. slots' = slots
  <2>1. slots' = SlotsAfter(p, op, last'.value)
    BY <1>2, <1>4 DEF RunFrame
  <2> QED
    BY <2>1, SlotsAfterCases, StepContext
<1>6. Outcome(p)
  BY <1>4, <1>5 DEF Outcome, SlotsKept, UsedFds
<1> HIDE DEF frame
<1> QED
  BY <1>1, <1>2, <1>6, RunFrameKeeps

(* One turn of the loop of kuser_run, whatever the op.                     *)
LEMMA StepKeeps ==
    ASSUME IInv, NEW p \in Process, NEW op \in Op, Step(p, op)
    PROVE  IInv' /\ TurnEffect(p)
<1>1. running = p /\ ip < MaxOps /\ Exec(p, op)
  BY DEF Step
<1>2. CASE op.opcode = "WRITE" /\ ExecWrite(p, op)
  BY <1>1, <1>2, ExecWriteKeeps
<1>3. CASE op.opcode = "OPEN" /\ ExecOpen(p, op)
  BY <1>1, <1>3, ExecOpenKeeps
<1>4. CASE op.opcode = "READ" /\ ExecRead(p, op)
  BY <1>1, <1>4, ExecReadKeeps
<1>5. CASE op.opcode = "CLOSE" /\ ExecClose(p, op)
  BY <1>1, <1>5, ExecCloseKeeps
<1>6. CASE op.opcode = "STAT" /\ ExecStat(p, op)
  BY <1>1, <1>6, ExecStatKeeps
<1>7. CASE op.opcode = "EXIT" /\ ExecExit(p, op)
  BY <1>1, <1>7, ExecExitKeeps
<1>8. CASE Reject(p, "EINVAL")
  BY <1>8, RejectKeeps, ErrorNames
<1> QED
  BY <1>1, <1>2, <1>3, <1>4, <1>5, <1>6, <1>7, <1>8 DEF Exec

-----------------------------------------------------------------------------
LEMMA InitIInv == Init => IInv
<1> SUFFICES ASSUME Init PROVE IInv
  OBVIOUS
<1> USE DEF Init
<1>1. mounted \in Seq(Node)
  OBVIOUS
<1>2. files \in [Task -> [0..(MaxFiles - 1) -> OpenFile]]
  BY DEF OpenFile
<1>3. mem \in [Addr -> Cell]
  BY ProcessAssumption
<1>4. last \in [task : Task \cup {NoTask}, value : Int, error : Errors,
                bytes : Seq(Cell), exits : BOOLEAN, status : Int]
  BY DEF Result, Errors
<1>5. OpenFilesSound
  BY DEF OpenFilesSound, FreeFile
<1>6. KernelTypeOK
  BY <1>1, <1>2, <1>3, <1>4 DEF KernelTypeOK
<1>7. TypeOK
  BY <1>6, ProcessAssumption DEF TypeOK, Errors, RuntimeErrors
<1>8. SlotsOwnDescriptors /\ RuntimeChecksSuffice
  BY DEF SlotsOwnDescriptors, RuntimeChecksSuffice
<1> QED
  BY <1>5, <1>7, <1>8 DEF IInv

LEMMA ZeroCell == 0 \in Cell
BY ProcessAssumption

LEMMA ZerosType ==
    ASSUME NEW S, NEW c \in S, NEW n \in Nat
    PROVE  [i \in 1..n |-> c] \in Seq(S)
OBVIOUS

(* kuser_init_process: no slot holds a descriptor, no descriptor is open,  *)
(* whatever its own structure held before.                                 *)
LEMMA InitProcessKeeps ==
    ASSUME TypeOK, OpenFilesSound, RuntimeChecksSuffice,
           NEW p \in Process, KuserInitProcess(p),
           SlotsOwnDescriptors \/ Process = {p}
    PROVE  IInv'
<1> USE DEF KuserInitProcess
<1>1. /\ p \in Task /\ UserBase[p] \in Nat /\ MemorySize \in Nat
  <2>1. p \in Task /\ UserLen[p] = MemorySize
    BY ProcessAssumption
  <2>2. UserLen[p] \in Addr /\ UserBase[p] \in Addr
    BY <2>1, TaskAssumption
  <2> QED
    BY <2>1, <2>2 DEF Addr
<1>2. [i \in 1..MemorySize |-> 0] \in Seq(Cell)
  BY <1>1, ZeroCell, ZerosType
<1>3. mem' \in [Addr -> Cell]
  BY <1>1, <1>2, StoreType DEF TypeOK, KernelTypeOK
<1>4. files' = [files EXCEPT ![p] = [fd \in 0..(MaxFiles - 1) |-> FreeFile]]
  BY <1>1 DEF TypeOK, KernelTypeOK
<1>5. files' \in [Task -> [0..(MaxFiles - 1) -> OpenFile]]
  BY <1>1, <1>4 DEF TypeOK, KernelTypeOK, OpenFile
<1>6. KernelTypeOK'
  BY <1>3, <1>5 DEF TypeOK, KernelTypeOK
<1>7. \A fd \in 0..(MaxFiles - 1) : ~files'[p][fd].used
  BY <1>1, <1>4 DEF TypeOK, KernelTypeOK, FreeFile
<1>8. \A q \in Task \ {p} : files'[q] = files[q]
  BY <1>1, <1>4 DEF TypeOK, KernelTypeOK
<1>9. OpenFilesSound'
  BY <1>7, <1>8 DEF OpenFilesSound
<1>10. /\ slots' \in [Process -> [Slot -> {-1} \cup FileFd]]
       /\ \A s \in Slot : slots'[p][s] = -1
       /\ \A q \in Process \ {p} : slots'[q] = slots[q]
  BY DEF TypeOK
<1>11. SlotsOwnDescriptors'
  BY <1>8, <1>10, ProcessAssumption DEF SlotsOwnDescriptors
<1>12. /\ lastSyscallError' \in [Process -> Errors]
       /\ RuntimeChecksSuffice'
  BY DEF TypeOK, RuntimeChecksSuffice, Errors
<1>13. /\ exited' \in [Process -> BOOLEAN]
       /\ exitStatus' \in [Process -> Int]
       /\ lastError' \in [Process -> RuntimeErrors]
  BY DEF TypeOK, RuntimeErrors
<1>14. TypeOK'
  BY <1>6, <1>10, <1>12, <1>13 DEF TypeOK, runVars
<1> QED
  BY <1>9, <1>11, <1>12, <1>14 DEF IInv

(* kuser_run up to its loop keeps slots and descriptors as they are.       *)
LEMMA StartRunKeeps ==
    ASSUME IInv, NEW p \in Process, NEW image \in Images, StartRun(p, image)
    PROVE  IInv'
<1>1. CASE /\ outcome' = "EFAULT"
           /\ UNCHANGED <<kernelVars, processVars, running, ip>>
  BY <1>1 DEF IInv, TypeOK, RuntimeErrors, kernelVars, processVars, KernelTypeOK,
              OpenFilesSound, SlotsOwnDescriptors, RuntimeChecksSuffice
<1>2. CASE /\ mem' = Store(UserBase[p], image.memory)
           /\ mounted' = image.nodes
           /\ lastError' = [lastError EXCEPT ![p] = "OK"]
           /\ lastSyscallError' = [lastSyscallError EXCEPT ![p] = "OK"]
           /\ running' = p /\ ip' = 0
           /\ UNCHANGED <<files, last, slots, exited, exitStatus, outcome>>
  <2>1. UserBase[p] \in Nat /\ image.memory \in Seq(Cell) /\ image.nodes \in Seq(Node)
    BY ProcessAssumption, TaskAssumption DEF Addr
  <2>2. mem' \in [Addr -> Cell]
    BY <1>2, <2>1, StoreType DEF IInv, TypeOK, KernelTypeOK
  <2>3. KernelTypeOK'
    BY <1>2, <2>1, <2>2 DEF IInv, TypeOK, KernelTypeOK
  <2>4. OpenFilesSound' /\ SlotsOwnDescriptors'
    BY <1>2 DEF IInv, OpenFilesSound, SlotsOwnDescriptors
  <2>5. /\ lastSyscallError' \in [Process -> Errors]
        /\ RuntimeChecksSuffice'
    BY <1>2 DEF IInv, TypeOK, RuntimeChecksSuffice, Errors
  <2>6. lastError' \in [Process -> RuntimeErrors]
    BY <1>2 DEF IInv, TypeOK, RuntimeErrors
  <2>7. ip' \in 0..MaxOps
    BY <1>2, ProcessAssumption
  <2>8. TypeOK'
    BY <1>2, <2>3, <2>5, <2>6, <2>7 DEF IInv, TypeOK
  <2> QED
    BY <2>4, <2>5, <2>8 DEF IInv
<1> QED
  BY <1>1, <1>2 DEF StartRun

(* What neither kernel nor process takes part in.                          *)
LEMMA RunOnlyKeeps ==
    ASSUME IInv, UNCHANGED <<kernelVars, processVars>>,
           running' \in Process \cup {Idle}, ip' \in 0..MaxOps,
           outcome' \in RuntimeErrors
    PROVE  IInv'
BY DEF IInv, TypeOK, kernelVars, processVars, KernelTypeOK, OpenFilesSound,
       SlotsOwnDescriptors, RuntimeChecksSuffice

LEMMA NextKeeps == IInv /\ [Next]_userVars => IInv'
<1> SUFFICES ASSUME IInv, [Next]_userVars PROVE IInv'
  OBVIOUS
<1>1. ASSUME NEW p \in Process, KuserInitProcess(p) PROVE IInv'
  BY <1>1, InitProcessKeeps DEF IInv
<1>2. ASSUME NEW p \in Process, NEW image \in Images, StartRun(p, image) PROVE IInv'
  BY <1>2, StartRunKeeps
<1>3. ASSUME NEW p \in Process, NEW op \in Op, Step(p, op) PROVE IInv'
  BY <1>3, StepKeeps
<1>4. CASE RunNothing
  <2>1. /\ running' \in Process \cup {Idle} /\ ip' \in 0..MaxOps
        /\ outcome' \in RuntimeErrors
    BY <1>4, ErrorNames DEF RunNothing, IInv, TypeOK
  <2> QED
    BY <1>4, <2>1, RunOnlyKeeps DEF RunNothing
<1>5. CASE FinishRun
  <2>1. /\ running' \in Process \cup {Idle} /\ ip' \in 0..MaxOps
        /\ outcome' \in RuntimeErrors
    BY <1>5, ProcessAssumption DEF FinishRun, RuntimeErrors
  <2> QED
    BY <1>5, <2>1, RunOnlyKeeps DEF FinishRun
<1>6. CASE UNCHANGED userVars
  BY <1>6, RunOnlyKeeps DEF userVars, runVars, IInv, TypeOK
<1> QED
  BY <1>1, <1>2, <1>3, <1>4, <1>5, <1>6 DEF Next

LEMMA Invariant == Spec => []IInv
BY InitIInv, NextKeeps, PTL DEF Spec

(* Type correctness of the runtime and the kernel under it.                *)
THEOREM TypeCorrect == Spec => []TypeOK
<1>1. IInv => TypeOK
  BY DEF IInv
<1> QED
  BY <1>1, Invariant, PTL

(* Slots and descriptors stay in step: no op of a slot reaches the file of *)
(* another, through failed ops, resets and program after program.          *)
THEOREM SlotsOwn == Spec => []SlotsOwnDescriptors
<1>1. IInv => SlotsOwnDescriptors
  BY DEF IInv
<1> QED
  BY <1>1, Invariant, PTL

(* Whatever the runtime lets through, the kernel's own checks pass.        *)
THEOREM ChecksSuffice == Spec => []RuntimeChecksSuffice
<1>1. IInv => RuntimeChecksSuffice
  BY DEF IInv
<1> QED
  BY <1>1, Invariant, PTL

-----------------------------------------------------------------------------
(* What is lost, said of the descriptors in use.                           *)
LEMMA LeakedIs ==
    ASSUME NEW p
    PROVE  Leaked(p) = {fd \in UsedFds(p) : \A s \in Slot : slots[p][s] # fd}
BY DEF Leaked, UsedFds

LossByReopen(p) ==
    \/ Leaked(p)' \subseteq Leaked(p)
    \/ /\ Leaked(p)' \ Leaked(p) \subseteq {slots[p][s] : s \in Slot}
       /\ \E s \in Slot : /\ slots[p][s] \in Leaked(p)'
                          /\ slots'[p][s] \in FileFd \ {slots[p][s]}

LEMMA KeptLosesNone ==
    ASSUME NEW p \in Process, files'[p] = files[p], slots'[p] = slots[p]
    PROVE  LossByReopen(p)
BY DEF Leaked, LossByReopen

(* OPEN loses what its slot held; nothing else does.                       *)
LEMMA TurnLoss ==
    ASSUME SlotsType, SlotsOwnDescriptors, NEW p \in Process, TurnEffect(p)
    PROVE  \A q \in Process : LossByReopen(q)
<1>1. ASSUME NEW q \in Process \ {p} PROVE LossByReopen(q)
  <2>1. files'[q] = files[q] /\ slots'[q] = slots[q]
    BY <1>1 DEF TurnEffect, SlotsKept, SlotOpened, SlotClosed, SlotsType
  <2> QED
    BY <2>1, KeptLosesNone
<1>2. /\ Leaked(p) = {fd \in UsedFds(p) : \A s \in Slot : slots[p][s] # fd}
      /\ Leaked(p)' = {fd \in UsedFds(p)' : \A s \in Slot : slots'[p][s] # fd}
  BY DEF Leaked, UsedFds
<1>3. ASSUME SlotsKept(p) PROVE LossByReopen(p)
  BY <1>2, <1>3 DEF SlotsKept, LossByReopen
<1>4. ASSUME NEW s \in Slot, NEW fd \in FileFd, SlotOpened(p, s, fd)
      PROVE  LossByReopen(p)
  <2>1. /\ slots'[p][s] = fd /\ fd \notin UsedFds(p)
        /\ \A r \in Slot \ {s} : slots'[p][r] = slots[p][r]
        /\ UsedFds(p)' = UsedFds(p) \cup {fd}
    BY <1>4 DEF SlotOpened, SlotsType
  <2>2. Leaked(p)' \subseteq Leaked(p) \cup {slots[p][s]}
    BY <1>2, <2>1
  <2>3. CASE slots[p][s] = -1
    <3>1. -1 \notin UsedFds(p) \cup {fd}
      BY FdTypes DEF UsedFds
    <3> QED
      BY <1>2, <2>1, <2>2, <2>3, <3>1 DEF LossByReopen
  <2>4. CASE slots[p][s] # -1
    <3>1. /\ slots[p][s] \in UsedFds(p)
          /\ \A r \in Slot \ {s} : slots[p][r] # slots[p][s]
      BY <2>4, OwnsUsed
    <3>2. slots[p][s] \in Leaked(p)' /\ slots'[p][s] \in FileFd \ {slots[p][s]}
      BY <1>2, <2>1, <3>1
    <3> QED
      BY <2>2, <3>2 DEF LossByReopen
  <2> QED
    BY <2>3, <2>4
<1>5. ASSUME NEW s \in Slot, SlotClosed(p, s)
      PROVE  LossByReopen(p)
  <2>1. /\ \A r \in Slot \ {s} : slots'[p][r] = slots[p][r]
        /\ UsedFds(p)' = UsedFds(p) \ {slots[p][s]}
    BY <1>5 DEF SlotClosed, SlotsType
  <2> QED
    BY <1>2, <2>1 DEF LossByReopen
<1> QED
  BY <1>1, <1>3, <1>4, <1>5 DEF TurnEffect

(* A step that begins, ends or refuses a run moves no slot and no          *)
(* descriptor.                                                             *)
LEMMA RunStepsKeep ==
    ASSUME \/ \E p \in Process, image \in Images : StartRun(p, image)
           \/ RunNothing \/ FinishRun \/ UNCHANGED userVars
    PROVE  UNCHANGED <<files, slots, exitStatus>>
BY DEF StartRun, RunNothing, FinishRun, userVars, kernelVars, processVars

(* kuser_init_process empties the table of its process and of no other.    *)
LEMMA InitProcessEffect ==
    ASSUME IInv, NEW p \in Process, KuserInitProcess(p)
    PROVE  /\ UsedFds(p)' = {}
           /\ ~exited'[p]
           /\ lastSyscallError'[p] = "OK"
           /\ \A q \in Process \ {p} : /\ files'[q] = files[q]
                                       /\ slots'[q] = slots[q]
                                       /\ exitStatus'[q] = exitStatus[q]
                                       /\ lastSyscallError'[q] = lastSyscallError[q]
<1>1. p \in Task /\ Process \subseteq Task
  BY ProcessAssumption
<1>2. \A fd \in 0..(MaxFiles - 1) : ~files'[p][fd].used
  BY <1>1 DEF KuserInitProcess, IInv, TypeOK, KernelTypeOK, FreeFile
<1>3. UsedFds(p)' = {}
  BY <1>2, FdTypes DEF UsedFds
<1> QED
  BY <1>1, <1>3 DEF KuserInitProcess, IInv, TypeOK, KernelTypeOK

(* A descriptor is lost only by OPEN into a slot that still holds one:     *)
(* failed ops, CLOSE, the end of a run and the next program lose none.     *)
THEOREM LostByReopen == Spec => LeakOnlyByReopen
<1>1. IInv /\ [Next]_userVars =>
        \A p \in Process : Leaked(p)' \subseteq Leaked(p)
          \/ /\ Leaked(p)' \ Leaked(p) \subseteq {slots[p][s] : s \in Slot}
             /\ \E s \in Slot : /\ slots[p][s] \in Leaked(p)'
                                /\ slots'[p][s] \in FileFd \ {slots[p][s]}
  <2> SUFFICES ASSUME IInv, [Next]_userVars PROVE \A p \in Process : LossByReopen(p)
    BY DEF LossByReopen
  <2>1. ASSUME NEW p \in Process, KuserInitProcess(p)
        PROVE  \A q \in Process : LossByReopen(q)
    <3>1. Leaked(p)' = {}
      BY <2>1, InitProcessEffect DEF Leaked, UsedFds
    <3>2. \A q \in Process \ {p} : files'[q] = files[q] /\ slots'[q] = slots[q]
      BY <2>1, InitProcessEffect
    <3> QED
      BY <3>1, <3>2, KeptLosesNone DEF LossByReopen
  <2>2. ASSUME NEW p \in Process, NEW op \in Op, Step(p, op)
        PROVE  \A q \in Process : LossByReopen(q)
    BY <2>2, StepKeeps, StepContext, TurnLoss DEF IInv
  <2>3. CASE UNCHANGED <<files, slots, exitStatus>>
    BY <2>3, KeptLosesNone
  <2> QED
    BY <2>1, <2>2, <2>3, RunStepsKeep DEF Next
<1> QED
  BY <1>1, Invariant, PTL DEF Spec, LeakOnlyByReopen

(* An exited process keeps its status, slots and descriptors, whatever it  *)
(* is given to run and whatever other processes do.                        *)
THEOREM ExitStays == Spec => ExitIsFinal
<1>1. IInv /\ [Next]_userVars =>
        \A p \in Process : exited[p] /\ exited'[p] =>
          UNCHANGED <<exitStatus[p], slots[p], files[p]>>
  <2> SUFFICES ASSUME IInv, [Next]_userVars, NEW p \in Process, exited[p], exited'[p]
               PROVE  exitStatus'[p] = exitStatus[p] /\ slots'[p] = slots[p] /\ files'[p] = files[p]
    OBVIOUS
  <2>1. ASSUME NEW q \in Process, KuserInitProcess(q)
        PROVE  q # p
    BY <2>1, InitProcessEffect
  <2>2. ASSUME NEW q \in Process, NEW op \in Op, Step(q, op)
        PROVE  exitStatus'[p] = exitStatus[p] /\ slots'[p] = slots[p] /\ files'[p] = files[p]
    <3>1. q # p /\ TurnEffect(q) /\ SlotsType
      BY <2>2, StepKeeps, StepContext DEF Step
    <3> QED
      BY <3>1 DEF TurnEffect, SlotsKept, SlotOpened, SlotClosed, SlotsType
  <2> QED
    BY <2>1, <2>2, InitProcessEffect, RunStepsKeep DEF Next
<1> QED
  BY <1>1, Invariant, PTL DEF Spec, ExitIsFinal

(* A remainder from its quotient                                           *)
LEMMA ModUnique ==
    ASSUME NEW m \in Nat \ {0}, NEW q \in Int, NEW r \in 0..(m - 1)
    PROVE  (q * m + r) % m = r
OBVIOUS

(* An int cast to uintptr_t and back is the same int.                      *)
LEMMA IntRoundTrip ==
    ASSUME NEW k \in Nat, WordMod = k * IntMod,
           NEW s \in Int, -IntMod <= 2 * s, 2 * s < IntMod
    PROVE  AsInt(s % WordMod) = s
<1>1. WordMod \in Nat \ {0} /\ IntMod \in Nat \ {0} /\ IntMod <= WordMod
  BY TaskAssumption
<1>2. CASE s >= 0
  <2>1. s \in 0..(IntMod - 1) /\ s \in 0..(WordMod - 1)
    BY <1>1, <1>2
  <2>2. s % WordMod = s
    BY <1>1, <2>1
  <2>3. s % IntMod = s
    BY <1>1, <2>1
  <2> QED
    BY <2>2, <2>3 DEF AsInt
<1>3. CASE s < 0
  <2>1. s + IntMod \in 0..(IntMod - 1) /\ s + WordMod \in 0..(WordMod - 1)
    BY <1>1, <1>3
  <2>2. s % WordMod = s + WordMod
    <3>1. s = (-1) * WordMod + (s + WordMod)
      BY <1>1
    <3> QED
      BY <1>1, <2>1, <3>1, ModUnique
  <2>3. (s + WordMod) % IntMod = s + IntMod
    <3>1. s + WordMod = (k - 1) * IntMod + (s + IntMod)
      BY <1>1
    <3>2. k - 1 \in Int
      OBVIOUS
    <3>3. ((k - 1) * IntMod + (s + IntMod)) % IntMod = s + IntMod
      BY <1>1, <2>1, <3>2, ModUnique
    <3> QED
      BY <3>1, <3>3, Zenon
  <2>4. ~(2 * (s + IntMod) < IntMod) /\ (s + IntMod) - IntMod = s
    BY <1>1
  <2> QED
    BY <2>2, <2>3, <2>4 DEF AsInt
<1> QED
  BY <1>2, <1>3

(* What a program exits with is what its process shows: an EXIT whose      *)
(* status is an int goes through the register of the trap frame and back   *)
(* to an int unchanged, negative statuses included, marks the process      *)
(* exited, and leaves the run's own outcome alone (ExecExit, SysExit and   *)
(* the end of the loop of kuser_run).  The word must hold whole ints, as   *)
(* 64 bits hold 32.                                                        *)
THEOREM ExitStatusExact ==
    ASSUME NEW k \in Nat, WordMod = k * IntMod
    PROVE  Spec => [][\A p \in Process, op \in Op :
               /\ op.opcode = "EXIT" /\ Step(p, op)
               /\ -IntMod <= 2 * op.status /\ 2 * op.status < IntMod
               => exited'[p] /\ exitStatus'[p] = op.status /\ outcome' = outcome]_userVars
<1>1. ASSUME IInv, NEW p \in Process, NEW op \in Op, op.opcode = "EXIT", Step(p, op),
             -IntMod <= 2 * op.status, 2 * op.status < IntMod
      PROVE  exited'[p] /\ exitStatus'[p] = op.status /\ outcome' = outcome
  <2>1. RunFrame(p, op, Frame(6, op.status % WordMod, 0, 0))
    BY <1>1 DEF Step, Exec, ExecExit, Opcodes
  <2>2. SysExit(p, op.status % WordMod)
    BY <2>1, EntryCalls DEF RunFrame
  <2>3. AsInt(op.status % WordMod) = op.status
    BY <1>1, ProcessAssumption, IntRoundTrip
  <2>4. last'.error = "OK" /\ last'.exits = TRUE /\ last'.status = op.status
    BY <2>2, <2>3 DEF SysExit
  <2>5. /\ exited' = [exited EXCEPT ![p] = @ \/ last'.exits]
        /\ exitStatus' = [exitStatus EXCEPT ![p] = IF last'.exits THEN last'.status ELSE @]
        /\ outcome' = outcome
    BY <2>1, <2>4 DEF RunFrame
  <2>6. p \in DOMAIN exited /\ p \in DOMAIN exitStatus
    BY <1>1 DEF IInv, TypeOK
  <2> QED
    BY <2>4, <2>5, <2>6, Zenon
<1>2. IInv => \A p \in Process, op \in Op :
          /\ op.opcode = "EXIT" /\ Step(p, op)
          /\ -IntMod <= 2 * op.status /\ 2 * op.status < IntMod
          => exited'[p] /\ exitStatus'[p] = op.status /\ outcome' = outcome
  BY <1>1, Zenon
<1> QED
  BY <1>2, Invariant, PTL

-----------------------------------------------------------------------------
(* A process whose latest call was answered EMFILE has every descriptor in *)
(* use, until the next program begins; a run goes on only after an OK.     *)
Full ==
    \A p \in Process :
        /\ lastSyscallError[p] = "EMFILE" => UsedFds(p) = FileFd
        /\ running = p => lastSyscallError[p] = "OK"

LEMMA FullKeeps == IInv /\ Full /\ [Next]_userVars => Full'
<1> SUFFICES ASSUME IInv, Full, [Next]_userVars PROVE Full'
  OBVIOUS
<1>1. ASSUME NEW p \in Process, KuserInitProcess(p) PROVE Full'
  <2>1. running' = running
    BY <1>1 DEF KuserInitProcess, runVars
  <2> QED
    BY <1>1, <2>1, InitProcessEffect DEF Full, UsedFds
<1>2. ASSUME NEW p \in Process, NEW image \in Images, StartRun(p, image) PROVE Full'
  <2>1. CASE UNCHANGED <<files, lastSyscallError, running>>
    BY <2>1 DEF Full, UsedFds
  <2>2. CASE /\ lastSyscallError' = [lastSyscallError EXCEPT ![p] = "OK"]
             /\ running' = p /\ UNCHANGED files
    BY <2>2 DEF Full, UsedFds, IInv, TypeOK
  <2> QED
    BY <1>2, <2>1, <2>2 DEF StartRun, kernelVars, processVars
<1>3. ASSUME NEW p \in Process, NEW op \in Op, Step(p, op) PROVE Full'
  <2>1. running = p /\ TurnEffect(p) /\ Idle \notin Process
    BY <1>3, StepKeeps, ProcessAssumption DEF Step
  <2>2. \A q \in Process \ {p} : UsedFds(q)' = UsedFds(q)
    BY <2>1 DEF TurnEffect, UsedFds
  <2>3. lastSyscallError[p] = "OK"
    BY <2>1 DEF Full
  <2> QED
    BY <2>1, <2>2, <2>3 DEF Full, TurnEffect
<1>4. CASE RunNothing \/ FinishRun \/ UNCHANGED userVars
  <2>1. /\ UNCHANGED <<files, lastSyscallError>>
        /\ running' = running \/ running' = Idle
    BY <1>4 DEF RunNothing, FinishRun, userVars, runVars, kernelVars, processVars
  <2> QED
    BY <2>1, ProcessAssumption DEF Full, UsedFds
<1> QED
  BY <1>1, <1>2, <1>3, <1>4 DEF Next

(* More descriptors than slots cannot all be held by slots.                *)
LEMMA SomeUnheld ==
    ASSUME SlotCount < MaxFiles - FirstFile, NEW p
    PROVE  \E fd \in FileFd : \A s \in Slot : slots[p][s] # fd
<1> SUFFICES ASSUME \A fd \in FileFd : \E s \in Slot : slots[p][s] = fd PROVE FALSE
  OBVIOUS
<1> DEFINE holder == [fd \in FileFd |-> CHOOSE s \in Slot : slots[p][s] = fd]
<1>1. \A fd \in FileFd : holder[fd] \in Slot /\ slots[p][holder[fd]] = fd
  OBVIOUS
<1>2. holder \in [FileFd -> Slot]
  BY <1>1
<1>3. /\ SlotCount \in Nat /\ MaxFiles \in Nat /\ FirstFile = 3
  BY ProcessAssumption, TaskAssumption DEF FirstFile
<1>4. /\ IsFiniteSet(Slot) /\ Cardinality(Slot) = SlotCount
      /\ IsFiniteSet(FileFd) /\ Cardinality(FileFd) = MaxFiles - FirstFile
  <2> DEFINE last1 == SlotCount - 1
             last2 == MaxFiles - 1
  <2>1. last1 \in Int /\ last2 \in Int
    BY <1>3
  <2>2. Slot = 0..last1 /\ FileFd = 3..last2
    BY <1>3 DEF Slot, FileFd
  <2> HIDE DEF last1, last2
  <2>3. /\ IsFiniteSet(0..last1)
        /\ Cardinality(0..last1) = IF 0 > last1 THEN 0 ELSE last1 - 0 + 1
    BY <2>1, FS_Interval
  <2>4. /\ IsFiniteSet(3..last2)
        /\ Cardinality(3..last2) = IF 3 > last2 THEN 0 ELSE last2 - 3 + 1
    BY <2>1, FS_Interval
  <2> QED
    BY <1>3, <2>2, <2>3, <2>4 DEF last1, last2
<1> HIDE DEF holder
<1>5. \E f, g \in FileFd : f # g /\ holder[f] = holder[g]
  BY <1>2, <1>4, FS_PigeonHole
<1> QED
  BY <1>1, <1>5

(* Where there are more descriptors than slots, as in the code (five and   *)
(* four), EMFILE is answered only to a process that has lost some.         *)
THEOREM EmfileAfterLeak ==
    ASSUME SlotCount < MaxFiles - FirstFile
    PROVE  Spec => []EmfileOnlyAfterLeak
<1>1. Init => Full
  BY ProcessAssumption DEF Init, Full
<1>2. Full => EmfileOnlyAfterLeak
  BY SomeUnheld, LeakedIs DEF Full, EmfileOnlyAfterLeak
<1> QED
  BY <1>1, <1>2, FullKeeps, Invariant, PTL DEF Spec

-----------------------------------------------------------------------------
(* klog_putc: what the console shows of a text.                            *)

(* The bytes klog_putc puts out for one of a text.                         *)
Encoded(c) == IF c = NewLine THEN <<Return13, NewLine>> ELSE <<c>>

LEMMA NewLineTypes == NewLine \in Int /\ Return13 \in Int /\ Cell \subseteq Int
BY BootAssumption

LEMMA EncodedType ==
    ASSUME NEW c \in Int
    PROVE  Encoded(c) \in Seq(Int)
BY NewLineTypes DEF Encoded

LEMMA CrlfPieces ==
    ASSUME NEW text \in Seq(Int)
    PROVE  /\ [i \in 1..Len(text) |-> Encoded(text[i])] \in Pieces
           /\ Crlf(text) = FlattenSeq([i \in 1..Len(text) |-> Encoded(text[i])])
<1>1. \A i \in 1..Len(text) : Encoded(text[i]) \in Seq(Int)
  BY EncodedType
<1>2. Len(text) \in Nat
  OBVIOUS
<1>3. [i \in 1..Len(text) |-> Encoded(text[i])] \in Pieces
  BY <1>1, <1>2 DEF Pieces
<1> QED
  BY <1>3 DEF Crlf, Encoded

LEMMA CrlfType ==
    ASSUME NEW text \in Seq(Int)
    PROVE  Crlf(text) \in Seq(Int)
BY CrlfPieces, FlattenType

LEMMA CrlfEmpty == Crlf(<< >>) = << >>
<1>1. [i \in 1..0 |-> Encoded(<< >>[i])] = << >>
  OBVIOUS
<1>2. << >> \in Seq(Int) /\ Len(<< >>) = 0
  OBVIOUS
<1> QED
  BY <1>1, <1>2, CrlfPieces, FlattenEmpty

LEMMA CrlfAppend ==
    ASSUME NEW text \in Seq(Int), NEW c \in Int
    PROVE  Crlf(Append(text, c)) = Crlf(text) \o Encoded(c)
<1> DEFINE longer == Append(text, c)
           ss == [i \in 1..Len(text) |-> Encoded(text[i])]
           tt == [i \in 1..Len(longer) |-> Encoded(longer[i])]
<1>1. longer \in Seq(Int)
  OBVIOUS
<1>2. ss \in Pieces /\ Crlf(text) = FlattenSeq(ss) /\ Crlf(longer) = FlattenSeq(tt)
  BY <1>1, CrlfPieces
<1>3. Encoded(c) \in Seq(Int)
  BY EncodedType
<1>4. tt = Append(ss, Encoded(c))
  <2>1. /\ Len(longer) = Len(text) + 1 /\ longer[Len(text) + 1] = c
        /\ \A i \in 1..Len(text) : longer[i] = text[i]
    OBVIOUS
  <2>2. Len(text) \in Nat
    OBVIOUS
  <2> HIDE DEF longer
  <2>3. tt = [i \in 1..(Len(text) + 1) |->
                IF i = Len(text) + 1 THEN Encoded(c) ELSE Encoded(text[i])]
    BY <2>1, <2>2
  <2> HIDE DEF tt
  <2>4. DOMAIN ss = 1..Len(text) /\ Len(ss) = Len(text)
    BY <1>2, <2>2 DEF Pieces
  <2>5. Append(ss, Encoded(c)) =
          [i \in 1..(Len(ss) + 1) |-> IF i = Len(ss) + 1 THEN Encoded(c) ELSE ss[i]]
    BY <1>2, <1>3 DEF Pieces
  <2> QED
    BY <2>2, <2>3, <2>4, <2>5
<1> HIDE DEF ss, tt, longer
<1>5. FlattenSeq(tt) = FlattenSeq(ss) \o Encoded(c)
  BY <1>2, <1>3, <1>4, FlattenAppend
<1> QED
  BY <1>2, <1>5 DEF longer

(* What is written in two calls comes out as if written in one.            *)
LEMMA CrlfConcat ==
    ASSUME NEW s \in Seq(Int), NEW t \in Seq(Int)
    PROVE  Crlf(s \o t) = Crlf(s) \o Crlf(t)
<1> DEFINE S == {n \in Nat : \A u \in Seq(Int) :
                   Len(u) = n => Crlf(s \o u) = Crlf(s) \o Crlf(u)}
<1>1. 0 \in S
  <2> SUFFICES ASSUME NEW u \in Seq(Int), Len(u) = 0
               PROVE  Crlf(s \o u) = Crlf(s) \o Crlf(u)
    OBVIOUS
  <2>1. u = << >> /\ s \o u = s
    OBVIOUS
  <2>2. Crlf(s) \o << >> = Crlf(s)
    BY CrlfType
  <2> QED
    BY <2>1, <2>2, CrlfEmpty
<1>2. ASSUME NEW n \in Nat, n \in S PROVE n + 1 \in S
  <2> SUFFICES ASSUME NEW u \in Seq(Int), Len(u) = n + 1
               PROVE  Crlf(s \o u) = Crlf(s) \o Crlf(u)
    OBVIOUS
  <2> DEFINE front == SubSeq(u, 1, n)
             c     == u[n + 1]
  <2>1. front \in Seq(Int) /\ Len(front) = n /\ c \in Int /\ u = Append(front, c)
    OBVIOUS
  <2> HIDE DEF front, c
  <2>2. s \o u = Append(s \o front, c) /\ s \o front \in Seq(Int)
    BY <2>1
  <2>3. Crlf(s \o u) = Crlf(s \o front) \o Encoded(c)
    BY <2>1, <2>2, CrlfAppend
  <2>4. Crlf(s \o front) = Crlf(s) \o Crlf(front)
    BY <1>2, <2>1
  <2>5. Crlf(u) = Crlf(front) \o Encoded(c)
    BY <2>1, CrlfAppend
  <2>6. Crlf(s) \in Seq(Int) /\ Crlf(front) \in Seq(Int) /\ Encoded(c) \in Seq(Int)
    BY <2>1, CrlfType, EncodedType
  <2>7. (Crlf(s) \o Crlf(front)) \o Encoded(c) = Crlf(s) \o (Crlf(front) \o Encoded(c))
    BY <2>6, ConcatAssoc
  <2> QED
    BY <2>3, <2>4, <2>5, <2>7
<1> HIDE DEF S
<1>3. Nat \subseteq S
  BY <1>1, <1>2, SetInduction
<1>4. Len(t) \in S
  BY <1>3
<1> QED
  BY <1>4 DEF S

-----------------------------------------------------------------------------
(* The serial port and the table registers.                                *)

(* The serial port: before arch_early_init it is idle with DLAB clear,     *)
(* after it the line stays at 38400 8N1.  A byte is put into an empty      *)
(* buffer only, so none is dropped and none overtakes another.             *)
SerialOK ==
    /\ uart \in UartState /\ Len(uart.fifo) <= FifoSize /\ ~uart.dlab
    /\ pending \in Seq(Int) /\ printed \in Seq(Int) /\ wire \in Seq(Int)
    /\ NothingLost
    /\ IF at = "start" THEN pending = << >> /\ uart.fifo = << >>
                       ELSE uart.divisor = 3 /\ uart.format = 3

(* An idle port at 38400 8N1.                                              *)
IdlePort(u) ==
    /\ u \in UartState /\ u.fifo = << >> /\ ~u.dlab
    /\ u.divisor = 3 /\ u.format = 3

(* What arch_serial_init makes of an idle port with DLAB clear.            *)
LEMMA SerialInitSets ==
    ASSUME NEW u \in UartState, u.fifo = << >>, ~u.dlab
    PROVE  IdlePort(SerialInit(u))
<1> 0 \in Int /\ 3 \in Int /\ 11 \in Int /\ 128 \in Int /\ 199 \in Int
  OBVIOUS
<1>1. PICK a : a = Outb(u, "INTERRUPT", 0)
  OBVIOUS
<1>2. a \in UartState /\ a.fifo = << >>
  <2>1. Registers(a, u.fifo, u.dlab, u.divisor, u.format)
    BY <1>1, OutbEffect, Zenon
  <2> QED
    BY <2>1 DEF Registers
<1>3. PICK b : b = Outb(a, "LINE_CONTROL", 128)
  OBVIOUS
<1>4. b \in UartState /\ b.fifo = << >> /\ b.dlab
  <2>1. Registers(b, a.fifo, 128 >= 128, a.divisor, 128 % 128)
    BY <1>2, <1>3, OutbEffect, Zenon
  <2>2. b \in UartState /\ b.fifo = a.fifo /\ b.dlab = (128 >= 128)
    BY <2>1, Zenon DEF Registers
  <2>3. (128 >= 128) = TRUE
    OBVIOUS
  <2> QED
    BY <1>2, <2>2, <2>3, Zenon
<1>5. PICK c : c = Outb(b, "DATA", 3)
  OBVIOUS
<1>6. c \in UartState /\ c.fifo = << >> /\ c.divisor = 3
  <2>1. Registers(c, b.fifo, TRUE, 3, b.format)
    BY <1>4, <1>5, OutbEffect, Zenon
  <2> QED
    BY <1>4, <2>1 DEF Registers
<1>7. PICK d : d = Outb(c, "INTERRUPT", 0)
  OBVIOUS
<1>8. d \in UartState /\ d.fifo = << >> /\ d.divisor = 3
  <2>1. Registers(d, c.fifo, c.dlab, c.divisor, c.format)
    BY <1>6, <1>7, OutbEffect, Zenon
  <2> QED
    BY <1>6, <2>1 DEF Registers
<1>9. PICK e : e = Outb(d, "LINE_CONTROL", 3)
  OBVIOUS
<1>10. IdlePort(e)
  <2>1. Registers(e, d.fifo, 3 >= 128, d.divisor, 3 % 128)
    BY <1>8, <1>9, OutbEffect, Zenon
  <2>2. /\ e \in UartState /\ e.fifo = d.fifo /\ e.dlab = (3 >= 128)
        /\ e.divisor = d.divisor /\ e.format = 3 % 128
    BY <2>1, Zenon DEF Registers
  <2>3. 3 % 128 = 3 /\ (3 >= 128) = FALSE
    OBVIOUS
  <2> QED
    BY <1>8, <2>2, <2>3, Zenon DEF IdlePort
<1>11. PICK f : f = Outb(e, "FIFO", 199)
  OBVIOUS
<1>12. IdlePort(f)
  <2>1. Registers(f, << >>, e.dlab, e.divisor, e.format)
    BY <1>10, <1>11, OutbEffect, Zenon DEF IdlePort
  <2> QED
    BY <1>10, <2>1 DEF Registers, IdlePort
<1>13. PICK g : g = Outb(f, "MODEM_CONTROL", 11)
  OBVIOUS
<1>14. IdlePort(g)
  <2>1. Registers(g, f.fifo, f.dlab, f.divisor, f.format)
    BY <1>12, <1>13, OutbEffect, Zenon DEF IdlePort
  <2> QED
    BY <1>12, <2>1 DEF Registers, IdlePort
<1>15. SerialInit(u) = g
  BY <1>1, <1>3, <1>5, <1>7, <1>9, <1>11, <1>13, Zenon DEF SerialInit
<1> QED
  BY <1>14, <1>15

(* The UART sends: what it holds and what has arrived stay one sequence.   *)
LEMMA DrainKeeps ==
    ASSUME SerialOK, Drain
    PROVE  SerialOK'
<1>1. uart \in UartState /\ uart.fifo \in Seq(Int) /\ uart.fifo # << >>
  BY DEF SerialOK, UartState, Drain
<1>2. PICK b, rest : b = Head(uart.fifo) /\ rest = Tail(uart.fifo)
  OBVIOUS
<1>3. at # "start"
  BY <1>1 DEF SerialOK
<1>4. /\ uart' \in UartState /\ uart'.fifo = rest /\ uart'.dlab = uart.dlab
      /\ uart'.divisor = uart.divisor /\ uart'.format = uart.format
      /\ wire' = Append(wire, b)
  <2>1. Arriving(uart) = b /\ Sent(uart) = uart'
    BY <1>1, <1>2, <1>3, SentEffect DEF Drain, SerialOK
  <2>2. wire' = Append(wire, b)
    BY <2>1, Zenon DEF Drain
  <2> QED
    BY <1>1, <1>2, <2>1, <2>2, SentEffect, Zenon
<1>5. PICK held \in Seq(Int) : held = uart.fifo
  BY <1>1
<1>8. /\ b \in Int /\ rest \in Seq(Int) /\ Len(rest) < Len(uart.fifo)
      /\ Append(wire, b) \in Seq(Int) /\ Append(wire, b) \o rest = wire \o uart.fifo
  <2>1. held # << >> /\ b = Head(held) /\ rest = Tail(held) /\ wire \in Seq(Int)
    BY <1>1, <1>2, <1>5, Zenon DEF SerialOK
  <2>2. b \in Int /\ rest \in Seq(Int) /\ Len(rest) < Len(held)
    BY <2>1
  <2>3. Append(wire, b) \in Seq(Int) /\ Append(wire, b) \o rest = wire \o held
    BY <2>1, <2>2
  <2> QED
    BY <2>2, <2>3, <1>5
<1>6. Len(uart'.fifo) <= FifoSize
  BY <1>1, <1>4, <1>8, FifoAssumption DEF SerialOK
<1>7. at' = at /\ pending' = pending /\ printed' = printed
  BY DEF Drain
<1> QED
  BY <1>3, <1>4, <1>6, <1>7, <1>8 DEF SerialOK, NothingLost

(* The kernel puts a byte into an empty buffer.                            *)
LEMMA PutByteKeeps ==
    ASSUME SerialOK, PutByte
    PROVE  SerialOK'
<1>1. PICK b \in Int, rest \in Seq(Int) : b = Head(pending) /\ rest = Tail(pending)
  <2>1. pending \in Seq(Int) /\ pending # << >>
    BY DEF SerialOK, PutByte
  <2>2. Head(pending) \in Int /\ Tail(pending) \in Seq(Int)
    BY <2>1
  <2> QED
    BY <2>2, Zenon
<1>2. at # "start" /\ uart.fifo = << >> /\ 1 <= FifoSize /\ uart \in UartState
  BY FifoAssumption DEF SerialOK, PutByte, CanTransmit
<1>5. /\ uart' \in UartState /\ uart'.fifo = <<b>> /\ ~uart'.dlab
      /\ uart'.divisor = uart.divisor /\ uart'.format = uart.format
  <2>1. uart' = Outb(uart, "DATA", b) /\ ~uart.dlab
    BY <1>1 DEF PutByte, SerialOK
  <2> QED
    BY <1>2, <2>1, OutbEffect DEF Registers
<1>6. /\ pending' = rest /\ printed' = Append(printed, b) /\ wire' = wire /\ at' = at
  BY <1>1 DEF PutByte
<1>7. /\ printed' \in Seq(Int) /\ wire \o <<b>> = Append(wire, b) /\ wire = printed
      /\ Len(<<b>>) = 1
  BY <1>2, <1>6 DEF SerialOK, NothingLost
<1> QED
  BY <1>2, <1>5, <1>6, <1>7 DEF SerialOK, NothingLost

(* A step of kernel_start leaves the port alone once it is initialised.    *)
LEMMA GotoKeeps ==
    ASSUME SerialOK, NEW here, NEW next, NEW text \in Seq(Int),
           Goto(here, next, text), here # "start", next # "start", uart' = uart
    PROVE  SerialOK'
BY DEF Goto, SerialOK, UartState, NothingLost

LEMMA EarlyInitKeeps ==
    ASSUME SerialOK, EarlyInit
    PROVE  SerialOK'
<1>1. /\ at = "start" /\ at' = "copy" /\ pending' = << >>
      /\ uart' = SerialInit(uart) /\ UNCHANGED <<printed, wire>>
  BY DEF EarlyInit, Goto
<1>2. FifoSize \in Nat /\ Len(<< >>) = 0 /\ << >> \in Seq(Int)
  BY FifoAssumption
<1>4. /\ uart' \in UartState /\ uart'.fifo = << >> /\ ~uart'.dlab
      /\ uart'.divisor = 3 /\ uart'.format = 3
  BY <1>1, SerialInitSets DEF SerialOK, IdlePort
<1> QED
  BY <1>1, <1>2, <1>4 DEF SerialOK, NothingLost

-----------------------------------------------------------------------------
(* The tables arch_early_init loads hold what arch.h says of them.         *)
LEMMA DefaultTableSound ==
    \A name \in DOMAIN Selector :
      LET selector == Selector[name]
          entry    == DefaultTable[selector \div 8]
      IN  /\ InTable(selector, GdtrLimit(GdtDefaultEntries))
          /\ Present(entry) /\ IsSegment(entry) /\ Ring(entry) = selector % 4
          /\ Executable(entry) <=> name \in {"kernelCode", "userCode"}
          /\ LongMode(entry) <=> Executable(entry)
          /\ Default32(entry) <=> ~Executable(entry)
          /\ ReadWrite(entry) /\ CoversMemory(entry)
<1> DEFINE Entry(access, high) ==
             [limitLow |-> 65535, baseLow |-> 0, baseMid |-> 0, access |-> access,
              limitHighFlags |-> high, baseHigh |-> 0]
<1>1. /\ CodeSegment(0) = Entry(154, 175) /\ DataSegment(0) = Entry(146, 207)
      /\ CodeSegment(3) = Entry(250, 175) /\ DataSegment(3) = Entry(242, 207)
  BY SMT DEF CodeSegment, DataSegment, GdtEntrySet, RingBits, M8, M16
<1>2. /\ DefaultTable[1] = Entry(154, 175) /\ DefaultTable[2] = Entry(146, 207)
      /\ DefaultTable[3] = Entry(250, 175) /\ DefaultTable[4] = Entry(242, 207)
  BY <1>1 DEF DefaultTable, GdtIndex, GdtDefaultEntries
<1>3. /\ Selector.kernelCode = 8 /\ Selector.kernelData = 16
      /\ Selector.userCode = 27 /\ Selector.userData = 35
      /\ DOMAIN Selector = {"kernelCode", "kernelData", "userCode", "userData"}
  BY DEF Selector, GdtIndex
<1>4. GdtrLimit(GdtDefaultEntries) = 39
  BY SMT DEF GdtrLimit, TableLimit, GdtDefaultEntries, M16
<1> QED
  BY <1>2, <1>3, <1>4
     DEF InTable, Present, IsSegment, Ring, Executable, ReadWrite, LongMode, Default32,
         InPages, CoversMemory, EntryBase, EntryLimit, EntryFlags, M16, M8

-----------------------------------------------------------------------------
(* kernel_start, place by place.                                           *)

Places == {"start", "copy", "write", "announce", "init", "launch", "run", "verdict",
           "halt", "halted"}

(* The runtime under the kernel's start: sound from the moment init_process *)
(* has been initialised; before that its slots hold anything.              *)
RuntimeOK ==
    /\ TypeOK /\ OpenFilesSound /\ RuntimeChecksSuffice
    /\ at \in {"launch", "run", "verdict"} => SlotsOwnDescriptors

BootInv ==
    /\ program \in Programs /\ at \in Places
    /\ RuntimeOK
    /\ SerialOK
    /\ SelectorsLoaded

LEMMA BootConstants ==
    /\ InitProcess \in Process /\ Process = {InitProcess} /\ InitProcess # Idle
    /\ BannerTask \in Task /\ BannerTask # NoTask
    /\ UserBase[BannerTask] \in Nat /\ Len(Banner) \in Nat
    /\ Banner \in Seq(Cell) /\ UserLen[BannerTask] = Len(Banner)
    /\ 0 \in Cell /\ Cell \subseteq Int /\ NewLine \in Cell
<1>1. /\ InitProcess \in Process /\ Process = {InitProcess} /\ BannerTask \in Task
      /\ UserLen[BannerTask] = Len(Banner)
  BY BootAssumption
<1>2. Banner \in Seq(Cell) /\ Cell \subseteq Int /\ NewLine \in Cell
  BY BootAssumption
<1>3. BannerTask # NoTask /\ UserBase[BannerTask] \in Nat
  BY <1>1, TaskAssumption DEF Addr
<1>4. Len(Banner) \in Nat
  BY <1>2
<1>5. InitProcess # Idle /\ 0 \in Cell
  BY <1>1, ProcessAssumption
<1> QED
  BY <1>1, <1>2, <1>3, <1>4, <1>5

(* A sequence of cells is one of integers.                                 *)
LEMMA CellSeq ==
    ASSUME NEW s \in Seq(Cell)
    PROVE  s \in Seq(Int)
<1>1. Len(s) \in Nat /\ s = [i \in 1..Len(s) |-> s[i]] /\ \A i \in 1..Len(s) : s[i] \in Cell
  OBVIOUS
<1>2. \A i \in 1..Len(s) : s[i] \in Int
  BY <1>1, BootConstants
<1> QED
  BY <1>1, <1>2

LEMMA TextTypes ==
    /\ \A text \in {Online, Clean, Failed, CopyFailed, WriteFailed} :
          text \in Seq(Cell) /\ Line(text) \in Seq(Int)
    /\ Crlf(Banner) \in Seq(Int) /\ Crlf(<<NewLine>>) \in Seq(Int)
    /\ Crlf(<<NewLine>>) \o Line(Online) \in Seq(Int)
<1>1. ASSUME NEW text \in {Online, Clean, Failed, CopyFailed, WriteFailed}
      PROVE  text \in Seq(Cell) /\ Line(text) \in Seq(Int)
  <2>1. text \in Seq(Cell) /\ NewLine \in Cell
    BY BootAssumption
  <2>2. Append(text, NewLine) \in Seq(Cell)
    BY <2>1
  <2> QED
    BY <2>1, <2>2, CellSeq, CrlfType DEF Line
<1>2. Crlf(Banner) \in Seq(Int)
  BY BootConstants, CellSeq, CrlfType
<1>3. Crlf(<<NewLine>>) \in Seq(Int)
  <2>1. <<NewLine>> \in Seq(Int)
    BY BootConstants
  <2> QED
    BY <2>1, CrlfType
<1>4. Crlf(<<NewLine>>) \o Line(Online) \in Seq(Int)
  BY <1>1, <1>3
<1> QED
  BY <1>1, <1>2, <1>3, <1>4

LEMMA BootInitInv == BootInit => BootInv
<1> SUFFICES ASSUME BootInit PROVE BootInv
  OBVIOUS
<1> USE DEF BootInit
<1>1. mounted \in Seq(Node)
  OBVIOUS
<1>2. files \in [Task -> [0..(MaxFiles - 1) -> OpenFile]]
  BY DEF OpenFile
<1>3. mem \in [Addr -> Cell]
  BY ProcessAssumption
<1>4. last \in [task : Task \cup {NoTask}, value : Int, error : Errors,
                bytes : Seq(Cell), exits : BOOLEAN, status : Int]
  BY DEF Result, Errors
<1>5. KernelTypeOK
  BY <1>1, <1>2, <1>3, <1>4 DEF KernelTypeOK
<1>6. slots \in [Process -> [Slot -> {-1} \cup FileFd]]
  <2>1. {-1, FirstFile} \subseteq {-1} \cup FileFd
    BY BootAssumption, TaskAssumption DEF FileFd, FirstFile
  <2>2. slots \in [Process -> [Slot -> {-1, FirstFile}]]
    OBVIOUS
  <2> HIDE DEF BootInit
  <2> QED
    BY <2>1, <2>2
<1>7. /\ exitStatus \in [Process -> Int] /\ lastError \in [Process -> RuntimeErrors]
      /\ lastSyscallError \in [Process -> Errors]
  BY DEF RuntimeErrors, Errors
<1>8. TypeOK
  BY <1>5, <1>6, <1>7, ProcessAssumption DEF TypeOK, RuntimeErrors
<1>9. OpenFilesSound
  BY DEF OpenFilesSound, FreeFile
<1>10. RuntimeChecksSuffice
  BY DEF RuntimeChecksSuffice
<1>11. RuntimeOK
  BY <1>8, <1>9, <1>10 DEF RuntimeOK
<1>12. SerialOK
  <2>1. uart \in UartState /\ uart.fifo = << >> /\ ~uart.dlab
    <3>1. uart \in [fifo : {<< >>}, dlab : {FALSE}, divisor : {1, 3},
                    format : {0, 3}, interrupts : BOOLEAN]
      OBVIOUS
    <3>2. << >> \in Seq(Int)
      OBVIOUS
    <3> HIDE DEF BootInit
    <3>3. {FALSE} \subseteq BOOLEAN /\ {1, 3} \subseteq Int /\ {0, 3} \subseteq Int
      OBVIOUS
    <3>4. uart \in UartState
      BY <3>1, <3>2, <3>3 DEF UartState
    <3>5. uart.fifo \in {<< >>} /\ uart.dlab \in {FALSE}
      BY <3>1
    <3> QED
      BY <3>4, <3>5, Zenon
  <2>2. Len(<< >>) = 0 /\ FifoSize \in Nat /\ << >> \in Seq(Int)
    BY FifoAssumption
  <2> QED
    BY <2>1, <2>2 DEF SerialOK, NothingLost
<1>13. SelectorsLoaded
  BY DEF SelectorsLoaded
<1> QED
  BY <1>11, <1>12, <1>13 DEF BootInv, Places

-----------------------------------------------------------------------------
(* Every step of kernel_start but the first leaves the tables and the      *)
(* initialised port as they are.                                           *)
LEMMA PlaceStep ==
    ASSUME BootInv, NEW here \in Places \ {"start"}, NEW next \in Places \ {"start"},
           NEW text \in Seq(Int), Goto(here, next, text), UNCHANGED <<uart, tables>>,
           RuntimeOK'
    PROVE  BootInv'
<1>1. SerialOK'
  BY GotoKeeps DEF BootInv
<1>2. SelectorsLoaded'
  BY DEF BootInv, SelectorsLoaded, Goto
<1>3. program' = program /\ at' = next
  BY DEF Goto
<1> QED
  BY <1>1, <1>2, <1>3 DEF BootInv

(* A step that takes nothing of the runtime along.                         *)
LEMMA RuntimeUntouched ==
    ASSUME RuntimeOK, UNCHANGED userVars,
           at' \in {"launch", "run", "verdict"} => SlotsOwnDescriptors
    PROVE  RuntimeOK'
BY DEF RuntimeOK, userVars, kernelVars, processVars, runVars, TypeOK, KernelTypeOK,
       OpenFilesSound, RuntimeChecksSuffice, SlotsOwnDescriptors

LEMMA EarlyInitInv ==
    ASSUME BootInv, EarlyInit
    PROVE  BootInv'
<1>1. SerialOK'
  BY EarlyInitKeeps DEF BootInv
<1>2. RuntimeOK'
  BY RuntimeUntouched DEF BootInv, EarlyInit, Goto
<1>3. SelectorsLoaded'
  <2>1. /\ tables'.gdt = DefaultTable
        /\ tables'.gdtLimit = GdtrLimit(GdtDefaultEntries)
    BY DEF EarlyInit
  <2> QED
    BY <2>1, DefaultTableSound DEF SelectorsLoaded
<1>4. program' = program /\ at' = "copy"
  BY DEF EarlyInit, Goto
<1> QED
  BY <1>1, <1>2, <1>3, <1>4 DEF BootInv, Places

LEMMA CopyBannerInv ==
    ASSUME BootInv, CopyBanner
    PROVE  BootInv'
<1>1. mem' \in [Addr -> Cell]
  <2>1. mem \in [Addr -> Cell]
    BY DEF BootInv, RuntimeOK, TypeOK, KernelTypeOK
  <2>2. Append(Banner, 0) \in Seq(Cell) /\ UserBase[BannerTask] \in Nat
    BY BootConstants
  <2> QED
    BY <2>1, <2>2, StoreType DEF CopyBanner
<1>2. UNCHANGED <<mounted, files, last, processVars, runVars, uart, tables>>
  BY DEF CopyBanner
<1>3. at' \in {"write", "halt"}
  BY DEF CopyBanner, Goto
<1>4. RuntimeOK'
  BY <1>1, <1>2, <1>3 DEF BootInv, RuntimeOK, processVars, runVars, TypeOK, KernelTypeOK,
       OpenFilesSound, RuntimeChecksSuffice
<1>5. Line(CopyFailed) \in Seq(Int) /\ << >> \in Seq(Int)
  BY TextTypes
<1> QED
  BY <1>2, <1>4, <1>5, PlaceStep DEF CopyBanner, Places

LEMMA WriteBannerInv ==
    ASSUME BootInv, WriteBanner
    PROVE  BootInv'
<1> DEFINE regs == [nr |-> 1, arg0 |-> 1, arg1 |-> UserBase[BannerTask],
                    arg2 |-> Len(Banner)]
<1>1. regs \in [nr : Nat, arg0 : Nat, arg1 : Nat, arg2 : Nat]
  BY BootConstants
<1>2. KernelOK /\ KsyscallDispatch(BannerTask, regs) /\ BannerTask \in Task \cup {NoTask}
  BY BootConstants DEF WriteBanner, BootInv, RuntimeOK, TypeOK, KernelOK
<1> HIDE DEF regs
<1>3. KernelTypeOK' /\ OpenFilesSound'
  BY <1>1, <1>2, DispatchKeeps DEF CallKeeps, KernelOK
<1>4. UNCHANGED <<processVars, runVars, uart, tables>> /\ at' \in {"announce", "halt"}
  BY DEF WriteBanner, Goto
<1>5. RuntimeOK'
  BY <1>3, <1>4 DEF BootInv, RuntimeOK, processVars, runVars, TypeOK, RuntimeChecksSuffice
<1>6. last'.bytes \in Seq(Cell)
  BY <1>3 DEF KernelTypeOK
<1>7. Line(WriteFailed) \in Seq(Int) /\ Crlf(last'.bytes) \in Seq(Int)
  BY <1>6, TextTypes, CellSeq, CrlfType
<1> QED
  BY <1>4, <1>5, <1>7, PlaceStep DEF WriteBanner, Places

LEMMA AnnounceInv ==
    ASSUME BootInv, Announce
    PROVE  BootInv'
<1>1. RuntimeOK'
  BY RuntimeUntouched DEF BootInv, Announce, Goto
<1> QED
  BY <1>1, TextTypes, PlaceStep DEF Announce, Places

LEMMA InitInitInv ==
    ASSUME BootInv, InitInit
    PROVE  BootInv'
<1>1. IInv'
  BY BootConstants, InitProcessKeeps DEF BootInv, RuntimeOK, InitInit
<1>2. RuntimeOK' /\ << >> \in Seq(Int)
  BY <1>1 DEF IInv, RuntimeOK
<1> QED
  BY <1>2, PlaceStep DEF InitInit, Places

LEMMA LaunchInv ==
    ASSUME BootInv, Launch
    PROVE  BootInv'
<1>1. IInv /\ program.image \in Images
  BY BootAssumption DEF BootInv, RuntimeOK, IInv, Launch, Goto
<1>2. IInv'
  BY <1>1, BootConstants, StartRunKeeps DEF Launch
<1>3. RuntimeOK' /\ << >> \in Seq(Int)
  BY <1>2 DEF IInv, RuntimeOK
<1>4. (IF running' = Idle THEN "verdict" ELSE "run") \in Places \ {"start"}
  BY DEF Places
<1> QED
  BY <1>3, <1>4, PlaceStep DEF Launch, Places

LEMMA RunOpInv ==
    ASSUME BootInv, RunOp
    PROVE  BootInv'
<1>1. IInv
  BY DEF BootInv, RuntimeOK, IInv, RunOp, Goto
<1>2. program.ops[ip + 1] \in Op
  <2>1. program.ops \in Seq(Op) /\ ip \in Nat /\ ip < Len(program.ops)
    BY BootAssumption, ProcessAssumption DEF BootInv, RuntimeOK, TypeOK, RunOp
  <2> QED
    BY <2>1
<1>3. IInv'
  BY <1>1, <1>2, BootConstants, StepKeeps DEF RunOp
<1>4. RuntimeOK' /\ last'.bytes \in Seq(Cell)
  BY <1>3 DEF IInv, RuntimeOK, TypeOK, KernelTypeOK
<1>5. (IF ip' = ip + 1 THEN Crlf(last'.bytes) ELSE << >>) \in Seq(Int)
  <2>1. Crlf(last'.bytes) \in Seq(Int) /\ << >> \in Seq(Int)
    BY <1>4, CellSeq, CrlfType
  <2> QED
    BY <2>1
<1>6. (IF running' = Idle THEN "verdict" ELSE "run") \in Places \ {"start"}
  BY DEF Places
<1> QED
  BY <1>4, <1>5, <1>6, PlaceStep DEF RunOp, Places

LEMMA EndRunInv ==
    ASSUME BootInv, EndRun
    PROVE  BootInv'
<1>1. IInv
  BY DEF BootInv, RuntimeOK, IInv, EndRun, Goto
<1>2. /\ running' \in Process \cup {Idle} /\ ip' \in 0..MaxOps
      /\ outcome' \in RuntimeErrors
  BY ProcessAssumption DEF EndRun, FinishRun, RuntimeErrors
<1>3. IInv'
  BY <1>1, <1>2, RunOnlyKeeps DEF EndRun, FinishRun
<1>4. RuntimeOK' /\ << >> \in Seq(Int)
  BY <1>3 DEF IInv, RuntimeOK
<1> QED
  BY <1>4, PlaceStep DEF EndRun, Places

LEMMA VerdictInv ==
    ASSUME BootInv, Verdict
    PROVE  BootInv'
<1>1. RuntimeOK'
  BY RuntimeUntouched DEF BootInv, Verdict, Goto
<1>2. Line(IF InitOk THEN Clean ELSE Failed) \in Seq(Int)
  BY TextTypes
<1> QED
  BY <1>1, <1>2, PlaceStep DEF Verdict, Places

LEMMA HaltInv ==
    ASSUME BootInv, Halt
    PROVE  BootInv'
<1>1. RuntimeOK' /\ << >> \in Seq(Int)
  BY RuntimeUntouched DEF BootInv, Halt, Goto
<1> QED
  BY <1>1, PlaceStep DEF Halt, Places

(* The port's own steps.                                                   *)
LEMMA PortInv ==
    ASSUME BootInv, PutByte \/ Drain
    PROVE  BootInv'
<1>1. SerialOK'
  BY PutByteKeeps, DrainKeeps DEF BootInv
<1>2. UNCHANGED <<userVars, at, program, tables>>
  BY DEF PutByte, Drain
<1>3. RuntimeOK'
  BY <1>2, RuntimeUntouched DEF BootInv, RuntimeOK
<1>4. SelectorsLoaded'
  BY <1>2 DEF BootInv, SelectorsLoaded
<1> QED
  BY <1>1, <1>2, <1>3, <1>4 DEF BootInv

LEMMA BootNextInv == BootInv /\ [BootNext]_bootVars => BootInv'
<1> SUFFICES ASSUME BootInv, [BootNext]_bootVars PROVE BootInv'
  OBVIOUS
<1>1. CASE EarlyInit \/ CopyBanner \/ WriteBanner \/ Announce
  BY <1>1, EarlyInitInv, CopyBannerInv, WriteBannerInv, AnnounceInv
<1>2. CASE InitInit \/ Launch \/ RunOp \/ EndRun
  BY <1>2, InitInitInv, LaunchInv, RunOpInv, EndRunInv
<1>3. CASE Verdict \/ Halt \/ PutByte \/ Drain
  BY <1>3, VerdictInv, HaltInv, PortInv
<1>4. CASE UNCHANGED bootVars
  <2>1. UNCHANGED <<userVars, at, program, pending, printed, uart, wire, tables>>
    BY <1>4 DEF bootVars, machineVars
  <2>2. RuntimeOK'
    BY <2>1, RuntimeUntouched DEF BootInv, RuntimeOK
  <2>3. SerialOK' /\ SelectorsLoaded'
    BY <2>1 DEF BootInv, SerialOK, NothingLost, SelectorsLoaded
  <2> QED
    BY <2>1, <2>2, <2>3 DEF BootInv
<1> QED
  BY <1>1, <1>2, <1>3, <1>4 DEF BootNext, Kernel

LEMMA BootInvariant == BootSpec => []BootInv
BY BootInitInv, BootNextInv, PTL DEF BootSpec

(* Type correctness of the kernel's start and of the runtime under it.     *)
THEOREM BootTypeCorrect == BootSpec => []BootTypeOK
<1>1. BootInv => BootTypeOK
  BY DEF BootInv, RuntimeOK, SerialOK, Places, BootTypeOK
<1> QED
  BY <1>1, BootInvariant, PTL

(* No byte is lost or overtaken between the kernel and the wire, for any   *)
(* texts, program and buffer: the port is polled before every byte and     *)
(* programmed before the first (arch_serial_init, arch_serial_putc).       *)
THEOREM SerialKeepsBytes == BootSpec => []NothingLost
<1>1. BootInv => NothingLost
  BY DEF BootInv, SerialOK
<1> QED
  BY <1>1, BootInvariant, PTL

(* Every selector of arch.h names what it should in the loaded table.      *)
THEOREM SelectorsSound == BootSpec => []SelectorsLoaded
<1>1. BootInv => SelectorsLoaded
  BY DEF BootInv
<1> QED
  BY <1>1, BootInvariant, PTL

-----------------------------------------------------------------------------
(* One op of the init program, whatever it is.                             *)

(* A call that succeeds: the loop goes on to the next op.                  *)
CallDone ==
    /\ ip' = ip + 1 /\ running' = running /\ outcome' = outcome
    /\ exited'[InitProcess] = (exited[InitProcess] \/ last'.exits)
    /\ exitStatus'[InitProcess] =
          IF last'.exits THEN last'.status ELSE exitStatus[InitProcess]

LEMMA FrameDone ==
    ASSUME IInv, NEW op, NEW frame, RunFrame(InitProcess, op, frame), last'.error = "OK"
    PROVE  CallDone /\ slots' = SlotsAfter(InitProcess, op, last'.value)
<1>1. InitProcess \in Process
  BY BootConstants
<1>2. /\ exited' = [exited EXCEPT ![InitProcess] = @ \/ last'.exits]
      /\ exitStatus' = [exitStatus EXCEPT ![InitProcess] =
                          IF last'.exits THEN last'.status ELSE @]
      /\ slots' = SlotsAfter(InitProcess, op, last'.value)
      /\ ip' = ip + 1 /\ running' = running /\ outcome' = outcome
  BY DEF RunFrame
<1>3. exited'[InitProcess] = (exited[InitProcess] \/ last'.exits)
  BY <1>1, <1>2 DEF IInv, TypeOK
<1>4. exitStatus'[InitProcess] =
        IF last'.exits THEN last'.status ELSE exitStatus[InitProcess]
  BY <1>1, <1>2 DEF IInv, TypeOK
<1> QED
  BY <1>2, <1>3, <1>4 DEF CallDone

(* A call that fails ends the run.                                         *)
RunFailed == running' = Idle /\ ip' = 0 /\ outcome' # "OK"

(* Only WRITE hands bytes over, and only EXIT ends the process.            *)
LEMMA QuietCalls ==
    ASSUME NEW x, NEW y, NEW z,
           \/ SysRead(InitProcess, x, y, z) \/ SysOpen(InitProcess, x, y)
           \/ SysClose(InitProcess, x) \/ SysStat(InitProcess, x, y, z)
    PROVE  last'.bytes = << >> /\ last'.exits = FALSE
<1>1. CASE SysRead(InitProcess, x, y, z)
  BY <1>1 DEF SysRead, Fail, Return, Result
<1>2. CASE SysOpen(InitProcess, x, y)
  BY <1>2 DEF SysOpen, Fail, Return, Result
<1>3. CASE SysClose(InitProcess, x)
  BY <1>3 DEF SysClose, Fail, Return, Result
<1>4. CASE SysStat(InitProcess, x, y, z)
  BY <1>4 DEF SysStat, Fail, Return, Result
<1> QED
  BY <1>1, <1>2, <1>3, <1>4

(* An op is carried out, and then it has handed over what it names and has *)
(* ended the process just if it is an EXIT; or it ends the run.            *)
OpDone(op) ==
    /\ CallDone /\ last'.bytes = Named(op)
    /\ last'.exits = (op.opcode = "EXIT")
    /\ op.opcode = "EXIT" => last'.status = AsInt(op.status % WordMod)

LEMMA FrameOutcome ==
    ASSUME IInv, NEW op \in Op, NEW frame, RunFrame(InitProcess, op, frame),
           last'.error = "OK" =>
              /\ last'.bytes = Named(op) /\ last'.exits = (op.opcode = "EXIT")
              /\ op.opcode = "EXIT" => last'.status = AsInt(op.status % WordMod)
    PROVE  OpDone(op) \/ RunFailed
<1>1. CASE last'.error = "OK"
  BY <1>1, FrameDone DEF OpDone
<1>2. CASE last'.error # "OK"
  BY <1>2 DEF RunFrame, RunFailed
<1> QED
  BY <1>1, <1>2

LEMMA OpOutcome ==
    ASSUME IInv, NEW op \in Op, Exec(InitProcess, op)
    PROVE  OpDone(op) \/ RunFailed
<1>1. ASSUME NEW error, error # "OK", Reject(InitProcess, error) PROVE RunFailed
  BY <1>1 DEF Reject, RunFailed
<1>2. CASE op.opcode = "WRITE"
  <2>1. CASE ~UserRangeOk(op.offset, op.len)
    BY <1>1, <1>2, <2>1 DEF Exec, ExecWrite, Opcodes
  <2>2. CASE UserRangeOk(op.offset, op.len)
    <3> DEFINE ptr == UserPtr(InitProcess, op.offset)
    <3>1. RunFrame(InitProcess, op, Frame(1, 1, ptr, op.len))
      BY <1>2, <2>2 DEF Exec, ExecWrite, Opcodes
    <3>2. Named(op) = Load(ptr, op.len)
      BY <1>2 DEF Named
    <3> HIDE DEF ptr
    <3>3. SysWrite(InitProcess, 1, ptr, op.len)
      BY <3>1, EntryCalls DEF RunFrame
    <3>4. last'.error = "OK" => last'.bytes = Load(ptr, op.len) /\ last'.exits = FALSE
      BY <3>3 DEF SysWrite, Fail, Return, Result
    <3> QED
      BY <1>2, <3>1, <3>2, <3>4, FrameOutcome
  <2> QED
    BY <2>1, <2>2
<1>3. CASE op.opcode = "EXIT"
  <2> DEFINE arg == op.status % WordMod
  <2>1. RunFrame(InitProcess, op, Frame(6, arg, 0, 0))
    BY <1>3 DEF Exec, ExecExit, Opcodes
  <2>2. Named(op) = << >>
    BY <1>3 DEF Named
  <2>3. SysExit(InitProcess, arg)
    BY <2>1, EntryCalls DEF RunFrame
  <2>4. last'.bytes = << >> /\ last'.exits = TRUE /\ last'.status = AsInt(arg)
    BY <2>3 DEF SysExit
  <2> QED
    BY <1>3, <2>1, <2>2, <2>4, FrameOutcome
<1>4. CASE op.opcode \in {"OPEN", "READ", "CLOSE", "STAT"}
  <2>1. Named(op) = << >> /\ op.opcode # "EXIT"
    BY <1>4 DEF Named
  <2>2. ASSUME NEW frame, RunFrame(InitProcess, op, frame),
               last'.bytes = << >> /\ last'.exits = FALSE
        PROVE  OpDone(op) \/ RunFailed
    BY <2>1, <2>2, FrameOutcome
  <2>3. CASE op.opcode = "OPEN"
    <3> DEFINE ptr == UserPtr(InitProcess, op.offset)
    <3>1. \/ Reject(InitProcess, "EFAULT")
          \/ RunFrame(InitProcess, op, Frame(2, ptr, op.len, 0))
      BY <2>3 DEF Exec, ExecOpen, Opcodes
    <3>2. RunFrame(InitProcess, op, Frame(2, ptr, op.len, 0)) =>
            SysOpen(InitProcess, ptr, op.len)
      BY EntryCalls DEF RunFrame
    <3> QED
      BY <1>1, <2>2, <3>1, <3>2, QuietCalls
  <2>4. CASE op.opcode = "READ"
    <3> DEFINE ptr == UserPtr(InitProcess, op.offset)
               fd  == slots[InitProcess][op.slot]
    <3>1. \/ Reject(InitProcess, "EBADFD")
          \/ RunFrame(InitProcess, op, Frame(0, fd, ptr, op.len))
      BY <2>4 DEF Exec, ExecRead, Opcodes
    <3>2. RunFrame(InitProcess, op, Frame(0, fd, ptr, op.len)) =>
            SysRead(InitProcess, fd, ptr, op.len)
      BY EntryCalls DEF RunFrame
    <3> QED
      BY <1>1, <2>2, <3>1, <3>2, QuietCalls
  <2>5. CASE op.opcode = "CLOSE"
    <3> DEFINE fd == slots[InitProcess][op.slot]
    <3>1. \/ Reject(InitProcess, "EBADFD")
          \/ RunFrame(InitProcess, op, Frame(3, fd, 0, 0))
      BY <2>5 DEF Exec, ExecClose, Opcodes
    <3>2. RunFrame(InitProcess, op, Frame(3, fd, 0, 0)) => SysClose(InitProcess, fd)
      BY EntryCalls DEF RunFrame
    <3> QED
      BY <1>1, <2>2, <3>1, <3>2, QuietCalls
  <2>6. CASE op.opcode = "STAT"
    <3> DEFINE ptr == UserPtr(InitProcess, op.offset)
               dst == UserPtr(InitProcess, op.aux)
    <3>1. \/ Reject(InitProcess, "EFAULT")
          \/ RunFrame(InitProcess, op, Frame(4, ptr, op.len, dst))
      BY <2>6 DEF Exec, ExecStat, Opcodes
    <3>2. RunFrame(InitProcess, op, Frame(4, ptr, op.len, dst)) =>
            SysStat(InitProcess, ptr, op.len, dst)
      BY EntryCalls DEF RunFrame
    <3> QED
      BY <1>1, <2>2, <3>1, <3>2, QuietCalls
  <2> QED
    BY <1>4, <2>3, <2>4, <2>5, <2>6
<1>5. CASE op.opcode \notin Opcodes
  BY <1>1, <1>5 DEF Exec, Opcodes
<1> QED
  BY <1>2, <1>3, <1>4, <1>5 DEF Opcodes

(* What a turn of the loop adds to the history: the op, if it was carried  *)
(* out; nothing, if the run is over.                                       *)
LEMMA RunOpOutcome ==
    ASSUME BootInv, RunOp
    PROVE  \/ /\ OpDone(program.ops[ip + 1]) /\ ip' = ip + 1
              /\ got' = ip + 1 /\ wrote' = wrote \o Named(program.ops[ip + 1])
              /\ Goto("run", "run", Crlf(Named(program.ops[ip + 1])))
           \/ /\ RunFailed /\ UNCHANGED history
              /\ Goto("run", "verdict", << >>)
<1> DEFINE op == program.ops[ip + 1]
<1>1. IInv /\ ip \in Nat
  BY ProcessAssumption DEF BootInv, RuntimeOK, TypeOK, IInv, RunOp, Goto
<1>2. op \in Op
  <2>1. program.ops \in Seq(Op) /\ ip < Len(program.ops)
    BY BootAssumption DEF BootInv, RunOp
  <2> QED
    BY <1>1, <2>1
<1>3. Exec(InitProcess, op) /\ running = InitProcess
  BY DEF RunOp, Step
<1>4. OpDone(op) \/ RunFailed
  BY <1>1, <1>2, <1>3, OpOutcome
<1> HIDE DEF op
<1>5. CASE OpDone(op)
  <2>1. ip' = ip + 1 /\ running' # Idle /\ last'.bytes = Named(op)
    BY <1>3, <1>5, BootConstants DEF OpDone, CallDone
  <2> QED
    BY <1>5, <2>1 DEF RunOp, op
<1>6. CASE RunFailed
  <2>1. ip' # ip + 1 /\ running' = Idle
    BY <1>1, <1>6 DEF RunFailed
  <2> QED
    BY <1>6, <2>1 DEF RunOp
<1> QED
  BY <1>4, <1>5, <1>6 DEF op

-----------------------------------------------------------------------------
(* What the console shows, whatever the program does.                      *)

(* What the kernel has said so far, printed or about to be.                *)
Said == printed \o pending

Announced == Crlf(Banner) \o (Crlf(<<NewLine>>) \o Line(Online))

VerdictLine == Line(IF InitOk THEN Clean ELSE Failed)

BannerStored ==
    \A i \in 1..Len(Banner) : mem[UserBase[BannerTask] + i - 1] = Banner[i]

(* What has been said at each place of kernel_start: in the middle, what   *)
(* the WRITEs of the program found in memory.                              *)
ConsoleInv ==
    /\ wrote \in Seq(Cell)
    /\ at \in {"start", "copy", "write", "announce", "init", "launch"} => wrote = << >>
    /\ at \in {"start", "copy", "write"} => Said = << >>
    /\ at = "write" => BannerStored
    /\ at = "announce" => Said = Crlf(Banner)
    /\ at \in {"init", "launch"} => Said = Announced
    /\ at \in {"run", "verdict"} => Said = Announced \o Crlf(wrote)
    /\ at \in {"halt", "halted"} => Said = (Announced \o Crlf(wrote)) \o VerdictLine
    /\ at = "halted" => pending = << >>

LEMMA AnnouncedType == Announced \in Seq(Int) /\ VerdictLine \in Seq(Int)
<1>1. Crlf(Banner) \in Seq(Int) /\ Crlf(<<NewLine>>) \o Line(Online) \in Seq(Int)
  BY TextTypes
<1>2. VerdictLine \in Seq(Int)
  BY TextTypes DEF VerdictLine
<1> QED
  BY <1>1, <1>2 DEF Announced

(* A step of kernel_start adds its text to what has been said ...          *)
LEMMA SaidGoto ==
    ASSUME SerialOK, NEW here, NEW next, NEW text \in Seq(Int), Goto(here, next, text)
    PROVE  Said' = Said \o text /\ Said \in Seq(Int) /\ Said = printed
<1>1. printed \in Seq(Int) /\ pending = << >> /\ printed' = printed /\ pending' = text
  BY DEF SerialOK, Goto
<1>2. printed \o << >> = printed
  BY <1>1
<1> QED
  BY <1>1, <1>2 DEF Said

LEMMA SaidQuiet ==
    ASSUME SerialOK, NEW here, NEW next, Goto(here, next, << >>)
    PROVE  Said' = Said /\ at = here /\ at' = next
<1>1. Said' = Said \o << >> /\ Said \in Seq(Int)
  <2>1. << >> \in Seq(Int)
    OBVIOUS
  <2> QED
    BY <2>1, SaidGoto, Zenon
<1> QED
  BY <1>1 DEF Goto

(* ... and the port's steps leave it alone.                                *)
LEMMA SaidPort ==
    ASSUME SerialOK, PutByte \/ Drain
    PROVE  Said' = Said
<1>1. CASE Drain
  BY <1>1 DEF Drain, Said
<1>2. CASE PutByte
  <2>1. printed \in Seq(Int) /\ pending \in Seq(Int) /\ pending # << >>
    BY <1>2 DEF SerialOK, PutByte
  <2>2. printed' = Append(printed, Head(pending)) /\ pending' = Tail(pending)
    BY <1>2 DEF PutByte
  <2>3. Append(printed, Head(pending)) \o Tail(pending) = printed \o pending
    BY <2>1
  <2> QED
    BY <2>2, <2>3 DEF Said
<1> QED
  BY <1>1, <1>2

(* Storing cells puts each of them where it belongs.                       *)
LEMMA StoreAt ==
    ASSUME NEW ptr \in Nat, NEW cells \in Seq(Cell), NEW i \in 1..Len(cells),
           ptr + i - 1 < WordMod
    PROVE  Store(ptr, cells)[ptr + i - 1] = cells[i]
<1>1. PICK a \in Addr : a = ptr + i - 1
  BY TaskAssumption DEF Addr
<1>2. a \in ptr..(ptr + Len(cells) - 1) /\ a - ptr + 1 = i
  BY <1>1
<1> QED
  BY <1>1, <1>2 DEF Store

(* Loading what is stored gives it back.                                   *)
LEMMA LoadIs ==
    ASSUME NEW text \in Seq(Cell), NEW ptr \in Nat,
           \A i \in 1..Len(text) : mem[ptr + i - 1] = text[i]
    PROVE  Load(ptr, Len(text)) = text
<1>1. text = [i \in 1..Len(text) |-> text[i]]
  OBVIOUS
<1> QED
  BY <1>1 DEF Load

LEMMA CopyStores ==
    ASSUME CopyBanner, Len(Banner) < BannerSize
    PROVE  Goto("copy", "write", << >>) /\ BannerStored'
<1>1. /\ Goto("copy", "write", << >>)
      /\ mem' = Store(UserBase[BannerTask], Append(Banner, 0))
  BY BootConstants, BootAssumption DEF CopyBanner
<1>2. ASSUME NEW i \in 1..Len(Banner)
      PROVE  mem'[UserBase[BannerTask] + i - 1] = Banner[i]
  <2>1. /\ Append(Banner, 0) \in Seq(Cell) /\ Append(Banner, 0)[i] = Banner[i]
        /\ i \in 1..Len(Append(Banner, 0))
    BY BootConstants
  <2>2. UserBase[BannerTask] + i - 1 < WordMod
    BY BootConstants, TaskAssumption
  <2> QED
    BY <1>1, <2>1, <2>2, BootConstants, StoreAt
<1> QED
  BY <1>1, <1>2 DEF BannerStored

(* The banner is written from init_task's own window: the call succeeds    *)
(* and hands over the banner.                                              *)
LEMMA WriteSucceeds ==
    ASSUME WriteBanner, BannerStored
    PROVE  Goto("write", "announce", Crlf(Banner))
<1> DEFINE base == UserBase[BannerTask]
<1>1. TaskContainsUserRange(BannerTask, base, Len(Banner))
  <2>1. base \in Nat /\ Len(Banner) \in Nat /\ WordMod \in Nat /\ base + Len(Banner) < WordMod
    BY BootConstants, TaskAssumption
  <2> QED
    BY <2>1, BootConstants DEF TaskContainsUserRange, AddOverflows
<1>2. SysWrite(BannerTask, 1, base, Len(Banner))
  <2>1. CallNumber(1) = 1
    BY TaskAssumption DEF CallNumber
  <2> QED
    BY <2>1 DEF WriteBanner, KsyscallDispatch
<1>3. Load(base, Len(Banner)) = Banner
  BY BootConstants, LoadIs DEF BannerStored
<1>4. last'.error = "OK" /\ last'.bytes = Banner
  BY <1>1, <1>2, <1>3 DEF SysWrite, Return, Result
<1> QED
  BY <1>4 DEF WriteBanner

(* What a program prints is appended to what it has printed.               *)
LEMMA BodyGrows ==
    ASSUME NEW body \in Seq(Cell), NEW bytes \in Seq(Cell)
    PROVE  /\ (Announced \o Crlf(body)) \o Crlf(bytes) = Announced \o Crlf(body \o bytes)
           /\ body \o bytes \in Seq(Cell)
<1>1. /\ body \in Seq(Int) /\ bytes \in Seq(Int) /\ body \o bytes \in Seq(Cell)
  BY CellSeq
<1>2. Crlf(body) \in Seq(Int) /\ Crlf(bytes) \in Seq(Int)
  BY <1>1, CrlfType
<1>3. Crlf(body \o bytes) = Crlf(body) \o Crlf(bytes)
  BY <1>1, CrlfConcat
<1>4. (Announced \o Crlf(body)) \o Crlf(bytes) = Announced \o (Crlf(body) \o Crlf(bytes))
  BY <1>2, AnnouncedType, ConcatAssoc, Zenon
<1> QED
  BY <1>1, <1>3, <1>4, Zenon

LEMMA NothingAdded ==
    ASSUME NEW s \in Seq(Int)
    PROVE  /\ s \o << >> = s
           /\ s = Announced => s = Announced \o Crlf(<< >>)
<1>1. s \o << >> = s
  OBVIOUS
<1>2. Announced \o Crlf(<< >>) = Announced
  BY AnnouncedType, CrlfEmpty
<1> QED
  BY <1>1, <1>2

LEMMA ConsoleKernel ==
    ASSUME BootInv, ConsoleInv, Len(Banner) < BannerSize, Kernel
    PROVE  ConsoleInv'
<1> USE DEF ConsoleInv
<1>0. SerialOK /\ << >> \in Seq(Int) /\ << >> \in Seq(Cell)
  BY DEF BootInv
<1>1. CASE EarlyInit
  <2>1. Goto("start", "copy", << >>) /\ wrote' = wrote
    BY <1>1 DEF EarlyInit, history
  <2> QED
    BY <1>0, <2>1, SaidQuiet
<1>2. CASE CopyBanner
  <2>1. Goto("copy", "write", << >>) /\ BannerStored' /\ wrote' = wrote
    BY <1>2, CopyStores DEF CopyBanner, history
  <2> QED
    BY <1>0, <2>1, SaidQuiet
<1>3. CASE WriteBanner
  <2>1. Goto("write", "announce", Crlf(Banner))
    BY <1>3, WriteSucceeds DEF WriteBanner, Goto
  <2>2. Said' = Said \o Crlf(Banner) /\ Said = << >>
    BY <1>0, <2>1, SaidGoto, TextTypes DEF Goto
  <2>3. << >> \o Crlf(Banner) = Crlf(Banner)
    BY TextTypes
  <2>4. wrote' = wrote
    BY <1>3 DEF WriteBanner, history
  <2> QED
    BY <2>1, <2>2, <2>3, <2>4 DEF Goto
<1>4. CASE Announce
  <2>1. /\ Goto("announce", "init", Crlf(<<NewLine>>) \o Line(Online))
        /\ wrote' = wrote
    BY <1>4 DEF Announce, history
  <2>2. Said' = Announced
    BY <1>0, <2>1, SaidGoto, TextTypes DEF Goto, Announced
  <2> QED
    BY <2>1, <2>2 DEF Goto
<1>5. CASE InitInit
  <2>1. Goto("init", "launch", << >>) /\ wrote' = wrote
    BY <1>5 DEF InitInit, history
  <2> QED
    BY <1>0, <2>1, SaidQuiet
<1>6. CASE Launch
  <2>1. PICK next \in {"run", "verdict"} : Goto("launch", next, << >>)
    BY <1>6 DEF Launch
  <2>2. Said' = Announced /\ at = "launch" /\ at' = next
    BY <1>0, <2>1, SaidQuiet
  <2>3. Announced = Announced \o Crlf(<< >>)
    BY AnnouncedType, NothingAdded, Zenon
  <2>4. wrote' = << >>
    BY <1>6, <2>2 DEF Launch, history
  <2> QED
    BY <1>0, <2>2, <2>3, <2>4
<1>7. CASE RunOp
  <2> DEFINE bytes == Named(program.ops[ip + 1])
  <2>0. Said = Announced \o Crlf(wrote)
    BY <1>7 DEF RunOp, Goto
  <2>1. CASE /\ OpDone(program.ops[ip + 1]) /\ wrote' = wrote \o bytes
             /\ Goto("run", "run", Crlf(bytes))
    <3>1. bytes \in Seq(Cell)
      <4>1. last'.bytes \in Seq(Cell)
        BY <1>7, RunOpInv DEF BootInv, RuntimeOK, TypeOK, KernelTypeOK
      <4> QED
        BY <2>1, <4>1 DEF OpDone
    <3> HIDE DEF bytes
    <3>2. Crlf(bytes) \in Seq(Int)
      BY <3>1, CellSeq, CrlfType
    <3>3. Said' = Said \o Crlf(bytes)
      BY <1>0, <2>1, <3>2, SaidGoto
    <3>4. Said' = Announced \o Crlf(wrote') /\ wrote' \in Seq(Cell)
      BY <2>0, <2>1, <3>1, <3>3, BodyGrows, Zenon
    <3> QED
      BY <2>1, <3>4 DEF Goto
  <2>2. CASE UNCHANGED history /\ Goto("run", "verdict", << >>)
    BY <1>0, <2>0, <2>2, SaidQuiet DEF history
  <2> HIDE DEF bytes
  <2>3. \/ /\ OpDone(program.ops[ip + 1]) /\ wrote' = wrote \o bytes
           /\ Goto("run", "run", Crlf(bytes))
        \/ UNCHANGED history /\ Goto("run", "verdict", << >>)
    BY <1>7, RunOpOutcome DEF bytes
  <2> QED
    BY <2>1, <2>2, <2>3
<1>8. CASE EndRun
  <2>1. Goto("run", "verdict", << >>) /\ wrote' = wrote
    BY <1>8 DEF EndRun, history
  <2>2. Said' = Said /\ at = "run" /\ at' = "verdict"
    BY <1>0, <2>1, SaidQuiet
  <2> QED
    BY <2>1, <2>2
<1>9. CASE Verdict
  <2>1. /\ Goto("verdict", "halt", VerdictLine) /\ VerdictLine' = VerdictLine
        /\ wrote' = wrote
    BY <1>9 DEF Verdict, VerdictLine, InitOk, userVars, processVars, runVars, history
  <2>2. Said = Announced \o Crlf(wrote)
    BY <2>1 DEF Goto
  <2>3. Said' = (Announced \o Crlf(wrote)) \o VerdictLine'
    BY <1>0, <2>1, <2>2, SaidGoto, AnnouncedType
  <2> QED
    BY <2>1, <2>3 DEF Goto
<1>10. CASE Halt
  <2>1. Goto("halt", "halted", << >>) /\ VerdictLine' = VerdictLine /\ wrote' = wrote
    BY <1>10 DEF Halt, VerdictLine, InitOk, userVars, processVars, runVars, history
  <2>2. Said' = Said /\ at = "halt" /\ at' = "halted" /\ pending' = << >>
    BY <1>0, <2>1, SaidQuiet DEF Goto
  <2> QED
    BY <2>1, <2>2
<1>11. CASE PutByte
  <2>1. Said' = Said
    BY <1>0, <1>11, SaidPort
  <2>2. /\ at' = at /\ mem' = mem /\ VerdictLine' = VerdictLine /\ pending # << >>
        /\ wrote' = wrote
    BY <1>11 DEF PutByte, VerdictLine, InitOk, userVars, kernelVars, processVars, runVars,
                 history
  <2> QED
    BY <2>1, <2>2 DEF BannerStored
<1> QED
  BY <1>1, <1>2, <1>3, <1>4, <1>5, <1>6, <1>7, <1>8, <1>9, <1>10, <1>11 DEF Kernel

LEMMA ConsoleStep ==
    ASSUME BootInv, ConsoleInv, Len(Banner) < BannerSize, [BootNext]_bootVars
    PROVE  ConsoleInv'
<1>1. CASE Drain
  <2>1. Said' = Said
    BY <1>1, SaidPort DEF BootInv
  <2>2. /\ at' = at /\ mem' = mem /\ VerdictLine' = VerdictLine /\ pending' = pending
        /\ wrote' = wrote
    BY <1>1 DEF Drain, VerdictLine, InitOk, userVars, kernelVars, processVars, runVars,
                history
  <2> QED
    BY <2>1, <2>2 DEF ConsoleInv, BannerStored
<1>2. CASE UNCHANGED bootVars
  <2>1. Said' = Said
    BY <1>2 DEF bootVars, Said
  <2>2. /\ at' = at /\ mem' = mem /\ VerdictLine' = VerdictLine /\ pending' = pending
        /\ wrote' = wrote
    BY <1>2 DEF bootVars, VerdictLine, InitOk, userVars, kernelVars, processVars, runVars,
                history
  <2> QED
    BY <2>1, <2>2 DEF ConsoleInv, BannerStored
<1> QED
  BY <1>1, <1>2, ConsoleKernel DEF BootNext

(* The last op that was carried out is an EXIT, and with 0.                *)
ExitedLast  == got > 0 /\ program.ops[got].opcode = "EXIT"
ExitedClean == ExitedLast /\ program.ops[got].status = 0

(* The statuses of a program's ops are ints, and the word holds whole      *)
(* ints, as 64 bits hold 32.                                               *)
StatusesFit ==
    /\ \E k \in Nat : WordMod = k * IntMod
    /\ \A op \in Op : -IntMod <= 2 * op.status /\ 2 * op.status < IntMod

(* While the program runs, its process has exited just if the last op      *)
(* carried out is an EXIT, with its status; after it, InitOk is what the   *)
(* verdict should rest on.                                                 *)
EndedInv ==
    /\ at \in {"start", "copy", "write", "announce", "init", "launch"} => got = 0
    /\ at = "launch" => ~exited[InitProcess]
    /\ at = "run" => /\ got = ip /\ outcome \in RuntimeErrors
                     /\ exited[InitProcess] <=> ExitedLast
                     /\ ExitedLast => exitStatus[InitProcess] = program.ops[got].status
    /\ at \in {"verdict", "halt", "halted"} => (InitOk <=> ExitedClean)

LEMMA EndedStep ==
    ASSUME BootInv, EndedInv, StatusesFit, Len(Banner) < BannerSize, BannerStored \/ at # "write",
           [BootNext]_bootVars
    PROVE  EndedInv'
<1> USE DEF EndedInv
<1>1. CASE EarlyInit \/ CopyBanner \/ WriteBanner \/ Announce
  <2>1. /\ at \in {"start", "copy", "write", "announce"}
        /\ at' \in {"copy", "write", "announce", "init"}
    <3>1. CASE WriteBanner
      BY <3>1, WriteSucceeds DEF WriteBanner, Goto
    <3>2. CASE CopyBanner
      BY <3>2, CopyStores DEF Goto
    <3> QED
      BY <1>1, <3>1, <3>2 DEF EarlyInit, Announce, Goto
  <2>2. got' = got
    BY <1>1 DEF EarlyInit, CopyBanner, WriteBanner, Announce, history
  <2> QED
    BY <2>1, <2>2
<1>2. CASE InitInit
  <2>1. at = "init" /\ at' = "launch" /\ got' = got /\ KuserInitProcess(InitProcess)
    BY <1>2 DEF InitInit, Goto, history
  <2>2. exited \in [Process -> BOOLEAN] /\ InitProcess \in Process
    BY BootConstants DEF BootInv, RuntimeOK, TypeOK
  <2>3. ~exited'[InitProcess]
    BY <2>1, <2>2 DEF KuserInitProcess
  <2> QED
    BY <2>1, <2>3
<1>3. CASE Launch
  <2>1. /\ at = "launch" /\ got' = got /\ StartRun(InitProcess, program.image)
        /\ at' = (IF running' = Idle THEN "verdict" ELSE "run")
    BY <1>3 DEF Launch, Goto, history
  <2>2. got' = 0 /\ ~ExitedLast' /\ ~ExitedClean'
    BY <2>1 DEF ExitedLast, ExitedClean
  <2>3. CASE running' = InitProcess /\ ip' = 0 /\ UNCHANGED <<exited, outcome>>
    BY <2>1, <2>2, <2>3, BootConstants DEF BootInv, RuntimeOK, TypeOK
  <2>4. CASE running' = Idle /\ outcome' = "EFAULT"
    BY <2>1, <2>2, <2>4 DEF InitOk
  <2>5. \/ running' = InitProcess /\ ip' = 0 /\ UNCHANGED <<exited, outcome>>
        \/ running' = Idle /\ outcome' = "EFAULT"
    BY <2>1 DEF StartRun
  <2> QED
    BY <2>3, <2>4, <2>5
<1>4. CASE RunOp
  <2> DEFINE op == program.ops[ip + 1]
  <2>1. at = "run" /\ ~exited[InitProcess] /\ program' = program /\ ~ExitedLast
    BY <1>4 DEF RunOp, Step, Goto
  <2>2. CASE /\ OpDone(op) /\ ip' = ip + 1 /\ got' = ip + 1 /\ at' = "run"
    <3>1. ip \in Nat /\ op \in Op /\ op.status \in Int
      <4>1. program.ops \in Seq(Op) /\ ip \in Nat /\ ip < Len(program.ops)
        BY <1>4, BootAssumption, ProcessAssumption DEF BootInv, RuntimeOK, TypeOK, RunOp
      <4> QED
        BY <4>1, ProcessAssumption
    <3>2. (ExitedLast' <=> op.opcode = "EXIT") /\ program'.ops[got'] = op
      BY <2>1, <2>2, <3>1 DEF ExitedLast
    <3>3. op.opcode = "EXIT" => last'.exits /\ last'.status = op.status
      <4>1. PICK k \in Nat : WordMod = k * IntMod
        BY DEF StatusesFit
      <4>2. AsInt(op.status % WordMod) = op.status
        BY <3>1, <4>1, IntRoundTrip DEF StatusesFit
      <4> QED
        BY <2>2, <4>2 DEF OpDone
    <3>4. /\ exited'[InitProcess] = (exited[InitProcess] \/ last'.exits)
          /\ exitStatus'[InitProcess] =
                IF last'.exits THEN last'.status ELSE exitStatus[InitProcess]
          /\ outcome' = outcome /\ last'.exits = (op.opcode = "EXIT")
      BY <2>2 DEF OpDone, CallDone
    <3> HIDE DEF op
    <3>5. exited'[InitProcess] <=> ExitedLast'
      BY <2>1, <3>2, <3>4, Zenon
    <3>6. ExitedLast' => exitStatus'[InitProcess] = program'.ops[got'].status
      BY <3>2, <3>3, <3>4
    <3> QED
      BY <2>1, <2>2, <3>4, <3>5, <3>6
  <2>3. CASE RunFailed /\ got' = got /\ at' = "verdict"
    BY <2>1, <2>3 DEF RunFailed, InitOk, ExitedLast, ExitedClean
  <2> HIDE DEF op
  <2>4. \/ OpDone(op) /\ ip' = ip + 1 /\ got' = ip + 1 /\ at' = "run"
        \/ RunFailed /\ got' = got /\ at' = "verdict"
    BY <1>4, RunOpOutcome DEF Goto, history, op
  <2> QED
    BY <2>2, <2>3, <2>4
<1>5. CASE EndRun
  <2>1. /\ at = "run" /\ at' = "verdict" /\ got' = got /\ program' = program
        /\ outcome' = "OK" /\ exited' = exited /\ exitStatus' = exitStatus
    BY <1>5 DEF EndRun, FinishRun, processVars, Goto, history
  <2> QED
    BY <2>1 DEF InitOk, ExitedLast, ExitedClean
<1>6. CASE Verdict \/ Halt
  <2>1. /\ at \in {"verdict", "halt"} /\ at' \in {"halt", "halted"}
        /\ got' = got /\ program' = program /\ UNCHANGED userVars
    BY <1>6 DEF Verdict, Halt, Goto, history
  <2> QED
    BY <2>1 DEF InitOk, ExitedLast, ExitedClean, userVars, processVars, runVars
<1>7. CASE PutByte \/ Drain \/ UNCHANGED bootVars
  <2>1. UNCHANGED <<at, program, got, userVars>>
    BY <1>7 DEF PutByte, Drain, bootVars, history
  <2>2. UNCHANGED <<exited, exitStatus, outcome, ip>>
    BY <2>1 DEF userVars, processVars, runVars
  <2> QED
    BY <2>1, <2>2 DEF InitOk, ExitedLast, ExitedClean
<1> QED
  BY <1>1, <1>2, <1>3, <1>4, <1>5, <1>6, <1>7 DEF BootNext, Kernel

(* Whatever the program does, the halted kernel has put out the banner,    *)
(* the announcement, what each WRITE that was carried out found in memory, *)
(* with CR LF for LF, and the verdict, in this order and each complete;    *)
(* and the verdict is `clean' exactly if the last op that was carried out  *)
(* is an EXIT with status 0 (kernel_start, kuser_run, sys_write, klog).    *)
THEOREM ConsoleComplete ==
    ASSUME Len(Banner) < BannerSize, StatusesFit
    PROVE  BootSpec => [](at = "halted" =>
              printed = (Announced \o Crlf(wrote))
                           \o Line(IF ExitedClean THEN Clean ELSE Failed))
<1>1. BootInit => ConsoleInv /\ EndedInv
  BY DEF BootInit, ConsoleInv, EndedInv, Said
<1>2. BootInv /\ (ConsoleInv /\ EndedInv) /\ [BootNext]_bootVars => (ConsoleInv /\ EndedInv)'
  BY ConsoleStep, EndedStep DEF ConsoleInv
<1>3. BootInv /\ (ConsoleInv /\ EndedInv) => (at = "halted" =>
        printed = (Announced \o Crlf(wrote)) \o Line(IF ExitedClean THEN Clean ELSE Failed))
  <2> SUFFICES ASSUME BootInv, ConsoleInv, EndedInv, at = "halted"
               PROVE  Said = printed /\ (InitOk <=> ExitedClean)
    BY DEF ConsoleInv, VerdictLine
  <2>1. printed \in Seq(Int) /\ pending = << >>
    BY DEF BootInv, SerialOK, ConsoleInv
  <2> QED
    BY <2>1 DEF Said, EndedInv
<1> QED
  BY <1>1, <1>2, <1>3, BootInvariant, PTL DEF BootSpec

-----------------------------------------------------------------------------
(* What the console shows of the program the repository ships.             *)

(* The one file of init_fs.                                                *)
InitFile == InitImage.nodes[1]

LEMMA ConcatIs ==
    ASSUME NEW s \in Seq(Cell), NEW t \in Seq(Cell)
    PROVE  /\ s \o t \in Seq(Cell) /\ Len(s \o t) = Len(s) + Len(t)
           /\ Len(s) \in Nat /\ Len(t) \in Nat
           /\ \A i \in 1..Len(s) : (s \o t)[i] = s[i]
           /\ \A i \in 1..Len(t) : (s \o t)[Len(s) + i] = t[i]
OBVIOUS

(* init_memory: the message at offset 0, the path behind it.               *)
LEMMA InitMemoryIs ==
    ASSUME InitSizes
    PROVE  LET memory == InitImage.memory IN
           /\ memory \in Seq(Cell)
           /\ Len(InitMsg) \in Nat /\ Len(InitPath) \in Nat
           /\ Len(memory) >= InitBufferOff
           /\ \A i \in 1..Len(InitMsg) : memory[i] = InitMsg[i]
           /\ \A i \in 1..Len(InitPath) : memory[InitPathOff + i] = InitPath[i]
<1> DEFINE zero == <<0>>
           pad  == [i \in 1..InitPad |-> 0]
           m1 == InitMsg \o zero
           m2 == m1 \o InitPath
           m3 == m2 \o zero
           m4 == m3 \o pad
<1>1. InitMsg \in Seq(Cell) /\ InitPath \in Seq(Cell) /\ InitPad \in Nat
  BY DEF InitSizes
<1>2. zero \in Seq(Cell) /\ Len(zero) = 1 /\ pad \in Seq(Cell)
  BY <1>1, BootConstants, ZerosType
<1>3. InitImage.memory = m4
  BY DEF InitImage
<1> HIDE DEF zero, pad
<1>4. /\ m1 \in Seq(Cell) /\ Len(m1) = InitPathOff /\ Len(InitMsg) \in Nat
      /\ \A i \in 1..Len(InitMsg) : m1[i] = InitMsg[i]
  <2>1. /\ m1 \in Seq(Cell) /\ Len(m1) = Len(InitMsg) + Len(zero) /\ Len(InitMsg) \in Nat
        /\ \A i \in 1..Len(InitMsg) : m1[i] = InitMsg[i]
    BY <1>1, <1>2, ConcatIs, Zenon
  <2> QED
    BY <1>2, <2>1, Zenon DEF InitPathOff
<1> HIDE DEF m1
<1>5. /\ m2 \in Seq(Cell) /\ Len(m2) = Len(m1) + Len(InitPath) /\ Len(InitPath) \in Nat
      /\ \A i \in 1..Len(m1) : m2[i] = m1[i]
      /\ \A i \in 1..Len(InitPath) : m2[Len(m1) + i] = InitPath[i]
  BY <1>1, <1>4, ConcatIs, Zenon
<1> HIDE DEF m2
<1>6. /\ m3 \in Seq(Cell) /\ Len(m3) = Len(m2) + Len(zero)
      /\ \A i \in 1..Len(m2) : m3[i] = m2[i]
  BY <1>2, <1>5, ConcatIs, Zenon
<1> HIDE DEF m3
<1>7. /\ m4 \in Seq(Cell) /\ Len(m4) = Len(m3) + Len(pad) /\ Len(pad) \in Nat
      /\ \A i \in 1..Len(m3) : m4[i] = m3[i]
  BY <1>2, <1>6, ConcatIs, Zenon
<1> HIDE DEF m4
<1>8. ASSUME NEW i \in 1..Len(InitMsg) PROVE m4[i] = InitMsg[i]
  <2>1. i \in 1..Len(m1) /\ i \in 1..Len(m2) /\ i \in 1..Len(m3)
    BY <1>2, <1>4, <1>5, <1>6 DEF InitPathOff
  <2> QED
    BY <1>4, <1>5, <1>6, <1>7, <2>1
<1>9. ASSUME NEW i \in 1..Len(InitPath) PROVE m4[InitPathOff + i] = InitPath[i]
  <2>1. Len(m1) + i \in 1..Len(m2) /\ Len(m1) + i \in 1..Len(m3)
    BY <1>2, <1>4, <1>5, <1>6 DEF InitPathOff
  <2>2. m4[Len(m1) + i] = InitPath[i]
    BY <1>5, <1>6, <1>7, <2>1
  <2> QED
    BY <1>4, <2>2
<1>10. Len(m4) >= InitBufferOff
  <2>1. Len(m1) \in Nat /\ Len(InitPath) \in Nat /\ Len(pad) \in Nat
    BY <1>4, <1>5, <1>7
  <2>2. Len(m4) = Len(m1) + Len(InitPath) + 1 + Len(pad)
    BY <1>2, <1>5, <1>6, <1>7, Zenon
  <2> QED
    BY <1>4, <2>1, <2>2 DEF InitBufferOff
<1> QED
  BY <1>3, <1>4, <1>5, <1>7, <1>8, <1>9, <1>10, Zenon

(* init_fs and init_ops, field by field.                                   *)
LEMMA InitFileIs ==
    ASSUME InitSizes, InitImage \in Images
    PROVE  /\ InitImage.nodes = <<InitFile>> /\ InitFile \in Node /\ NodeIsValid(InitFile)
           /\ InitFile.path = InitPath /\ InitFile.data = InitMotd
           /\ InitFile.size = Len(InitMotd)
<1>1. /\ InitImage.nodes = <<InitFile>>
      /\ InitFile = [path |-> InitPath, data |-> InitMotd, size |-> Len(InitMotd),
                     mode |-> FileMode]
  BY DEF InitImage, InitFile
<1>2. InitFile \in Node
  <2>1. InitImage.nodes \in Seq(Node)
    BY ProcessAssumption, TaskAssumption
  <2> QED
    BY <1>1, <2>1
<1>3. NodeIsValid(InitFile)
  <2>1. InitFile # Null /\ InitPath # Null /\ InitMotd # Null
    BY <1>2, NodeAssumption DEF InitSizes
  <2> QED
    BY <1>1, <2>1 DEF NodeIsValid
<1> QED
  BY <1>1, <1>2, <1>3

(* An op of the shipped program: slot 0, status 0.                         *)
IsOp(op, opcode, offset, len) ==
    /\ op.opcode = opcode /\ op.slot = 0 /\ op.offset = offset /\ op.len = len
    /\ op.status = 0

LEMMA InitOpsAre ==
    /\ Len(InitOps) = 6
    /\ IsOp(InitOps[1], "WRITE", 0, Len(InitMsg))
    /\ IsOp(InitOps[2], "OPEN", InitPathOff, Len(InitPath))
    /\ IsOp(InitOps[3], "READ", InitBufferOff, InitBufferLen)
    /\ IsOp(InitOps[4], "WRITE", InitBufferOff, InitBufferLen)
    /\ IsOp(InitOps[5], "CLOSE", 0, 0)
    /\ IsOp(InitOps[6], "EXIT", 0, 0)
BY DEF InitOps, IsOp, InitPathOff, InitBufferOff

(* kfs_lookup finds the one file there is.                                 *)
LEMMA LookupInit ==
    ASSUME InitSizes, InitImage \in Images
    PROVE  KfsLookup(<<InitFile>>, InitPath) = InitFile /\ InitFile # Null
<1>1. Matches(<<InitFile>>, InitPath) = {1}
  BY InitFileIs DEF Matches
<1>2. (CHOOSE i \in {1} : \A j \in {1} : i <= j) = 1
  OBVIOUS
<1>3. InitPath # << >> /\ {1} # {}
  BY DEF InitSizes
<1>4. KfsLookup(<<InitFile>>, InitPath) = <<InitFile>>[1]
  BY <1>1, <1>2, <1>3, Zenon DEF KfsLookup
<1>5. InitFile # Null
  BY InitFileIs DEF NodeIsValid
<1> QED
  BY <1>4, <1>5

-----------------------------------------------------------------------------
(* `text' lies at an offset of init_process's memory.                      *)
Holds(offset, text) ==
    \A i \in 1..Len(text) : mem[UserBase[InitProcess] + offset + i - 1] = text[i]

InitFd(fd) == files[InitProcess][fd]

(* The descriptor init holds in its only slot.                             *)
HoldsFile == InitFd(FirstFile).used /\ slots[InitProcess][0] = FirstFile

(* What the program has printed once it has made n calls.                  *)
Body(n) == IF n = 0 THEN << >> ELSE IF n < 4 THEN InitMsg ELSE InitMsg \o InitShown

(* The shipped program after n of its calls: what it has open and what its *)
(* memory holds.                                                           *)
InitPhase(n) ==
    /\ exited[InitProcess] <=> n = 6
    /\ n = 6 => exitStatus[InitProcess] = 0
    /\ n \in {0, 1} => \A fd \in FileFd : ~InitFd(fd).used
    /\ n = 0 => Holds(0, InitMsg)
    /\ n \in {0, 1} => Holds(InitPathOff, InitPath)
    /\ n \in {2, 3, 4} => HoldsFile
    /\ n = 2 => InitFd(FirstFile).node = InitFile /\ InitFd(FirstFile).offset = 0
    /\ n = 3 => Holds(InitBufferOff, InitShown)

ShippedInv ==
    /\ at = "launch" => /\ ~exited[InitProcess]
                        /\ \A fd \in FileFd : ~InitFd(fd).used
    /\ at = "run" => /\ running = InitProcess /\ ip \in 0..6
                     /\ mounted = <<InitFile>>
                     /\ InitPhase(ip)
                     /\ Said = Announced \o Crlf(Body(ip))
    /\ at = "verdict" => InitOk /\ Said = Announced \o Crlf(Body(6))
    /\ at \in {"halt", "halted"} => Said = (Announced \o Crlf(Body(6))) \o Line(Clean)

(* Loading a text that memory holds; storing one makes memory hold it.     *)
LEMMA LoadHeld ==
    ASSUME NEW text \in Seq(Cell), NEW offset \in Nat, Holds(offset, text)
    PROVE  Load(UserPtr(InitProcess, offset), Len(text)) = text
<1> DEFINE ptr == UserBase[InitProcess] + offset
<1>1. ptr \in Nat
  BY BootConstants, ProcessAssumption, TaskAssumption DEF Addr
<1>2. \A i \in 1..Len(text) : mem[ptr + i - 1] = text[i]
  BY DEF Holds
<1> HIDE DEF ptr
<1>3. Load(ptr, Len(text)) = text
  BY <1>1, <1>2, LoadIs, Zenon
<1> QED
  BY <1>3 DEF ptr, UserPtr

LEMMA StoreHolds ==
    ASSUME NEW offset \in Nat, NEW cells \in Seq(Cell), NEW inner \in Nat,
           NEW text \in Seq(Cell), inner + Len(text) <= Len(cells),
           offset + Len(cells) <= MemorySize,
           mem' = Store(UserBase[InitProcess] + offset, cells),
           \A i \in 1..Len(text) : cells[inner + i] = text[i]
    PROVE  Holds(offset + inner, text)'
<1>1. /\ UserBase[InitProcess] \in Nat /\ WordMod \in Nat /\ MemorySize \in Nat
      /\ UserBase[InitProcess] + MemorySize < WordMod
  <2>1. InitProcess \in Task /\ UserLen[InitProcess] = MemorySize
    BY BootConstants, ProcessAssumption
  <2> QED
    BY <2>1, TaskAssumption DEF Addr
<1>2. ASSUME NEW i \in 1..Len(text)
      PROVE  mem'[UserBase[InitProcess] + (offset + inner) + i - 1] = text[i]
  <2>1. /\ Len(text) \in Nat /\ Len(cells) \in Nat
        /\ inner + i \in 1..Len(cells)
        /\ (UserBase[InitProcess] + offset) + (inner + i) - 1 < WordMod
        /\ UserBase[InitProcess] + offset \in Nat
    BY <1>1
  <2>2. mem'[(UserBase[InitProcess] + offset) + (inner + i) - 1] = cells[inner + i]
    BY <2>1, StoreAt
  <2>3. (UserBase[InitProcess] + offset) + (inner + i) - 1 =
          UserBase[InitProcess] + (offset + inner) + i - 1
    BY <1>1
  <2> QED
    BY <2>2, <2>3
<1> QED
  BY <1>2 DEF Holds

InitCall(op) == IInv /\ op \in Op /\ Exec(InitProcess, op) /\ InitSizes

(* WRITE of a text the memory holds prints it and changes nothing.         *)
LEMMA WriteOp ==
    ASSUME NEW op, InitCall(op), NEW text \in Seq(Cell), NEW offset \in Nat,
           IsOp(op, "WRITE", offset, Len(text)), offset + Len(text) <= MemorySize,
           Holds(offset, text)
    PROVE  /\ CallDone /\ last'.bytes = text /\ ~last'.exits
           /\ UNCHANGED <<mounted, files, mem, slots>>
<1> DEFINE ptr == UserPtr(InitProcess, offset)
<1>1. /\ UserRangeOk(op.offset, op.len) /\ op.offset = offset /\ op.len = Len(text)
      /\ op.opcode = "WRITE" /\ InitProcess \in Process /\ Len(text) \in Nat
  <2>1. MemorySize \in Nat
    BY BootConstants, ProcessAssumption, TaskAssumption DEF Addr
  <2> QED
    BY <2>1, BootConstants DEF UserRangeOk, IsOp
<1>2. RunFrame(InitProcess, op, Frame(1, 1, ptr, Len(text)))
  BY <1>1 DEF InitCall, Exec, ExecWrite, Opcodes
<1>3. TaskContainsUserRange(InitProcess, ptr, Len(text))
  BY <1>1, RangeOkInWindow
<1>4. Load(ptr, Len(text)) = text
  BY LoadHeld
<1> HIDE DEF ptr
<1>5. SysWrite(InitProcess, 1, ptr, Len(text))
  BY <1>2, EntryCalls DEF RunFrame
<1>6. /\ last' = Result(InitProcess, Len(text), "OK", text)
      /\ UNCHANGED <<mounted, files, mem>>
  BY <1>3, <1>4, <1>5 DEF SysWrite, Return
<1>7. last'.error = "OK" /\ last'.bytes = text /\ ~last'.exits
  BY <1>6 DEF Result
<1>8. CallDone /\ slots' = SlotsAfter(InitProcess, op, last'.value)
  BY <1>2, <1>7, FrameDone, Zenon DEF InitCall
<1>9. SlotsType /\ op.opcode \notin {"OPEN", "CLOSE"}
  BY <1>1 DEF InitCall, IInv, TypeOK, SlotsType
<1>10. slots' = slots
  BY <1>1, <1>8, <1>9, SlotsAfterCases
<1> QED
  BY <1>6, <1>7, <1>8, <1>10

(* What the shipped image's sizes give the checks of its calls.            *)
LEMMA InitRanges ==
    ASSUME InitSizes
    PROVE  /\ Len(InitMsg) \in Nat /\ Len(InitPath) \in Nat /\ MemorySize \in Nat
           /\ InitPathOff \in Nat /\ InitBufferOff \in Nat /\ InitBufferLen \in Nat
           /\ UserRangeOk(0, Len(InitMsg)) /\ UserRangeOk(InitPathOff, Len(InitPath))
           /\ UserRangeOk(InitBufferOff, InitBufferLen)
           /\ 0 \in Slot /\ FirstFile \in FileFd /\ InitProcess \in Process
<1>1. /\ Len(InitMsg) \in Nat /\ Len(InitPath) \in Nat /\ InitBufferLen \in Nat
      /\ InitBufferOff + InitBufferLen <= MemorySize
  BY DEF InitSizes
<1>2. MemorySize \in Nat
  BY BootConstants, ProcessAssumption, TaskAssumption DEF Addr
<1>3. 0 \in Slot /\ FirstFile \in FileFd
  BY BootAssumption, ProcessAssumption, TaskAssumption DEF InitSizes, Slot, FileFd, FirstFile
<1> QED
  BY <1>1, <1>2, <1>3, BootConstants DEF UserRangeOk, InitPathOff, InitBufferOff

(* OPEN finds the file and takes the lowest descriptor.                    *)
LEMMA OpenOp ==
    ASSUME NEW op, InitCall(op), InitImage \in Images, mounted = <<InitFile>>,
           IsOp(op, "OPEN", InitPathOff, Len(InitPath)), Holds(InitPathOff, InitPath),
           \A fd \in FileFd : ~InitFd(fd).used
    PROVE  /\ CallDone /\ last'.bytes = << >> /\ ~last'.exits
           /\ UNCHANGED <<mounted, mem>>
           /\ InitFd(FirstFile)'.used /\ InitFd(FirstFile)'.node = InitFile
           /\ InitFd(FirstFile)'.offset = 0 /\ slots'[InitProcess][0] = FirstFile
<1> DEFINE ptr == UserPtr(InitProcess, InitPathOff)
           len == Len(InitPath)
<1>1. /\ op.opcode = "OPEN" /\ op.slot = 0 /\ op.offset = InitPathOff /\ op.len = len
      /\ InitProcess \in Process /\ 0 \in Slot /\ FirstFile \in FileFd
      /\ len \in Nat /\ InitPathOff \in Nat /\ UserRangeOk(InitPathOff, len)
  BY InitRanges DEF IsOp, InitCall
<1>2. RunFrame(InitProcess, op, Frame(2, ptr, len, 0))
  BY <1>1 DEF InitCall, Exec, ExecOpen, Opcodes
<1>3. TaskContainsUserRange(InitProcess, ptr, len)
  BY <1>1, RangeOkInWindow
<1>4. KfsLookup(mounted, Load(ptr, len)) = InitFile /\ InitFile # Null
  <2>1. InitPath \in Seq(Cell)
    BY DEF InitCall, InitSizes
  <2>2. Load(ptr, len) = InitPath
    BY <1>1, <2>1, LoadHeld, Zenon
  <2> QED
    BY <2>2, LookupInit, Zenon DEF InitCall
<1>5. SysOpen(InitProcess, ptr, len)
  BY <1>2, EntryCalls DEF RunFrame
<1> HIDE DEF ptr, len
<1>6. FreeFds(InitProcess) = FileFd /\ FileFd # {} /\ LowestFree(InitProcess) = FirstFile
  <2>1. FreeFds(InitProcess) = FileFd
    BY DEF FreeFds, InitFd
  <2>2. FileFd \subseteq Int /\ \A g \in FileFd : FirstFile <= g
    BY TaskAssumption DEF FileFd, FirstFile
  <2>3. \A fd \in FileFd : (\A g \in FileFd : fd <= g) => fd = FirstFile
    BY <1>1, <2>2
  <2>4. (CHOOSE fd \in FileFd : \A g \in FileFd : fd <= g) = FirstFile
    BY <1>1, <2>2, <2>3, Zenon
  <2> QED
    BY <1>1, <2>1, <2>4, Zenon DEF LowestFree
<1> DEFINE opened == [used |-> TRUE, node |-> InitFile, offset |-> 0]
<1>7. /\ files' = [files EXCEPT ![InitProcess][FirstFile] = opened]
      /\ last' = Result(InitProcess, FirstFile, "OK", << >>)
      /\ UNCHANGED <<mounted, mem>>
  <2>1. \/ Fail(InitProcess, "ENOENT") /\ InitFile = Null
        \/ Fail(InitProcess, "EMFILE") /\ FileFd = {}
        \/ /\ files' = [files EXCEPT ![InitProcess][FirstFile] = opened]
           /\ Return(InitProcess, FirstFile, << >>)
           /\ UNCHANGED <<mounted, mem>>
    BY <1>3, <1>4, <1>5, <1>6, Zenon DEF SysOpen
  <2> QED
    BY <1>4, <1>6, <2>1 DEF Return
<1>8. last'.error = "OK" /\ last'.bytes = << >> /\ ~last'.exits /\ last'.value = FirstFile
  BY <1>7 DEF Result
<1>9. CallDone /\ slots' = SlotsAfter(InitProcess, op, FirstFile)
  BY <1>2, <1>8, FrameDone, Zenon DEF InitCall
<1>10. SlotsType /\ slots' = [slots EXCEPT ![InitProcess][op.slot] = FirstFile]
  <2>1. SlotsType
    BY DEF InitCall, IInv, TypeOK, SlotsType
  <2> QED
    BY <1>1, <1>9, <2>1, SlotsAfterCases
<1>11. slots'[InitProcess][0] = FirstFile
  BY <1>1, <1>10 DEF SlotsType
<1>12. files'[InitProcess][FirstFile] = opened
  <2>1. files \in [Task -> [0..(MaxFiles - 1) -> OpenFile]] /\ InitProcess \in Task
    BY <1>1, StepContext DEF InitCall, KernelOK, KernelTypeOK
  <2>2. FirstFile \in 0..(MaxFiles - 1)
    BY <1>1, FdTypes
  <2> HIDE DEF opened
  <2> QED
    BY <1>7, <2>1, <2>2
<1>13. InitFd(FirstFile)'.used /\ InitFd(FirstFile)'.node = InitFile /\ InitFd(FirstFile)'.offset = 0
  <2>1. opened.used /\ opened.node = InitFile /\ opened.offset = 0
    OBVIOUS
  <2>2. InitFd(FirstFile)' = opened
    BY <1>12 DEF InitFd
  <2> HIDE DEF opened
  <2> QED
    BY <2>1, <2>2, Zenon
<1> QED
  BY <1>7, <1>8, <1>9, <1>11, <1>13

LEMMA HeldFile ==
    ASSUME InitSizes, HoldsFile
    PROVE  /\ SlotHeld(InitProcess, 0) /\ IsOpen(InitProcess, FirstFile)
           /\ InitProcess \in Task
<1>1. InitProcess \in Task /\ InitProcess # NoTask
  BY BootConstants, ProcessAssumption, TaskAssumption
<1> QED
  BY <1>1, InitRanges DEF HoldsFile, SlotHeld, IsOpen, InitFd, FirstFile

LEMMA StoreHoldsIt ==
    ASSUME NEW offset \in Nat, NEW text \in Seq(Cell), offset + Len(text) <= MemorySize,
           mem' = Store(UserBase[InitProcess] + offset, text)
    PROVE  Holds(offset, text)'
<1>1. 0 \in Nat /\ 0 + Len(text) <= Len(text)
  OBVIOUS
<1>2. \A i \in 1..Len(text) : text[0 + i] = text[i]
  OBVIOUS
<1>3. Holds(offset + 0, text)'
  BY <1>1, <1>2, StoreHolds
<1>4. offset + 0 = offset
  OBVIOUS
<1> QED
  BY <1>3, <1>4

(* READ copies the first bytes of the file behind the path.                *)
LEMMA ReadOp ==
    ASSUME NEW op, InitCall(op), InitImage \in Images, HoldsFile,
           IsOp(op, "READ", InitBufferOff, InitBufferLen),
           InitFd(FirstFile).node = InitFile, InitFd(FirstFile).offset = 0
    PROVE  /\ CallDone /\ last'.bytes = << >> /\ ~last'.exits
           /\ UNCHANGED mounted /\ HoldsFile' /\ Holds(InitBufferOff, InitShown)'
<1> DEFINE ptr == UserPtr(InitProcess, InitBufferOff)
<1>1. /\ op.opcode = "READ" /\ op.slot = 0 /\ op.offset = InitBufferOff
      /\ op.len = InitBufferLen /\ InitBufferLen \in Nat /\ InitBufferOff \in Nat
      /\ InitProcess \in Process /\ UserRangeOk(InitBufferOff, InitBufferLen)
      /\ slots[InitProcess][0] = FirstFile /\ FirstFile \in FileFd
  BY InitRanges DEF IsOp, InitCall, HoldsFile
<1>2. /\ SlotHeld(InitProcess, 0) /\ IsOpen(InitProcess, FirstFile)
      /\ InitProcess \in Task
  BY HeldFile DEF InitCall
<1>3. RunFrame(InitProcess, op, Frame(0, FirstFile, ptr, InitBufferLen))
  BY <1>1, <1>2 DEF InitCall, Exec, ExecRead, Opcodes
<1>4. TaskContainsUserRange(InitProcess, ptr, InitBufferLen) /\ ptr \in Nat
  BY <1>1, RangeOkInWindow
<1>5. SysRead(InitProcess, FirstFile, ptr, InitBufferLen)
  BY <1>3, EntryCalls DEF RunFrame
<1>6. /\ ReadCount(InitFile, 0, InitBufferLen) = InitBufferLen
      /\ KfsReadNode(InitFile, 0, InitBufferLen) = InitShown
      /\ InitShown \in Seq(Cell) /\ Len(InitShown) = InitBufferLen
  <2>1. /\ NodeIsValid(InitFile) /\ InitFile.data = InitMotd /\ InitFile.size = Len(InitMotd)
        /\ InitMotd \in Seq(Cell) /\ InitBufferLen <= Len(InitMotd) /\ Len(InitMotd) \in Nat
    BY InitFileIs DEF InitCall, InitSizes
  <2>2. ReadCount(InitFile, 0, InitBufferLen) = InitBufferLen
    BY <1>1, <2>1 DEF ReadCount
  <2>3. /\ InitShown = [i \in 1..InitBufferLen |-> InitMotd[i]]
        /\ InitShown \in Seq(Cell) /\ Len(InitShown) = InitBufferLen
    BY <1>1, <2>1 DEF InitShown
  <2>4. [i \in 1..InitBufferLen |-> InitMotd[i]] = [i \in 1..InitBufferLen |-> InitMotd[0 + i]]
    OBVIOUS
  <2>5. KfsReadNode(InitFile, 0, InitBufferLen) = [i \in 1..InitBufferLen |-> InitMotd[0 + i]]
    BY <2>1, <2>2, Zenon DEF KfsReadNode
  <2> QED
    BY <2>2, <2>3, <2>4, <2>5
<1> HIDE DEF ptr
<1>7. /\ mem' = Store(ptr, InitShown)
      /\ files' = [files EXCEPT ![InitProcess][FirstFile].offset = @ + InitBufferLen]
      /\ last' = Result(InitProcess, InitBufferLen, "OK", << >>)
      /\ UNCHANGED mounted
  <2>1. /\ files[InitProcess][FirstFile].node = InitFile
        /\ files[InitProcess][FirstFile].offset = 0
    BY DEF InitFd
  <2> QED
    BY <1>2, <1>4, <1>5, <1>6, <2>1, Zenon DEF SysRead, Return
<1>8. last'.error = "OK" /\ last'.bytes = << >> /\ ~last'.exits
  BY <1>7 DEF Result
<1>9. CallDone /\ slots' = SlotsAfter(InitProcess, op, last'.value)
  BY <1>3, <1>8, FrameDone, Zenon DEF InitCall
<1>10. SlotsType /\ slots' = slots
  <2>1. SlotsType /\ op.opcode \notin {"OPEN", "CLOSE"}
    BY <1>1 DEF InitCall, IInv, TypeOK, SlotsType
  <2> QED
    BY <1>1, <1>9, <2>1, SlotsAfterCases
<1>11. HoldsFile'
  <2>1. files \in [Task -> [0..(MaxFiles - 1) -> OpenFile]]
    BY <1>1, StepContext DEF InitCall, KernelOK, KernelTypeOK
  <2>2. FirstFile \in 0..(MaxFiles - 1) /\ files[InitProcess][FirstFile].used
    BY <1>1, FdTypes DEF HoldsFile, InitFd
  <2>3. files[InitProcess][FirstFile] \in OpenFile
    BY <1>2, <2>1, <2>2
  <2>4. PICK n : n = files[InitProcess][FirstFile].offset + InitBufferLen
    OBVIOUS
  <2>5. files'[InitProcess][FirstFile] = [files[InitProcess][FirstFile] EXCEPT !.offset = n]
    BY <1>2, <1>7, <2>1, <2>2, <2>4, Zenon
  <2>6. files'[InitProcess][FirstFile].used = files[InitProcess][FirstFile].used
    BY <2>3, <2>5 DEF OpenFile, FreeFile
  <2> QED
    BY <1>1, <1>10, <2>2, <2>6, Zenon DEF HoldsFile, InitFd
<1>12. Holds(InitBufferOff, InitShown)'
  <2>1. InitBufferOff + Len(InitShown) <= MemorySize /\ Len(InitShown) \in Nat
    BY <1>6, <1>1 DEF InitCall, InitSizes
  <2>2. mem' = Store(UserBase[InitProcess] + InitBufferOff, InitShown)
    BY <1>7 DEF ptr, UserPtr
  <2> QED
    BY <1>1, <1>6, <2>1, <2>2, StoreHoldsIt
<1> QED
  BY <1>7, <1>8, <1>9, <1>11, <1>12

(* CLOSE and EXIT print nothing; EXIT leaves the status 0.                 *)
LEMMA CloseOp ==
    ASSUME NEW op, InitCall(op), HoldsFile, IsOp(op, "CLOSE", 0, 0)
    PROVE  CallDone /\ last'.bytes = << >> /\ ~last'.exits /\ UNCHANGED mounted
<1>1. /\ op.opcode = "CLOSE" /\ op.slot = 0 /\ slots[InitProcess][0] = FirstFile
      /\ SlotHeld(InitProcess, 0) /\ IsOpen(InitProcess, FirstFile)
  BY HeldFile DEF IsOp, InitCall, HoldsFile
<1>2. RunFrame(InitProcess, op, Frame(3, FirstFile, 0, 0))
  BY <1>1 DEF InitCall, Exec, ExecClose, Opcodes
<1>3. SysClose(InitProcess, FirstFile)
  BY <1>2, EntryCalls DEF RunFrame
<1>4. last' = Result(InitProcess, 0, "OK", << >>) /\ UNCHANGED mounted
  BY <1>1, <1>3 DEF SysClose, Return
<1>5. last'.error = "OK" /\ last'.bytes = << >> /\ ~last'.exits
  BY <1>4 DEF Result
<1> QED
  BY <1>2, <1>4, <1>5, FrameDone, Zenon DEF InitCall

LEMMA ExitOp ==
    ASSUME NEW op, InitCall(op), IsOp(op, "EXIT", 0, 0)
    PROVE  /\ CallDone /\ last'.bytes = << >> /\ last'.exits /\ last'.status = 0
           /\ UNCHANGED mounted
<1>1. op.opcode = "EXIT" /\ op.status = 0
  BY DEF IsOp
<1>2. RunFrame(InitProcess, op, Frame(6, 0 % WordMod, 0, 0))
  BY <1>1 DEF InitCall, Exec, ExecExit, Opcodes
<1>3. SysExit(InitProcess, 0 % WordMod)
  BY <1>2, EntryCalls DEF RunFrame
<1>4. AsInt(0 % WordMod) = 0
  <2>1. 0 % WordMod = 0 /\ 0 % IntMod = 0 /\ 2 * 0 < IntMod
    BY TaskAssumption
  <2> QED
    BY <2>1 DEF AsInt
<1>5. /\ last' = [task |-> InitProcess, value |-> 0, error |-> "OK", bytes |-> << >>,
                  exits |-> TRUE, status |-> 0]
      /\ UNCHANGED mounted
  BY <1>3, <1>4 DEF SysExit
<1>6. last'.error = "OK" /\ last'.bytes = << >> /\ last'.exits /\ last'.status = 0
  BY <1>5
<1> QED
  BY <1>2, <1>5, <1>6, FrameDone, Zenon DEF InitCall

LEMMA BodyIs ==
    ASSUME InitSizes
    PROVE  /\ InitMsg \in Seq(Cell) /\ InitShown \in Seq(Cell)
           /\ Len(InitShown) = InitBufferLen
           /\ \A n \in 0..6 : Body(n) \in Seq(Cell)
           /\ Body(0) \o InitMsg = Body(1) /\ Body(3) \o InitShown = Body(4)
           /\ \A n \in {1, 2, 4, 5} : Body(n) \o << >> = Body(n + 1)
<1>1. /\ InitMsg \in Seq(Cell) /\ InitShown \in Seq(Cell)
      /\ Len(InitShown) = InitBufferLen
  BY DEF InitSizes, InitShown
<1>2. /\ InitMsg \o InitShown \in Seq(Cell) /\ << >> \in Seq(Cell)
      /\ << >> \o InitMsg = InitMsg /\ InitMsg \o << >> = InitMsg
      /\ (InitMsg \o InitShown) \o << >> = InitMsg \o InitShown
  BY <1>1
<1> QED
  BY <1>1, <1>2 DEF Body

(* A call of the shipped program takes it from one phase to the next and   *)
(* prints the next part of its body.                                       *)
LEMMA PhaseStep ==
    ASSUME NEW n \in 0..5, InitPhase(n), mounted = <<InitFile>>, InitImage \in Images,
           InitCall(InitOps[n + 1])
    PROVE  /\ CallDone /\ UNCHANGED mounted /\ InitPhase(n + 1)'
           /\ last'.bytes \in Seq(Cell) /\ Body(n) \o last'.bytes = Body(n + 1)
<1> DEFINE op == InitOps[n + 1]
           Goal == /\ CallDone /\ UNCHANGED mounted /\ InitPhase(n + 1)'
                   /\ last'.bytes \in Seq(Cell) /\ Body(n) \o last'.bytes = Body(n + 1)
<1>0. InitSizes /\ InitCall(op) /\ << >> \in Seq(Cell)
  BY DEF InitCall
<1>a. ~exited[InitProcess]
  BY DEF InitPhase
<1>b. CallDone /\ ~last'.exits => ~exited'[InitProcess]
  BY <1>a, Zenon DEF CallDone
<1>1. CASE n = 0
  <2>1. IsOp(op, "WRITE", 0, Len(InitMsg)) /\ Holds(0, InitMsg)
    BY <1>1, InitOpsAre DEF InitPhase
  <2>2. InitMsg \in Seq(Cell) /\ 0 \in Nat /\ 0 + Len(InitMsg) <= MemorySize
    BY <1>0, InitRanges DEF UserRangeOk, InitSizes
  <2>3. /\ CallDone /\ last'.bytes = InitMsg /\ ~last'.exits
        /\ UNCHANGED <<mounted, files, mem, slots>>
    BY <1>0, <2>1, <2>2, WriteOp
  <2>4. InitPhase(1)'
    BY <1>b, <1>1, <2>3 DEF InitPhase, Holds, InitFd
  <2> QED
    BY <1>0, <1>1, <2>2, <2>3, <2>4, BodyIs
<1>2. CASE n = 1
  <2>1. IsOp(op, "OPEN", InitPathOff, Len(InitPath))
    BY <1>2, InitOpsAre
  <2>2. Holds(InitPathOff, InitPath) /\ \A fd \in FileFd : ~InitFd(fd).used
    BY <1>2 DEF InitPhase
  <2>3. /\ CallDone /\ last'.bytes = << >> /\ ~last'.exits
        /\ UNCHANGED <<mounted, mem>>
        /\ InitFd(FirstFile)'.used /\ InitFd(FirstFile)'.node = InitFile
        /\ InitFd(FirstFile)'.offset = 0 /\ slots'[InitProcess][0] = FirstFile
    BY <1>0, <2>1, <2>2, OpenOp
  <2>4. InitPhase(2)'
    BY <1>b, <1>2, <2>3 DEF InitPhase, HoldsFile
  <2> QED
    BY <1>0, <1>2, <2>3, <2>4, BodyIs
<1>3. CASE n = 2
  <2>1. IsOp(op, "READ", InitBufferOff, InitBufferLen)
    BY <1>3, InitOpsAre
  <2>2. HoldsFile /\ InitFd(FirstFile).node = InitFile /\ InitFd(FirstFile).offset = 0
    BY <1>3 DEF InitPhase
  <2>3. /\ CallDone /\ last'.bytes = << >> /\ ~last'.exits
        /\ UNCHANGED mounted /\ HoldsFile' /\ Holds(InitBufferOff, InitShown)'
    BY <1>0, <2>1, <2>2, ReadOp
  <2>4. InitPhase(3)'
    BY <1>b, <1>3, <2>3 DEF InitPhase
  <2> QED
    BY <1>0, <1>3, <2>3, <2>4, BodyIs
<1>4. CASE n = 3
  <2>1. HoldsFile /\ Holds(InitBufferOff, InitShown)
    BY <1>4 DEF InitPhase
  <2>2. /\ InitShown \in Seq(Cell) /\ Len(InitShown) = InitBufferLen
        /\ InitBufferOff \in Nat /\ InitBufferOff + Len(InitShown) <= MemorySize
    BY <1>0, BodyIs, InitRanges DEF InitSizes
  <2>3. IsOp(op, "WRITE", InitBufferOff, Len(InitShown))
    BY <1>4, <2>2, InitOpsAre
  <2>4. /\ CallDone /\ last'.bytes = InitShown /\ ~last'.exits
        /\ UNCHANGED <<mounted, files, mem, slots>>
    BY <1>0, <2>1, <2>2, <2>3, WriteOp
  <2>5. InitPhase(4)'
    BY <1>b, <1>4, <2>1, <2>4 DEF InitPhase, HoldsFile, InitFd
  <2> QED
    BY <1>0, <1>4, <2>2, <2>4, <2>5, BodyIs
<1>5. CASE n = 4
  <2>1. IsOp(op, "CLOSE", 0, 0) /\ HoldsFile
    BY <1>5, InitOpsAre DEF InitPhase
  <2>2. CallDone /\ last'.bytes = << >> /\ ~last'.exits /\ UNCHANGED mounted
    BY <1>0, <2>1, CloseOp
  <2>3. InitPhase(5)'
    BY <1>b, <1>5, <2>2 DEF InitPhase
  <2> QED
    BY <1>0, <1>5, <2>2, <2>3, BodyIs
<1>6. CASE n = 5
  <2>1. IsOp(op, "EXIT", 0, 0)
    BY <1>6, InitOpsAre
  <2>2. /\ CallDone /\ last'.bytes = << >> /\ last'.exits /\ last'.status = 0
        /\ UNCHANGED mounted
    BY <1>0, <2>1, ExitOp
  <2>3. InitPhase(6)'
    <3>1. exited'[InitProcess] /\ exitStatus'[InitProcess] = 0
      BY <2>2, Zenon DEF CallDone
    <3> QED
      BY <3>1 DEF InitPhase
  <2> QED
    BY <1>0, <1>6, <2>2, <2>3, BodyIs
<1> QED
  BY <1>1, <1>2, <1>3, <1>4, <1>5, <1>6

(* The port's steps, and stutters, leave everything of the program alone.  *)
LEMMA ShippedQuiet ==
    ASSUME ShippedInv, UNCHANGED <<userVars, at>>, Said' = Said
    PROVE  ShippedInv'
<1>1. /\ exited' = exited /\ exitStatus' = exitStatus /\ files' = files /\ slots' = slots
      /\ mem' = mem /\ mounted' = mounted /\ running' = running /\ ip' = ip
      /\ outcome' = outcome /\ at' = at
  BY DEF userVars, kernelVars, processVars, runVars
<1>2. InitOk' = InitOk
  BY <1>1 DEF InitOk
<1>3. InitPhase(ip)' = InitPhase(ip)
  BY <1>1, Zenon DEF InitPhase, Holds, HoldsFile, InitFd
<1> QED
  BY <1>1, <1>2, <1>3 DEF ShippedInv, InitFd

LEMMA ShippedConstants ==
    ASSUME BootInv, Shipped
    PROVE  InitImage \in Images /\ InitOps \in Seq(Op) /\ Len(InitOps) = 6
BY BootAssumption, InitOpsAre DEF BootInv, Shipped

(* kuser_run loads init_memory over a process that holds nothing.          *)
LEMMA ShippedLaunch ==
    ASSUME BootInv, ConsoleInv, ShippedInv, InitSizes, Shipped, Launch
    PROVE  ShippedInv'
<1> DEFINE memory == InitImage.memory
<1>1. /\ memory \in Seq(Cell) /\ Len(memory) <= MemorySize /\ Len(memory) >= InitBufferOff
      /\ \A i \in 1..Len(InitMsg) : memory[i] = InitMsg[i]
      /\ \A i \in 1..Len(InitPath) : memory[InitPathOff + i] = InitPath[i]
      /\ InitImage.nodes = <<InitFile>>
  BY InitMemoryIs, InitFileIs, ShippedConstants DEF InitSizes
<1>2. /\ mem' = Store(UserBase[InitProcess], memory) /\ mounted' = InitImage.nodes
      /\ running' = InitProcess /\ ip' = 0
      /\ UNCHANGED <<files, exited>>
      /\ Goto("launch", "run", << >>)
  <2>1. StartRun(InitProcess, InitImage) /\ Len(memory) \in Nat /\ MemorySize \in Nat
    BY <1>1, InitRanges DEF Launch, Shipped
  <2>2. /\ mem' = Store(UserBase[InitProcess], memory) /\ mounted' = InitImage.nodes
        /\ running' = InitProcess /\ ip' = 0
        /\ UNCHANGED <<files, exited>>
    BY <1>1, <2>1 DEF StartRun
  <2> QED
    BY <2>2, BootConstants DEF Launch
<1>3. Said' = Announced /\ at = "launch" /\ at' = "run"
  BY <1>2, SaidQuiet DEF BootInv, ConsoleInv
<1>4. Announced = Announced \o Crlf(Body(0))
  BY AnnouncedType, NothingAdded DEF Body
<1> HIDE DEF memory
<1>5. Holds(0, InitMsg)' /\ Holds(InitPathOff, InitPath)'
  <2>1. /\ InitMsg \in Seq(Cell) /\ InitPath \in Seq(Cell) /\ Len(memory) \in Nat
        /\ Len(InitMsg) \in Nat /\ Len(InitPath) \in Nat
        /\ InitPathOff \in Nat /\ 0 \in Nat
        /\ 0 + Len(InitMsg) <= Len(memory) /\ InitPathOff + Len(InitPath) <= Len(memory)
        /\ 0 + Len(memory) <= MemorySize
    BY <1>1, InitRanges DEF InitSizes, InitPathOff, InitBufferOff
  <2>2. mem' = Store(UserBase[InitProcess] + 0, memory)
    <3>1. UserBase[InitProcess] \in Nat
      BY InitRanges, ProcessAssumption, TaskAssumption DEF Addr
    <3> QED
      BY <1>2, <3>1
  <2>3. \A i \in 1..Len(InitMsg) : memory[0 + i] = InitMsg[i]
    BY <1>1
  <2>4. Holds(0 + 0, InitMsg)'
    BY <1>1, <2>1, <2>2, <2>3, StoreHolds
  <2>5. Holds(0 + InitPathOff, InitPath)'
    BY <1>1, <2>1, <2>2, StoreHolds
  <2>6. 0 + 0 = 0 /\ 0 + InitPathOff = InitPathOff
    BY <2>1
  <2> QED
    BY <2>4, <2>5, <2>6
<1>6. ~exited[InitProcess] /\ \A fd \in FileFd : ~InitFd(fd).used
  BY <1>3 DEF ShippedInv
<1>7. InitPhase(0)'
  BY <1>2, <1>5, <1>6 DEF InitPhase, InitFd
<1>8. mounted' = <<InitFile>>
  BY <1>1, <1>2
<1>9. 0 \in 0..6
  OBVIOUS
<1> QED
  BY <1>2, <1>3, <1>4, <1>7, <1>8, <1>9 DEF ShippedInv

LEMMA ShippedRunOp ==
    ASSUME BootInv, ShippedInv, InitSizes, Shipped, RunOp
    PROVE  ShippedInv'
<1>1. /\ at = "run" /\ running = InitProcess /\ ip \in 0..6 /\ mounted = <<InitFile>>
      /\ InitPhase(ip) /\ Said = Announced \o Crlf(Body(ip))
  BY DEF ShippedInv, RunOp, Goto
<1>2. PICK n \in 0..5 : n = ip
  <2>1. ip < 6
    BY ShippedConstants DEF RunOp, Shipped
  <2> QED
    BY <1>1, <2>1
<1>3. InitCall(InitOps[n + 1])
  <2>1. IInv
    BY <1>1 DEF BootInv, RuntimeOK, IInv
  <2>2. InitOps[n + 1] \in Op
    <3>1. InitOps \in Seq(Op) /\ Len(InitOps) = 6 /\ n + 1 \in 1..6
      BY ShippedConstants
    <3> QED
      BY <3>1
  <2>3. Exec(InitProcess, InitOps[n + 1])
    BY <1>2 DEF RunOp, Step, Shipped
  <2> QED
    BY <2>1, <2>2, <2>3 DEF InitCall
<1>4. /\ CallDone /\ UNCHANGED mounted /\ InitPhase(n + 1)'
      /\ last'.bytes \in Seq(Cell) /\ Body(n) \o last'.bytes = Body(n + 1)
  BY <1>1, <1>2, <1>3, PhaseStep, ShippedConstants
<1>5. ip' = n + 1 /\ running' = InitProcess
  BY <1>1, <1>2, <1>4 DEF CallDone
<1>6. Goto("run", "run", Crlf(last'.bytes))
  BY <1>2, <1>5, BootConstants DEF RunOp
<1>7. Said' = Announced \o Crlf(Body(n + 1))
  <2>1. Crlf(last'.bytes) \in Seq(Int) /\ SerialOK
    BY <1>4, CellSeq, CrlfType DEF BootInv
  <2>2. Said' = Said \o Crlf(last'.bytes)
    BY <1>6, <2>1, SaidGoto
  <2>3. Body(n) \in Seq(Cell)
    BY BodyIs
  <2> QED
    BY <1>1, <1>2, <1>4, <2>2, <2>3, BodyGrows, Zenon
<1>8. InitPhase(ip)' /\ (Announced \o Crlf(Body(ip)))' = Announced \o Crlf(Body(n + 1))
  BY <1>4, <1>5
<1>9. at' = "run" /\ n + 1 \in 0..6
  BY <1>6 DEF Goto
<1> QED
  BY <1>1, <1>4, <1>5, <1>7, <1>8, <1>9 DEF ShippedInv

LEMMA ShippedEndRun ==
    ASSUME BootInv, ShippedInv, Shipped, EndRun
    PROVE  ShippedInv'
<1>1. Goto("run", "verdict", << >>)
  BY DEF EndRun
<1>2. Said' = Said /\ at = "run" /\ at' = "verdict"
  BY <1>1, SaidQuiet DEF BootInv
<1>3. ip = 6 /\ exited[InitProcess] /\ exitStatus[InitProcess] = 0
  BY <1>2, ShippedConstants DEF EndRun, ShippedInv, InitPhase, Shipped
<1>4. InitOk'
  BY <1>3 DEF EndRun, FinishRun, processVars, InitOk
<1>5. Said' = Announced \o Crlf(Body(6))
  BY <1>2, <1>3 DEF ShippedInv
<1> QED
  BY <1>2, <1>4, <1>5 DEF ShippedInv

LEMMA ShippedStep ==
    ASSUME BootInv, ConsoleInv, ShippedInv, InitSizes, [BootNext]_bootVars, Shipped
    PROVE  ShippedInv'
<1>0. SerialOK /\ << >> \in Seq(Int)
  BY DEF BootInv
<1>1. CASE EarlyInit \/ Announce \/ WriteBanner \/ CopyBanner
  <2>1. at' \in {"copy", "init", "write", "announce"}
    <3>1. CASE WriteBanner
      BY <3>1, WriteSucceeds DEF ConsoleInv, WriteBanner, Goto
    <3>2. CASE CopyBanner
      BY <3>2, CopyStores DEF InitSizes, Goto
    <3> QED
      BY <1>1, <3>1, <3>2 DEF EarlyInit, Announce, Goto
  <2> QED
    BY <2>1 DEF ShippedInv
<1>2. CASE InitInit
  <2>1. at' = "launch" /\ KuserInitProcess(InitProcess)
    BY <1>2 DEF InitInit, Goto
  <2>2. /\ exited \in [Process -> BOOLEAN] /\ InitProcess \in Process
        /\ files \in [Task -> [0..(MaxFiles - 1) -> OpenFile]] /\ InitProcess \in Task
    BY BootConstants, ProcessAssumption DEF BootInv, RuntimeOK, TypeOK, KernelTypeOK
  <2>3. ~exited'[InitProcess]
    BY <2>1, <2>2 DEF KuserInitProcess
  <2>4. ASSUME NEW fd \in FileFd PROVE ~files'[InitProcess][fd].used
    <3>1. files'[InitProcess] = [g \in 0..(MaxFiles - 1) |-> FreeFile]
      BY <2>1, <2>2 DEF KuserInitProcess
    <3>2. files'[InitProcess][fd] = FreeFile
      BY <3>1, FdTypes
    <3> QED
      BY <3>2 DEF FreeFile
  <2> QED
    BY <2>1, <2>3, <2>4 DEF ShippedInv, InitFd
<1>3. CASE Launch
  BY <1>3, ShippedLaunch
<1>4. CASE RunOp
  BY <1>4, ShippedRunOp
<1>5. CASE EndRun
  BY <1>5, ShippedEndRun
<1>6. CASE Verdict
  <2>1. Goto("verdict", "halt", VerdictLine)
    BY <1>6 DEF Verdict, VerdictLine
  <2>2. /\ Said' = Said \o VerdictLine /\ at = "verdict" /\ at' = "halt"
    BY <1>0, <2>1, SaidGoto, AnnouncedType DEF Goto
  <2>3. VerdictLine = Line(Clean) /\ Said = Announced \o Crlf(Body(6))
    BY <2>2 DEF ShippedInv, VerdictLine
  <2> QED
    BY <2>2, <2>3 DEF ShippedInv
<1>7. CASE Halt
  <2>1. Goto("halt", "halted", << >>)
    BY <1>7 DEF Halt
  <2>2. Said' = Said /\ at = "halt" /\ at' = "halted"
    BY <1>0, <2>1, SaidQuiet
  <2> QED
    BY <2>2 DEF ShippedInv
<1>8. CASE PutByte \/ Drain \/ UNCHANGED bootVars
  <2>1. UNCHANGED <<userVars, at>>
    BY <1>8 DEF PutByte, Drain, bootVars
  <2>2. Said' = Said
    <3>1. CASE UNCHANGED bootVars
      BY <3>1 DEF bootVars, Said
    <3> QED
      BY <1>0, <1>8, <3>1, SaidPort
  <2> QED
    BY <2>1, <2>2, ShippedQuiet
<1> QED
  BY <1>1, <1>2, <1>3, <1>4, <1>5, <1>6, <1>7, <1>8 DEF BootNext, Kernel

-----------------------------------------------------------------------------
LEMMA PrefixIs ==
    ASSUME NEW s \in Seq(Int), NEW rest \in Seq(Int)
    PROVE  IsPrefix(s, s \o rest)
<1>1. Len(s) <= Len(s \o rest) /\ SubSeq(s, 1, Len(s)) = s
  OBVIOUS
<1>2. SubSeq(s \o rest, 1, Len(s)) = s
  <2>1. /\ \A i \in 1..Len(s) : (s \o rest)[i] = s[i]
        /\ s \o rest \in Seq(Int) /\ Len(s) \in Nat /\ Len(s) <= Len(s \o rest)
    OBVIOUS
  <2>2. SubSeq(s \o rest, 1, Len(s)) = [i \in 1..Len(s) |-> (s \o rest)[i]]
    BY <2>1
  <2>3. s = [i \in 1..Len(s) |-> s[i]]
    OBVIOUS
  <2> QED
    BY <2>1, <2>2, <2>3
<1> QED
  BY <1>1, <1>2, Zenon DEF IsPrefix

(* What the whole console should show, said of the parts.                  *)
LEMMA TranscriptIs ==
    ASSUME InitSizes, Shipped
    PROVE  /\ Transcript(program) = (Announced \o Crlf(Body(6))) \o Line(Clean)
           /\ \A n \in 0..6 : Body(n) \in Seq(Cell) /\ Crlf(Body(n)) \in Seq(Int)
           /\ \A n \in 0..6 : \E rest \in Seq(Int) : Crlf(Body(6)) = Crlf(Body(n)) \o rest
<1>1. /\ \A n \in 0..6 : Body(n) \in Seq(Cell)
      /\ InitMsg \in Seq(Int) /\ InitShown \in Seq(Int)
  BY BodyIs, CellSeq
<1>2. \A n \in 0..6 : Crlf(Body(n)) \in Seq(Int)
  BY <1>1, CellSeq, CrlfType
<1>3. Transcript(program) = (Announced \o Crlf(Body(6))) \o Line(Clean)
  <2>1. program.prints = Body(6) /\ program.clean
    BY DEF Shipped, Body
  <2>2. /\ Crlf(Banner) \in Seq(Int) /\ Crlf(<<NewLine>>) \in Seq(Int) /\ Line(Online) \in Seq(Int)
    BY TextTypes
  <2>3. (Crlf(Banner) \o Crlf(<<NewLine>>)) \o Line(Online) = Announced
    BY <2>2, ConcatAssoc, Zenon DEF Announced
  <2> QED
    BY <2>1, <2>3 DEF Transcript
<1>4. ASSUME NEW n \in 0..6
      PROVE  \E rest \in Seq(Int) : Crlf(Body(6)) = Crlf(Body(n)) \o rest
  <2>1. CASE n = 0
    <3>1. Crlf(Body(0)) = << >>
      BY CrlfEmpty DEF Body
    <3>2. << >> \o Crlf(Body(6)) = Crlf(Body(6)) /\ Crlf(Body(6)) \in Seq(Int)
      BY <1>2
    <3> QED
      BY <2>1, <3>1, <3>2
  <2>2. CASE n \in 1..3
    <3>1. Crlf(Body(6)) = Crlf(InitMsg) \o Crlf(InitShown)
      BY <1>1, CrlfConcat DEF Body
    <3>2. Crlf(Body(n)) = Crlf(InitMsg) /\ Crlf(InitShown) \in Seq(Int)
      BY <1>1, <2>2, CrlfType DEF Body
    <3> QED
      BY <3>1, <3>2
  <2>3. CASE n \in 4..6
    <3>1. Body(n) = Body(6)
      BY <2>3 DEF Body
    <3>2. Crlf(Body(6)) \o << >> = Crlf(Body(6)) /\ << >> \in Seq(Int)
      BY <1>2
    <3> QED
      BY <3>1, <3>2
  <2> QED
    BY <2>1, <2>2, <2>3
<1> QED
  BY <1>1, <1>2, <1>3, <1>4

LEMMA ShippedConsole ==
    ASSUME BootInv, ConsoleInv, ShippedInv, InitSizes, Shipped
    PROVE  ConsoleInOrder
<1> DEFINE all == Transcript(program)
           body == Crlf(Body(6))
<1>1. /\ all = (Announced \o body) \o Line(Clean) /\ body \in Seq(Int)
      /\ Announced \in Seq(Int) /\ Line(Clean) \in Seq(Int) /\ Said \in Seq(Int)
      /\ printed \in Seq(Int)
  <2>1. printed \in Seq(Int) /\ pending \in Seq(Int)
    BY DEF BootInv, SerialOK
  <2>2. all = (Announced \o body) \o Line(Clean) /\ body \in Seq(Int)
    <3>1. 6 \in 0..6
      OBVIOUS
    <3> QED
      BY <3>1, TranscriptIs, Zenon
  <2>3. Said \in Seq(Int)
    BY <2>1 DEF Said
  <2> QED
    BY <2>1, <2>2, <2>3, AnnouncedType, TextTypes
<1> HIDE DEF all, body
<1>2. all = Announced \o (body \o Line(Clean)) /\ body \o Line(Clean) \in Seq(Int)
  <2>1. body \o Line(Clean) \in Seq(Int)
    BY <1>1
  <2> QED
    BY <1>1, <2>1, ConcatAssoc, Zenon
<1>3. ASSUME NEW s \in Seq(Int), NEW rest \in Seq(Int), Said = s, all = s \o rest
      PROVE  IsPrefix(Said, all)
  BY <1>3, PrefixIs
<1>4. IsPrefix(Said, all)
  <2>1. CASE at \in {"start", "copy", "write"}
    <3>1. Said = << >> /\ << >> \in Seq(Int)
      BY <2>1 DEF ConsoleInv
    <3>2. all = << >> \o all /\ all \in Seq(Int)
      BY <1>1
    <3> QED
      BY <1>3, <3>1, <3>2
  <2>2. CASE at = "announce"
    <3> DEFINE more == Crlf(<<NewLine>>) \o Line(Online)
    <3>1. Said = Crlf(Banner) /\ Crlf(Banner) \in Seq(Int) /\ more \in Seq(Int)
      BY <2>2, TextTypes DEF ConsoleInv
    <3>2. Announced = Crlf(Banner) \o more
      BY DEF Announced
    <3> HIDE DEF more
    <3>3. all = Crlf(Banner) \o (more \o (body \o Line(Clean)))
      BY <1>2, <3>1, <3>2, ConcatAssoc, Zenon
    <3>4. more \o (body \o Line(Clean)) \in Seq(Int)
      BY <1>2, <3>1
    <3> QED
      BY <1>3, <3>1, <3>3, <3>4
  <2>3. CASE at \in {"init", "launch"}
    BY <1>1, <1>2, <1>3, <2>3 DEF ConsoleInv
  <2>4. CASE at \in {"run", "verdict"}
    <3>1. PICK n \in 0..6 : Said = Announced \o Crlf(Body(n))
      <4>1. 6 \in 0..6
        OBVIOUS
      <4>2. (at = "run" => ip \in 0..6 /\ Said = Announced \o Crlf(Body(ip)))
            /\ (at = "verdict" => Said = Announced \o Crlf(Body(6)))
        BY DEF ShippedInv
      <4> QED
        BY <2>4, <4>1, <4>2, Zenon
    <3> DEFINE shown == Crlf(Body(n))
    <3>2. PICK rest \in Seq(Int) : body = shown \o rest
      BY TranscriptIs, Zenon DEF body
    <3>3. shown \in Seq(Int)
      BY TranscriptIs, Zenon
    <3>4. Said = Announced \o shown
      BY <3>1
    <3> HIDE DEF shown
    <3>5. Announced \o shown \in Seq(Int) /\ rest \o Line(Clean) \in Seq(Int)
      BY <1>1, <3>2, <3>3
    <3>6. Announced \in Seq(Int) /\ Line(Clean) \in Seq(Int)
      BY <1>1
    <3>7. (Announced \o shown) \o rest = Announced \o (shown \o rest)
      BY <3>3, <3>6, ConcatAssoc
    <3>8. ((Announced \o shown) \o rest) \o Line(Clean) =
            (Announced \o shown) \o (rest \o Line(Clean))
      BY <3>5, <3>6, ConcatAssoc
    <3>9. all = ((Announced \o shown) \o rest) \o Line(Clean)
      BY <1>1, <3>2, <3>7, Zenon
    <3> QED
      BY <1>3, <3>4, <3>5, <3>8, <3>9
  <2>5. CASE at \in {"halt", "halted"}
    <3>1. Said = all
      BY <1>1, <2>5 DEF ShippedInv, body
    <3>2. all = all \o << >> /\ << >> \in Seq(Int) /\ all \in Seq(Int)
      BY <1>1
    <3> QED
      BY <1>3, <3>1, <3>2
  <2>6. at \in Places
    BY DEF BootInv
  <2> QED
    BY <2>1, <2>2, <2>3, <2>4, <2>5, <2>6 DEF Places
<1>5. at = "halted" => printed = all
  <2> SUFFICES ASSUME at = "halted" PROVE printed = all
    OBVIOUS
  <2>1. pending = << >> /\ Said = all
    BY <1>1 DEF ConsoleInv, ShippedInv, body
  <2>2. printed \o << >> = printed
    BY <1>1
  <2> QED
    BY <2>1, <2>2 DEF Said
<1> QED
  BY <1>4, <1>5 DEF ConsoleInOrder, Said, all

(* The console of the program the repository ships: with texts that fit,   *)
(* every state shows a beginning of the transcript and the halted kernel   *)
(* all of it, the program being found clean (kernel_start, kuser_run,      *)
(* kuser_init_program).                                                    *)
THEOREM ShippedConsoleInOrder ==
    ASSUME InitSizes
    PROVE  BootSpec => [](Shipped => ConsoleInOrder)
<1> DEFINE Inv == ConsoleInv /\ (Shipped => ShippedInv)
<1>1. BootInit => Inv
  BY DEF BootInit, ConsoleInv, Said, ShippedInv
<1>2. BootInv /\ Inv /\ [BootNext]_bootVars => Inv'
  <2> SUFFICES ASSUME BootInv, Inv, [BootNext]_bootVars PROVE Inv'
    OBVIOUS
  <2>1. ConsoleInv'
    BY ConsoleStep DEF InitSizes
  <2>2. Shipped' = Shipped
    BY DEF BootNext, Kernel, EarlyInit, CopyBanner, WriteBanner, Announce, InitInit, Launch,
       RunOp, EndRun, Verdict, Halt, PutByte, Drain, Goto, bootVars, Shipped
  <2> QED
    BY <2>1, <2>2, ShippedStep
<1>3. BootInv /\ Inv => (Shipped => ConsoleInOrder)
  BY ShippedConsole
<1> QED
  BY <1>1, <1>2, <1>3, BootInvariant, PTL DEF BootSpec
=============================================================================
