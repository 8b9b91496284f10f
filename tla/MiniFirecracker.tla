--------------------------- MODULE MiniFirecracker --------------------------
(***************************************************************************)
(* The micro-VM monitor (src/part-09-microvm/mini_firecracker.c): it sets  *)
(* up a guest with KVM, runs it, plays the debug console on its I/O exits  *)
(* and ends when the guest halts.  The guest is the program of guest_code, *)
(* executed byte by byte.                                                  *)
(*                                                                         *)
(* KVM_RUN is not one step.  The guest runs until an exit, a signal may    *)
(* interrupt it before any instruction, and an OUT that has exited is      *)
(* completed by the next KVM_RUN, also by one that then returns EINTR.     *)
(***************************************************************************)
EXTENDS Integers, Sequences

CONSTANTS
    Message,        \* the text after the code, without its final 0
    GuestMemSize,   \* GUEST_MEM_SIZE
    ResetBase,      \* the base of cs at reset, 0xffff0000 in the machine
    MaxSignals      \* how many signals interrupt the monitor

ASSUME MessageAssumption == Message \in Seq(1..255)
ASSUME SizeAssumption ==
    /\ {GuestMemSize, ResetBase} \subseteq Nat /\ ResetBase >= GuestMemSize
    /\ 4096 + 15 + Len(Message) <= GuestMemSize
    /\ 4096 + 15 + Len(Message) <= 65536        \* si does not wrap
ASSUME SignalsAssumption == MaxSignals \in Nat

GuestEntry == 4096      \* GUEST_ENTRY, 0x1000
DebugPort  == 233       \* DEBUG_PORT, 0xe9

VARIABLES
    monitor,    \* where the monitor is in main
    vm,         \* what it has set up: [code, slot] in memory, mapped
    cpu,        \* the vCPU: cs and ds bases, ip, si, al, zf
    run,        \* the shared kvm_run: the latest exit
    pendingOut, \* an OUT has exited and is not completed
    signals,    \* the signals that have come
    console     \* what the debug console has put out

vars == <<monitor, vm, cpu, run, pendingOut, signals, console>>

-----------------------------------------------------------------------------
(* Mutants of Code: the loop closed one byte late, closed onto itself, and *)
(* tested after the output.                                                *)
CodeJumpShort ==
    <<190, 14, 16,  172,  132, 192,  116, 4,  230, DebugPort,  235, 248,  244,  0>>
CodeJumpToItself ==
    <<190, 14, 16,  172,  132, 192,  116, 4,  230, DebugPort,  235, 254,  244,  0>>
CodeTestLate ==
    <<190, 14, 16,  172,  230, DebugPort,  132, 192,  116, 2,  235, 247,  244,  0>>

(* guest_code up to the message: mov si, imm16; lodsb; test al, al;        *)
(* jz done; out port, al; jmp loop; done: hlt; padding.                    *)
Code == <<190, 14, 16,  172,  132, 192,  116, 4,  230, DebugPort,  235, 247,  244,  0>>

Image == Code \o Message \o <<0>>

(* What the guest reads at a physical address, and where it may.           *)
Mapped(a) == vm.slot /\ a \in 0..(GuestMemSize - 1)
Byte(a) ==
    IF vm.code /\ a - GuestEntry + 1 \in DOMAIN Image
    THEN Image[a - GuestEntry + 1] ELSE 0

Signed8(b) == IF b < 128 THEN b ELSE b - 256

(* A vCPU comes up at the x86 reset vector.                                *)
ResetCpu == [cs |-> ResetBase, ds |-> 0, ip |-> 65520, si |-> 0, al |-> 0, zf |-> FALSE]

Ip(n) == (cpu.ip + n) % 65536

NoExit == [reason |-> "none", port |-> 0, data |-> 0]

(* What main does before the first KVM_RUN, each step of which may fail.   *)
Setup ==
    <<"open", "version", "vm", "memory", "load", "slot", "vcpu", "mmap", "getsregs",
      "setsregs", "setregs">>

Init ==
    /\ monitor = [at |-> "setup", step |-> 1]
    /\ vm = [code |-> FALSE, slot |-> FALSE]
    /\ cpu = ResetCpu
    /\ run = NoExit
    /\ pendingOut = FALSE
    /\ signals = 0
    /\ console = << >>

At(where)  == monitor.at = where
Goto(where) == monitor' = [monitor EXCEPT !.at = where]

-----------------------------------------------------------------------------
(* A step of the setup; die, or a return, when the host refuses it.        *)
SetUp ==
    /\ At("setup")
    /\ \/ /\ LET step == Setup[monitor.step] IN
               /\ vm' = [vm EXCEPT !.code = @ \/ step = "load",
                                   !.slot = @ \/ step = "slot"]
               /\ cpu' = CASE step = "setsregs" -> [cpu EXCEPT !.cs = 0, !.ds = 0]
                           [] step = "setregs"  -> [cpu EXCEPT !.ip = GuestEntry, !.si = 0]
                           [] OTHER -> cpu
          /\ monitor' = IF monitor.step = Len(Setup)
                        THEN [monitor EXCEPT !.at = "run"]
                        ELSE [monitor EXCEPT !.step = @ + 1]
       \/ /\ Setup[monitor.step] # "load"
          /\ Goto("refused")
          /\ UNCHANGED <<vm, cpu>>
    /\ UNCHANGED <<run, pendingOut, signals, console>>

(* KVM_RUN enters the guest and first completes a pending OUT.             *)
Enter ==
    /\ At("run")
    /\ Goto("guest")
    /\ cpu' = IF pendingOut THEN [cpu EXCEPT !.ip = Ip(2)] ELSE cpu
    /\ pendingOut' = FALSE
    /\ run' = NoExit
    /\ UNCHANGED <<vm, signals, console>>

(* Mutant of Interrupted: EINTR handled as an exit of any other kind.      *)
InterruptedIsAnExit ==
    /\ At("guest")
    /\ signals < MaxSignals
    /\ signals' = signals + 1
    /\ run' = [run EXCEPT !.reason = "INTR"]
    /\ Goto("exit")
    /\ UNCHANGED <<vm, cpu, pendingOut, console>>

(* A signal: KVM_RUN returns EINTR, and the loop calls it again.           *)
Interrupted ==
    /\ At("guest")
    /\ signals < MaxSignals
    /\ signals' = signals + 1
    /\ run' = [run EXCEPT !.reason = "INTR"]
    /\ Goto("run")
    /\ UNCHANGED <<vm, cpu, pendingOut, console>>

(* KVM_RUN fails, or the host cannot enter or go on with the guest.        *)
HostFails ==
    /\ At("guest")
    /\ \/ Goto("refused") /\ UNCHANGED run                  \* die("KVM_RUN")
       \/ /\ run' \in {[NoExit EXCEPT !.reason = r] : r \in {"FAIL_ENTRY", "INTERNAL_ERROR"}}
          /\ Goto("exit")
    /\ UNCHANGED <<vm, cpu, pendingOut, signals, console>>

-----------------------------------------------------------------------------
(* The guest.  One step is one instruction.                                *)
Operand(n) == Byte(cpu.cs + cpu.ip + n)

(* A read outside guest memory exits for the monitor to emulate.           *)
Fault(reason) ==
    /\ run' = [NoExit EXCEPT !.reason = reason]
    /\ Goto("exit")
    /\ UNCHANGED <<cpu, pendingOut>>

Continue(newCpu) ==
    /\ cpu' = newCpu
    /\ UNCHANGED <<monitor, run, pendingOut>>

(* mov si, imm16                                                           *)
MovSi == Continue([cpu EXCEPT !.si = Operand(1) + 256 * Operand(2), !.ip = Ip(3)])

Lodsb ==
    IF Mapped(cpu.ds + cpu.si)
    THEN Continue([cpu EXCEPT !.al = Byte(cpu.ds + cpu.si),
                              !.si = (cpu.si + 1) % 65536, !.ip = Ip(1)])
    ELSE Fault("MMIO")

(* test al, al                                                             *)
TestAl == Continue([cpu EXCEPT !.zf = (cpu.al = 0), !.ip = Ip(2)])

(* jz rel8, jmp rel8                                                       *)
Jz  == Continue([cpu EXCEPT !.ip = Ip(2 + (IF cpu.zf THEN Signed8(Operand(1)) ELSE 0))])
Jmp == Continue([cpu EXCEPT !.ip = Ip(2 + Signed8(Operand(1)))])

(* out imm8, al                                                            *)
OutAl ==
    /\ run' = [reason |-> "IO", port |-> Operand(1), data |-> cpu.al]
    /\ pendingOut' = TRUE
    /\ Goto("exit")
    /\ UNCHANGED cpu

Hlt ==
    /\ run' = [NoExit EXCEPT !.reason = "HLT"]
    /\ Goto("exit")
    /\ UNCHANGED <<cpu, pendingOut>>

Execute(opcode) ==
    \/ opcode = 190 /\ MovSi
    \/ opcode = 172 /\ Lodsb
    \/ opcode = 132 /\ TestAl
    \/ opcode = 116 /\ Jz
    \/ opcode = 235 /\ Jmp
    \/ opcode = 230 /\ OutAl
    \/ opcode = 244 /\ Hlt

(* The instructions the program consists of; no other is given a meaning.  *)
Known == {190, 172, 132, 116, 235, 230, 244}

GuestStep ==
    /\ At("guest")
    /\ IF ~Mapped(cpu.cs + cpu.ip) THEN Fault("MMIO")
       ELSE IF Operand(0) \notin Known THEN Fault("undefined opcode")
       ELSE Execute(Operand(0))
    /\ UNCHANGED <<vm, signals, console>>

-----------------------------------------------------------------------------
(* Mutant of HandleExit: every exit but I/O ends the monitor with success. *)
HandleExitAllDone ==
    /\ At("exit")
    /\ \/ /\ run.reason = "IO" /\ run.port = DebugPort
          /\ console' = Append(console, run.data)
          /\ Goto("run")
       \/ /\ run.reason # "IO"
          /\ Goto("succeeded")
          /\ UNCHANGED console
    /\ UNCHANGED <<vm, cpu, run, pendingOut, signals>>

(* The switch over exit reasons.  A HLT ends the monitor, an OUT to the    *)
(* debug port is put out and the guest goes on, anything else fails.  What *)
(* putchar and fflush return is not looked at: the console is what the     *)
(* monitor hands to stdout, whether stdout takes it or not.                *)
HandleExit ==
    /\ At("exit")
    /\ \/ /\ run.reason = "IO" /\ run.port = DebugPort
          /\ console' = Append(console, run.data)
          /\ Goto("run")
       \/ /\ run.reason = "HLT"
          /\ Goto("succeeded")
          /\ UNCHANGED console
       \/ /\ run.reason \notin {"IO", "HLT"} \/ (run.reason = "IO" /\ run.port # DebugPort)
          /\ Goto("failed")
          /\ UNCHANGED console
    /\ UNCHANGED <<vm, cpu, run, pendingOut, signals>>

Next == SetUp \/ Enter \/ Interrupted \/ HostFails \/ GuestStep \/ HandleExit

(* The host schedules the monitor, and KVM the guest.                      *)
Spec == Init /\ [][Next]_vars /\ WF_vars(SetUp \/ Enter \/ GuestStep \/ HandleExit)

-----------------------------------------------------------------------------
TypeOK ==
    /\ monitor \in [at : {"setup", "run", "guest", "exit", "succeeded", "failed",
                          "refused"},
                    step : DOMAIN Setup]
    /\ vm \in [code : BOOLEAN, slot : BOOLEAN]
    /\ cpu \in [cs : {0, ResetBase}, ds : {0}, ip : 0..65535, si : 0..65535,
                al : 0..255, zf : BOOLEAN]
    /\ run \in [reason : {"none", "IO", "HLT", "INTR", "FAIL_ENTRY", "INTERNAL_ERROR",
                          "MMIO", "undefined opcode"},
                port : 0..255, data : 0..255]
    /\ pendingOut \in BOOLEAN
    /\ signals \in 0..MaxSignals
    /\ console \in Seq(1..255)

(* What the monitor has handed to stdout is the beginning of the message:  *)
(* no byte is lost, and none repeated when a signal interrupts KVM_RUN     *)
(* around an I/O exit.                                                     *)
OutputIsPrefix ==
    /\ Len(console) <= Len(Message)
    /\ console = SubSeq(Message, 1, Len(console))

(* A monitor that exits with success has handed the whole message to       *)
(* stdout.                                                                 *)
SuccessMeansAll == At("succeeded") => console = Message

(* The guest and the signals alone never make the monitor fail: it has the *)
(* guest's memory and registers set up so that each of its instructions    *)
(* can be executed, and every exit they cause is one the monitor handles.  *)
OnlyHostFails == At("failed") => run.reason \in {"FAIL_ENTRY", "INTERNAL_ERROR"}

(* The monitor ends, if the signals do.                                    *)
MonitorEnds == <>(monitor.at \in {"succeeded", "failed", "refused"})
=============================================================================
