------------------------------ MODULE KernelBoot ----------------------------
(***************************************************************************)
(* The start of the mini kernel (kernel/main.c): descriptor tables and the *)
(* serial port, a banner written by a system call, the init program run by *)
(* the user runtime, a verdict on it, and the halt loop.                   *)
(*                                                                         *)
(* Everything the kernel prints leaves through one UART, a device of its   *)
(* own: the kernel polls it before every byte while it drains at its own   *)
(* pace.  `pending' is what a call to klog or sys_write has still to put   *)
(* out; such a call returns when it is empty, so the kernel's next step    *)
(* waits for that.                                                         *)
(***************************************************************************)
EXTENDS UserRuntime, Descriptors, Uart, SequencesExt

CONSTANTS
    BannerTask,     \* init_task: pid 1, its window the text in banner_buffer
    InitProcess,    \* init_process: pid 2
    Banner,         \* "mini-kernel alive"
    BannerSize,     \* sizeof banner_buffer
    Online, Clean, Failed, CopyFailed, WriteFailed,     \* the texts of klog
    NewLine, Return13,  \* '\n' and '\r'
    InitMsg,        \* what init prints first
    InitPath,       \* "/etc/motd"
    InitMotd,       \* the bytes of that file
    InitBufferLen,  \* INIT_BUFFER_LEN
    InitPad,        \* the zeros after the path; fewer than INIT_BUFFER_LEN
    Programs        \* what kuser_init_program may return, with what it should
                    \* print and whether it should be found clean

ASSUME BootAssumption ==
    /\ Process = {InitProcess} /\ BannerTask \in Task \ Process
    /\ UserLen[BannerTask] = Len(Banner) /\ 0 < Len(Banner)
    /\ \A program \in Programs :
          /\ program.image \in Images /\ program.ops \in Seq(Op)
          /\ Len(program.ops) <= MaxOps
    /\ FirstFile < MaxFiles /\ BannerSize \in Nat
    /\ Cell \subseteq Int /\ NewLine \in Cell /\ Return13 \in Int
    /\ {Banner, Online, Clean, Failed, CopyFailed, WriteFailed} \subseteq Seq(Cell)

VARIABLES
    at,         \* where kernel_start is
    program,    \* what kuser_init_program returns
    pending,    \* the bytes the current call has still to put out
    printed,    \* history: the bytes put out so far
    uart,       \* the state of the UART
    wire,       \* the bytes as they arrive at the other end of the line
    tables,     \* the table registers of the processor
    got,        \* history: how many ops of the program have been carried out
    wrote       \* history: what those that are WRITEs found in memory

machineVars == <<uart, wire, tables>>
history     == <<got, wrote>>
bootVars    == <<userVars, at, program, pending, printed, machineVars, history>>

(* klog_putc: a new line is a return and a new line.                       *)
Crlf(text) ==
    FlattenSeq([i \in 1..Len(text) |->
        IF text[i] = NewLine THEN <<Return13, NewLine>> ELSE <<text[i]>>])

Line(text) == Crlf(Append(text, NewLine))

-----------------------------------------------------------------------------
(* Mutant of SerialInit: the line format not set, DLAB left on.            *)
SerialInitNoFormat(u) ==
    LET latched == Outb(Outb(u, "INTERRUPT", 0), "LINE_CONTROL", 128)
        speed   == Outb(Outb(latched, "DATA", 3), "INTERRUPT", 0)
    IN  Outb(Outb(speed, "FIFO", 199), "MODEM_CONTROL", 11)

(* arch_serial_init: no interrupts, DLAB, the divisor, 8N1, the buffer.    *)
SerialInit(u) ==
    LET latched == Outb(Outb(u, "INTERRUPT", 0), "LINE_CONTROL", 128)
        speed   == Outb(Outb(latched, "DATA", 3), "INTERRUPT", 0)
        format  == Outb(speed, "LINE_CONTROL", 3)
    IN  Outb(Outb(format, "FIFO", 199), "MODEM_CONTROL", 11)

Drain ==
    /\ uart.fifo # << >>
    /\ wire' = Append(wire, Arriving(uart))
    /\ uart' = Sent(uart)
    /\ UNCHANGED <<userVars, at, program, pending, printed, tables, history>>

(* serial_can_transmit: the line status says that the buffer is empty.     *)
(* Mutant: the loop of arch_serial_putc left out.                          *)
NoPolling == TRUE

CanTransmit == uart.fifo = << >>

(* arch_serial_putc, once its loop is over                                 *)
PutByte ==
    /\ pending # << >>
    /\ CanTransmit
    /\ uart' = Outb(uart, "DATA", Head(pending))
    /\ pending' = Tail(pending)
    /\ printed' = Append(printed, Head(pending))
    /\ UNCHANGED <<userVars, at, program, wire, tables, history>>

-----------------------------------------------------------------------------
(* A step of kernel_start, to its next place, with something to print.     *)
Goto(here, next, text) ==
    /\ at = here /\ pending = << >>
    /\ at' = next /\ pending' = text
    /\ UNCHANGED <<program, printed, wire>>

(* klog_init: arch_early_init                                              *)
EarlyInit ==
    /\ Goto("start", "copy", << >>)
    /\ tables' = [gdt |-> DefaultTable, gdtLimit |-> GdtrLimit(GdtDefaultEntries),
                  idtLimit |-> IdtrLimit(IdtDefaultEntries)]
    /\ uart' = SerialInit(uart)
    /\ UNCHANGED <<userVars, history>>

CopyBanner ==
    /\ IF Len(Banner) + 1 <= BannerSize
       THEN /\ Goto("copy", "write", << >>)
            /\ mem' = Store(UserBase[BannerTask], Append(Banner, 0))
       ELSE Goto("copy", "halt", Line(CopyFailed)) /\ UNCHANGED mem
    /\ UNCHANGED <<mounted, files, last, processVars, runVars, uart, tables, history>>

WriteBanner ==
    /\ KsyscallDispatch(BannerTask, [nr |-> 1, arg0 |-> 1,
                            arg1 |-> UserBase[BannerTask], arg2 |-> Len(Banner)])
    /\ IF last'.error = "OK"
       THEN Goto("write", "announce", Crlf(last'.bytes))
       ELSE Goto("write", "halt", Line(WriteFailed))
    /\ UNCHANGED <<processVars, runVars, uart, tables, history>>

Announce ==
    /\ Goto("announce", "init", Crlf(<<NewLine>>) \o Line(Online))
    /\ UNCHANGED <<userVars, uart, tables, history>>

InitInit ==
    /\ Goto("init", "launch", << >>)
    /\ KuserInitProcess(InitProcess)
    /\ UNCHANGED <<uart, tables, history>>

(* kuser_run begins, or refuses the program.                               *)
Launch ==
    /\ StartRun(InitProcess, program.image)
    /\ Goto("launch", IF running' = Idle THEN "verdict" ELSE "run", << >>)
    /\ UNCHANGED <<uart, tables, history>>

(* What an op has the kernel print: for a WRITE, what the memory it names  *)
(* holds.                                                                  *)
Named(op) ==
    IF op.opcode = "WRITE" THEN Load(UserPtr(InitProcess, op.offset), op.len) ELSE << >>

(* One op of the program; an op that is refused prints nothing.            *)
RunOp ==
    /\ ip < Len(program.ops)
    /\ Step(InitProcess, program.ops[ip + 1])
    /\ Goto("run", IF running' = Idle THEN "verdict" ELSE "run",
            IF ip' = ip + 1 THEN Crlf(last'.bytes) ELSE << >>)
    /\ IF ip' = ip + 1
       THEN got' = ip' /\ wrote' = wrote \o Named(program.ops[ip'])
       ELSE UNCHANGED history
    /\ UNCHANGED <<uart, tables>>

(* The loop ends after the last op, or once the process has exited.        *)
EndRun ==
    /\ ip = Len(program.ops) \/ exited[InitProcess]
    /\ FinishRun
    /\ Goto("run", "verdict", << >>)
    /\ UNCHANGED <<uart, tables, history>>

(* Mutant of InitOk: a status left at 0 taken for an exit with 0.          *)
InitStatusZero == outcome = "OK" /\ exitStatus[InitProcess] = 0

InitOk ==
    /\ outcome = "OK"
    /\ exited[InitProcess]
    /\ exitStatus[InitProcess] = 0

Verdict ==
    /\ Goto("verdict", "halt", Line(IF InitOk THEN Clean ELSE Failed))
    /\ UNCHANGED <<userVars, uart, tables, history>>

(* arch_halt: interrupts off, for ever                                     *)
Halt ==
    /\ Goto("halt", "halted", << >>)
    /\ UNCHANGED <<userVars, uart, tables, history>>

Kernel ==
    \/ EarlyInit \/ CopyBanner \/ WriteBanner \/ Announce \/ InitInit \/ Launch
    \/ RunOp \/ EndRun \/ Verdict \/ Halt
    \/ PutByte

(* A boot loader has handed over with the UART idle and DLAB clear.  The   *)
(* statics are zero; init_process is on the stack and holds anything.      *)
BootInit ==
    /\ mounted = << >>
    /\ files = [t \in Task |-> [fd \in 0..(MaxFiles - 1) |-> FreeFile]]
    /\ mem = [a \in Addr |-> 0]
    /\ last = Result(NoTask, 0, "OK", << >>)
    /\ slots \in [Process -> [Slot -> {-1, FirstFile}]]
    /\ exited \in [Process -> BOOLEAN]
    /\ exitStatus \in [Process -> {0, 1}]
    /\ lastError \in [Process -> {"OK", "EFAULT"}]
    /\ lastSyscallError = [p \in Process |-> "OK"]
    /\ running = Idle /\ ip = 0 /\ outcome = "OK"
    /\ at = "start"
    /\ program \in Programs
    /\ pending = << >> /\ printed = << >> /\ wire = << >>
    /\ uart \in [fifo : {<< >>}, dlab : {FALSE}, divisor : {1, 3},
                 format : {0, 3}, interrupts : BOOLEAN]
    /\ tables = [gdt |-> << >>, gdtLimit |-> 0, idtLimit |-> 0]
    /\ got = 0 /\ wrote = << >>

BootNext == Kernel \/ Drain

(* The processor runs, and the UART sends what it holds.                   *)
BootSpec ==
    /\ BootInit /\ [][BootNext]_bootVars
    /\ WF_bootVars(Kernel) /\ WF_bootVars(Drain)

-----------------------------------------------------------------------------
(* init_memory, init_fs and init_ops of user.c                             *)
InitImage ==
    [memory |-> InitMsg \o <<0>> \o InitPath \o <<0>>
                  \o [i \in 1..InitPad |-> 0],
     nodes  |-> << [path |-> InitPath, data |-> InitMotd, size |-> Len(InitMotd),
                    mode |-> FileMode] >>]

InitPathOff   == Len(InitMsg) + 1
InitBufferOff == InitPathOff + Len(InitPath) + 1

InitOps ==
    LET O(opcode, offset, len) ==
            [opcode |-> opcode, slot |-> 0, offset |-> offset, len |-> len,
             aux |-> 0, status |-> 0]
    IN  << O("WRITE", 0, Len(InitMsg)), O("OPEN", InitPathOff, Len(InitPath)),
           O("READ", InitBufferOff, InitBufferLen),
           O("WRITE", InitBufferOff, InitBufferLen),
           O("CLOSE", 0, 0), O("EXIT", 0, 0) >>

(* The sizes of main.c and user.c: the banner and its NUL fit their        *)
(* buffer, the image and the read buffer fit the process, and the file is  *)
(* no shorter than the buffer.                                             *)
InitSizes ==
    /\ Len(Banner) < BannerSize
    /\ {InitMsg, InitPath, InitMotd} \subseteq Seq(Cell) /\ InitPath # << >>
    /\ Null \notin {InitPath, InitMotd}
    /\ InitPad \in Nat /\ InitBufferLen \in Nat /\ InitBufferLen <= Len(InitMotd)
    /\ Len(InitImage.memory) <= MemorySize
    /\ InitBufferOff + InitBufferLen <= MemorySize
    /\ 0 < SlotCount

(* What the READ of InitOps brings in, and the program kuser_init_program  *)
(* really returns, with what it should print.                              *)
InitShown == SubSeq(InitMotd, 1, InitBufferLen)

Shipped ==
    /\ program.image = InitImage /\ program.ops = InitOps
    /\ program.prints = InitMsg \o InitShown /\ program.clean

-----------------------------------------------------------------------------
(* Type correctness of the kernel's start; the runtime under it has its    *)
(* own.                                                                    *)
BootTypeOK ==
    /\ TypeOK
    /\ at \in {"start", "copy", "write", "announce", "init", "launch", "run",
               "verdict", "halt", "halted"}
    /\ pending \in Seq(Int) /\ printed \in Seq(Int) /\ wire \in Seq(Int)
    /\ Len(uart.fifo) <= FifoSize

(* No byte is lost or overtaken between the kernel and the wire, however   *)
(* slowly the UART drains and whatever speed, format and interrupts the    *)
(* idle port was left with (arch_serial_init, the loop of                  *)
(* arch_serial_putc).                                                      *)
NothingLost == wire \o uart.fifo = printed

(* What should appear on the console: banner, announcement, what the       *)
(* program prints, as it is but for CR LF in place of each LF, and the     *)
(* verdict.  What a program prints need not end a line: the motd that      *)
(* ships is cut off at the size of the read buffer.                        *)
Transcript(p) ==
    Crlf(Banner) \o Crlf(<<NewLine>>) \o Line(Online) \o Crlf(p.prints)
        \o Line(IF p.clean THEN Clean ELSE Failed)

(* The console shows exactly that, in this order, whatever the program     *)
(* does: the output of the system calls and the kernel's own lines go      *)
(* through one port and never mix.                                         *)
ConsoleInOrder ==
    /\ IsPrefix(printed \o pending, Transcript(program))
    /\ at = "halted" => printed = Transcript(program)

(* Every selector of arch.h names, inside the table that was loaded, a     *)
(* present segment of its own ring and kind, readable if code and writable *)
(* if data, with the operand sizes of 64-bit code and of 32-bit data, that *)
(* covers all of memory: no field of the stored bytes spoils another.      *)
SelectorsLoaded ==
    at # "start" =>
      \A name \in DOMAIN Selector :
        LET selector == Selector[name]
            entry    == tables.gdt[selector \div 8]
        IN  /\ InTable(selector, tables.gdtLimit)
            /\ Present(entry) /\ IsSegment(entry) /\ Ring(entry) = selector % 4
            /\ Executable(entry) <=> name \in {"kernelCode", "userCode"}
            /\ LongMode(entry) <=> Executable(entry)
            /\ Default32(entry) <=> ~Executable(entry)
            /\ ReadWrite(entry) /\ CoversMemory(entry)

(* The kernel reaches its halt loop, and everything it printed leaves the  *)
(* port: no byte waits for ever in the loop of arch_serial_putc.           *)
BootEnds == <>[](at = "halted" /\ wire = Transcript(program))
=============================================================================
