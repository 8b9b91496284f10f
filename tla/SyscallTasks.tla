----------------------------- MODULE SyscallTasks ---------------------------
(***************************************************************************)
(* Tasks that make any system call with any register contents, in any      *)
(* order, while whoever owns the mount table replaces it (kfs_mount is     *)
(* global, kuser_run calls it for each program it starts).                 *)
(***************************************************************************)
EXTENDS Syscall

CONSTANTS
    Regs,       \* the register blocks a call is made with
    InitMem     \* the memory the tasks start with

ASSUME RegsAssumption ==
    /\ Regs \subseteq [nr : Addr, arg0 : Addr, arg1 : Addr, arg2 : Addr]
    /\ InitMem \in [Addr -> Cell]

Init ==
    /\ mounted = << >>
    /\ files = [t \in Task |-> [fd \in 0..(MaxFiles - 1) |-> FreeFile]]
    /\ mem = InitMem
    /\ last = Result(NoTask, 0, "OK", << >>)

Next ==
    \/ \E t \in Task \cup {NoTask} :
          \/ \E regs \in Regs : KsyscallDispatch(t, regs)
          \/ DispatchNullRegs(t)
    \/ \E table \in Tables : KfsMount(table)

Spec == Init /\ [][Next]_vars

-----------------------------------------------------------------------------
(* Type correctness: the kernel's own, over the tables of the system.      *)
TypeOK == KernelTypeOK /\ mounted \in Tables \cup {<< >>}

(* No call changes memory outside the window of the task that made it,     *)
(* whatever pointer and length it was given (task_contains_user_range).    *)
MemoryConfined ==
    [][\A a \in Addr : mem'[a] # mem[a] =>
          /\ last'.task # NoTask
          /\ a \in Window(last'.task)]_vars

(* The bytes a descriptor has still to deliver.                            *)
Rest(file) ==
    [i \in 1..(file.node.size - file.offset) |-> file.node.data[file.offset + i]]

(* The file a node is, to the one who opens it and to the one who asks.    *)
FileOf(node) ==
    [content |-> [i \in 1..node.size |-> node.data[i]],
     about   |-> KfsStatNode(node)]

Names == {n.path : n \in {m \in Node : NodeIsValid(m)}}

Directory ==
    [name \in {p \in Names : KfsLookup(mounted, p) # Null} |->
        FileOf(KfsLookup(mounted, name))]

(* The call a register block asks for.                                     *)
Call(regs) == <<CallNumber(regs.nr), regs.arg0, regs.arg1, regs.arg2>>

Streams == INSTANCE DescriptorStreams WITH
    Owned  <- [t \in Task |-> Window(t)],
    Calls  <- {Call(regs) : regs \in Regs},
    Closed <- Null,
    dir    <- Directory,
    rest   <- [t \in Task |-> [fd \in FileFd |->
                  IF files[t][fd].used THEN Rest(files[t][fd]) ELSE Null]],
    reply  <- [task  |-> last.task,  value |-> last.value, error |-> last.error,
               bytes |-> last.bytes, exits |-> last.exits]

(***************************************************************************)
(* The calls implement streams: each call is answered exactly as the       *)
(* abstract one with its number and arguments, whose answer is determined. *)
(* So a descriptor delivers the bytes of the file it was opened on, each   *)
(* once and in order, across short reads, refused calls, other tasks'      *)
(* calls and remounts; a write emits the bytes it names; stat stores the   *)
(* description of the named file; a refused call changes nothing.          *)
(***************************************************************************)
ImplementsStreams ==
    /\ Streams!Spec
    /\ [][\A t \in Task, regs \in Regs :
             last'.task = t /\ KsyscallDispatch(t, regs)
                 => Streams!Serve(t, Call(regs))]_vars

(* A number outside the table of calls is answered ENOSYS and changes      *)
(* nothing: tests/test_syscall.c expects it of an unknown number.          *)
UnknownIsRefused ==
    [][\A t \in Task, regs \in Regs :
          KsyscallDispatch(t, regs) /\ regs.nr > 6
              => last'.error = "ENOSYS" /\ UNCHANGED <<files, mem>>]_vars
=============================================================================
