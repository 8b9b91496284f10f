# A verification of mini-isolation-lab

The repository teaches isolation in two halves. `mini-kernel/` is a small
x86-64 kernel: a boot sector and a real-mode monitor, a system-call dispatcher
with descriptors and a read-only filesystem, and an interpreter of user
programs. `src/part-01` to `src/part-14` are host programs, each a lesson on one
mechanism of Linux: clone, cgroups, a small container runner, user namespaces,
seccomp, capabilities, KVM. These modules specify the parts of both that keep
state or run concurrently, check them with TLC on small instances and prove
what matters most with TLAPS for every instance.

## Inventory

| Component | State | Operations | Talks to | What is hard, and what makes it correct |
| --- | --- | --- | --- | --- |
| System calls (`kernel/syscall.c`) | descriptor table and memory window of each task | read, write, open, close, stat, getpid, exit | filesystem, `write_byte` | pointers that wrap, refused calls that must change nothing, descriptors that outlive the mount: memory confined to the caller, each descriptor a stream of its file |
| Syscall entry (`kernel/syscall_entry.c`) | trap frame | frame to registers and back | dispatcher | register order |
| Filesystem (`kernel/fs.c`) | the one mount table | mount, lookup, stat, read at an offset, handles | system calls, user runtime | invalid nodes, end of file, a table replaced under open descriptors |
| User runtime (`kernel/user.c`) | slots, exited, errors, memory of a process | init, run a program of ops | syscall entry, `kfs_mount` | slots and descriptors in step over failed ops and several programs; checks at both levels agree |
| Kernel start and console (`kernel/main.c`, `serial.c`) | banner, `init_process` on the stack, serial port | `kernel_start`, `klog_*`, `arch_serial_putc` | all of the above, the UART | a device at its own pace, polled without a time limit; a verdict read from a structure nobody has cleared: nothing lost, everything in order, the halt loop reached |
| Descriptor tables (`gdt.c`, `idt.c`, `cpu.c`) | GDT, IDT | encode, load | CPU | base, limit and flags split over five fields, 16-bit limits: what the processor reads is what was asked for |
| Boot sector (`boot/bootsector.S`) | registers, drive, stage2 in memory | far jump, set up, load stage2, hand over | BIOS | addresses of a sector that is never linked: control stays at the labels |
| Stage2 monitor (`boot/stage2.S`) | command buffer, `di`, `cx`, the screen's row | key, erasure, Enter and its command | BIOS | a buffer of 32 bytes, the rest of an older line in it, keys that show as nothing: buffer, row and command agree |
| Container runner (`part-07`) | parent, child, pipe, cgroup | clone, limit, release, wait, clean up; isolate, execute | host kernel | two processes, any step fails, either killed: limits before the command, nobody waits for ever, nothing left behind |
| User-namespace mapping (`part-12`) | parent, child, pipe, `/proc` files | clone, map uid, deny setgroups, map gid, release, wait; show ids | host kernel | the same, and the kernel's order for `gid_map` |
| Cgroup lesson (`part-06`) | one fixed directory | create, limit, fork, remove | host kernel | runs that overlap on one directory; clean-up on failure: limits in force, nothing left |
| Micro-VM monitor, memory slots (`part-09`, `part-10`) | vCPU, guest memory | run loop, I/O exit, halt; slots | KVM | a retried `KVM_RUN`; no byte lost or repeated |
| Hardening, capabilities (`part-11`, `part-14`) | process attributes | drop, enter seccomp, observe | host kernel | what the parent may conclude from how the child ended |
| KVM probes, process lessons (`part-01` to `05`, `08`, `13`) | none that lasts | straight-line calls | host kernel | output of a cloned child left in its stdio buffer |

The full list, with what is modelled and what is not, is under `components` in
`PROJECT.json`; every hazard found in the code, with its line and the properties
that cover it, is under `hazards`.

## Modules

```
KernelFs <- Syscall <- SyscallTasks <- MCSyscall
                       SyscallTasks  = INSTANCE => DescriptorStreams (abstract)
                       SyscallTasks <- FsHandles
                    <- UserRuntime  <- MCUser
                       UserRuntime, Descriptors, Uart <- KernelBoot <- MCBoot
                       Syscall, Uart <- KernelLemmas
FsHandles, KernelLemmas   <- SyscallTasksProofs
KernelBoot, KernelLemmas  <- KernelProofs
SyncPipe <- MiniContainer <- MiniContainerProofs
         <- UsernsMap     <- UsernsMapProofs
CgroupLimit <- CgroupLimitProofs
MiniFirecracker <- MCMicroVm, MiniFirecrackerProofs
Stage2Monitor <- MCStage2
Stage2Monitor, Descriptors <- BootProofs
BootSector <- MCBootSector
```

**KernelFs** is `fs.c` as functions over a mount table: which node a path
finds, how many bytes a read copies and which, what stat reports. Tables may
hold invalid nodes, as the C type allows.

**Syscall** is `syscall.c` and `syscall_entry.c`. `files` is `task.files`, `mem`
the one address space that all tasks and the kernel share, `mounted` the mount
table, and `last` the result of the latest call together with the bytes it gave
to `write_byte`. One call is one step: the kernel is not preempted and has one
CPU. A call is a disjunction of its error exits, in the order the code takes
them, and its success. Addresses wrap at `WordMod` (2^64 in the build), and
`int` and the enum of call numbers at `IntMod` (2^32).

**SyscallTasks** lets every task, and a missing one, make any call with any
registers of a set while tables are mounted.

**DescriptorStreams** is what the calls promise without nodes, offsets and
tables: a descriptor is the stream of the bytes it has still to deliver, `dir`
says which content and description each name has, and a range is the caller's
when every address of it is. It knows no pointer arithmetic. Each call has
exactly one answer (`Serve`), refusals and their reasons included: a read
delivers the next `min(len, left)` bytes and advances by as many, a write emits
the cells it was given, `stat` stores the description of the named file, and
every other cell, stream and reply field is fixed too. `ImplementsStreams` is
the refinement, with `rest[t][fd]` mapped to what the node holds beyond the
offset and `dir` to what `kfs_lookup` finds. Besides `Streams!Spec` it ties each
step to its call: a step in which task `t` makes the call with registers `regs`
is the abstract call of `t` with that number and those arguments, so a read can
not be excused as some other call that happens to be allowed.

**FsHandles** adds the other interface of `fs.c` to `SyscallTasks`: code inside
the kernel opens a handle, reads from it piece by piece and asks for sizes,
while tasks make calls and tables are mounted. `got` is what it has read since
it opened the handle.

**UserRuntime** is `user.c` over `Syscall`: one step is one turn of the loop of
`kuser_run`. The ops of a program are chosen as they are reached, so a run of
the model stands for every program of at most `MaxOps` ops. `kuser_run` may be
called again on a process that has failed, finished or exited, because nothing
in the code prevents it, and `kuser_init_process` may reset it in between.

**KernelBoot** composes the kernel: `kernel_start` sets up descriptor tables and
the serial port, writes its banner with a system call of `init_task`, runs a
program on `init_process` (the steps are those of `UserRuntime`) and prints a
verdict. The UART is a device of its own (**Uart**, modelled from how the kernel
uses it), with a divisor latch, a format and a buffer, and `Drain` takes a byte
out of it whenever it likes. `pending` is what
the current call has still to put out, one byte per `PutByte` after polling;
`printed` is what has been put out and `wire` what has come out at the other
end; `got` and `wrote` record how many ops of the program have been carried out and
what those that are WRITEs found in the memory they name. The port is found idle
with DLAB clear, as a boot loader leaves it, at whatever speed, in whatever
format and with or without interrupts. `init_process` starts with any content, as a variable on the stack does.
A program comes with two annotations, what it should print and whether it should
be found clean, which only the properties read; `Shipped` is the program of
`user.c`, and `InitSizes` says that its texts fit (the banner its buffer of 64, the
image and the read buffer the 512 bytes of a process, the motd being longer than
the buffer). `MCBoot` has TLC evaluate `InitSizes` for its instance.

**Descriptors** is `gdt.c` and `idt.c` as numbers: an entry and a gate with
their fields, the 16-bit limits, and beside them what the processor reads out of
the fields. Masks are remainders and shifts are quotients.

**Stage2Monitor** is the monitor's command line. One step is one key: a
character, an erasure, or Enter, which compares the buffer up to its NUL with
each name in turn. A character shows as itself, as a blank (extended keys) or not
at all: Bell (Ctrl-G) leaves the screen as it is, a line feed (Ctrl-J) takes the
cursor to the row below. `row` is what the row the cursor is in shows, kept by what
the BIOS teletype does with each character.

**BootSector** follows the sector from label to label. An instruction names an
address; where it ends up depends on the segment, and so on where the section
was linked to run.

**MiniContainer** and **UsernsMap** are the two programs with a parent and a
child that run concurrently. Each system call with an effect is a step of its
own. It may fail wherever the host can make it fail, and `KillParent` and
`KillChild` may come between any two steps. **SyncPipe** is the pipe they
synchronise on, with its ends held per process: clone copies both ends into the
child. A process that ignores SIGPIPE or SIGCHLD passes that on to the programs it
starts, so the write of the byte may fail with EPIPE and `waitpid` with ECHILD:
either program then dies on the spot (`Die` in `MiniContainer`), its cgroup left.

**CgroupLimit** is the cgroup lesson run several times at once. Its directory
has a fixed name and an existing one is accepted, so the runs share it: `dir` is
that one directory, and each run `r` has its own `parent[r]` and `child[r]`.
`RemoveDir` is `cleanup_cgroup`: a cgroup with a living member stays, and so does
one the host will not remove, whatever its reason; a run that meets with that has
the result `stale`, one whose `mkdir` is refused the result `refused`.

**MiniFirecracker** is the micro-VM monitor with its guest. `SetUp` is the
sequence of calls before the loop; `Enter`, `Interrupted`, `HostFails` and
`GuestStep` are what `ioctl(KVM_RUN)` can do; `HandleExit` is the switch. The
guest is executed from the bytes of `guest_code`, because that its hand-counted
offsets fit is part of what can be wrong; each instruction is an operator
(`MovSi`, `Lodsb`, `Jz`, ...) and `Execute` decodes. An OUT is completed by the next
KVM_RUN, which is why a retry after EINTR needs care: `pendingOut` keeps it.
`console` is what the monitor hands to stdout with `putchar`. That `putchar` or
`fflush` fails is not modelled: the code looks at neither (lines 124-127), goes on
and ends with success, so what stdout takes is no claim of this model.

## Runs

| Run | Instance | What it shows |
| --- | --- | --- |
| `syscall_tasks` | two tasks with adjacent windows of 3 and 1 cells in a 10-address space, one descriptor each, two tables with an invalid node and one path in both | descriptors are sound, no call writes outside the caller's window, the calls implement streams |
| `unknown_number` (violation) | the same, with a register block whose number is `IntMod + 1` | the number is executed as `write`, not answered ENOSYS |
| `user_runtime` | one process, 3 cells, 2 slots, 3 descriptors, programs of at most 3 ops, three images | slots own their descriptors, the runtime's checks make the kernel's pass, a descriptor is lost only by OPEN into a used slot, EMFILE comes only after such a loss, exit is final |
| `mini_container` | all failures, kills at every point, a cgroup that was there before | a released child is limited or the parent has said why not; a runner that returns from `main` has reaped, and has removed the cgroup or said that the host refused; the host sees neither hostname nor mounts; the runner waits for no child that waits for it; nobody waits for ever |
| `userns_map` | uid and gid each 0 or 1000, with and without `/proc/<pid>/setgroups` | the child sees root or nothing, success means mapped, groups are never dropped, the parent waits for no child that waits for it, the parent ends |
| `userns_orphan` (violation) | the same | a parent that gives up leaves its child blocked for ever |
| `cgroup_three` | three overlapping runs, an old directory or none | when all have ended, none killed, a directory that is left is one the host would not remove, or none could make; a child that reports its limits has them, unless one run has returned and another has made the directory anew |
| `cgroup_unlimited` (violation) | three overlapping runs | a child reports limits that a third run's new directory does not have |
| `micro_vm` | the program's own message, three signals at any point | what is handed to stdout is a prefix of the message, success means all of it, the guest never causes a failure, the monitor ends |
| `kernel_boot` | the init program that ships and six that end otherwise, over a UART with two cells | no byte lost on the way, console complete and in order with the right verdict, selectors loaded as meant (ring, kind, operand size, and all of memory in 4K pages), the halt loop reached |
| `stage2_monitor` | a buffer of four cells, five names of one to three characters, some the beginning of another | buffer holds the line, the row shows it unless it has a Bell or a line feed, nothing erased stays behind the cursor, Enter runs what was typed |
| `boot_sector` (violation) | the build's own offsets, origin 0, two drives | the first instruction leaves the sector |

**Why the bounds are enough.** The windows of `syscall_tasks` touch each other,
so a range one cell too long lands in the other task; the ranges tried are
empty, inside, at each edge, across each edge and wrapped. Files are one and two
bytes long and reads ask for one or two, which gives short reads, reads at the
end and reads that continue. `MaxFiles = 4` leaves one descriptor, so EMFILE is
one step away. In `user_runtime` there is one descriptor more than slots, as
many programs follow each other as one likes, and each op has operands inside,
at and one past its limit. The two-process programs are finite as they stand:
their runs have no bound at all but the sets of exit codes and ids. Two runs of
the cgroup lesson cannot lose a limit, because it takes one to remove the
directory and another to make it again (theorem `TwoRunsKeepLimits`); three can,
so three is the number that matters. In `micro_vm` only the signals are bounded (`MaxSignals`): three are
enough to hit an OUT before, while and after it is completed. A buffer of two
cells can hold a byte when the next is to be sent, which is all that polling
is about; the texts of `kernel_boot` are short, and the file of its shipped
program is longer than the program's buffer, as it is in the source. In
`stage2_monitor` four cells are filled by three keys, so that the fourth, erasures
at either end, and an older line behind a shorter one all occur. `BootSector`
has no bound; its offsets are those of the assembled sector.

**Scaled constants.** `WordMod` and `IntMod` are 10 and 8 where the build has
2^64 and 2^32. The code's arithmetic depends on them only through wrapping and
truncation, which the small values exercise; the proofs hold for all values
with `6 < IntMod <= WordMod`. `Descriptors` has the real widths.

**Fairness.** `MiniContainer`, `UsernsMap`, `MiniFirecracker` and `KernelBoot`
have liveness properties. The first two assume weak fairness of the parent's and of the child's next step: the host
schedules a process that can run, a system call returns, and the command that
is executed ends some day (`CommandExits`, an assumption about the command).
Nothing is assumed of kills. `MiniFirecracker` assumes that the monitor and its
vCPU are scheduled and that signals do not come for ever. `KernelBoot` assumes
that the one CPU goes on executing (`WF(Kernel)`) and that the UART goes on
sending (`WF(Drain)`): nothing in the code bounds the polling, so without the
second the kernel may poll for ever. The other kernel modules and the monitor
assume no fairness and claim no liveness: a task need not make another call,
nor a user press another key.

**Deadlock.** It is checked in the kernel runs. The host programs come to an
end, so their runs say `CHECK_DEADLOCK FALSE`; that nobody waits for ever
is stated as `NoCircularWait` and as liveness instead (not for `CgroupLimit`, which has none). The
same holds of `kernel_boot`, `stage2_monitor` and `boot_sector`, where the
machine ends in a halt loop.

## Proofs

`KernelLemmas` proves what one call does, for any tasks, windows, nodes,
tables, register contents and word size, from the assumptions `NodeAssumption`
and `TaskAssumption`: a node points at `size` bytes or at none, and a task's
memory is an object of the program that does not wrap. The argument:

1. `LookupSound`: what `kfs_lookup` returns is a valid node of the table, or
   NULL; `LowestFreeIsFree`: `sys_open` hands out a free descriptor in range.
2. `RangeInWindow`: a non-empty range that `task_contains_user_range` accepts
   lies in the caller's window, which lies in memory. This is where both
   overflow checks are needed.
3. `ReadSound`: a read from a sound descriptor copies at most `len` cells and
   leaves the offset at or before the end.
4. One lemma per call (`WriteKeeps` to `ExitKeeps`), put together in
   `DispatchKeeps`.

`SyscallTasksProofs` builds the invariant of the system on it. Type correctness
alone is not inductive: a read is well typed only because its descriptor names
a valid node it has not passed the end of, so the inductive invariant is `TypeOK
/\ OpenFilesSound`. From it follow `TypeCorrect`, `FilesSound` and, as an action
property, `Confined`. The module also proves `HandlesDeliver` of `FsHandles`:
each read of a handle returns the bytes that follow those of the reads before
it. Its invariant adds that a handle's node is valid and that its offset counts
what was read; no system call and no mount disturbs it, because a handle keeps
its node.

The third part of the module proves the refinement, `Spec => ImplementsStreams`.
One lemma per call (`WriteImplements` to `ExitImplements`) shows that it is
answered as the abstract call with its arguments; a mount is an abstract mount.
What makes it more than a renaming is `OwnsIs` (the overflow and end tests of
`task_contains_user_range` admit a range just when each of its addresses is in
the window), `LookupIs` (`kfs_lookup` finds a name just when the directory has
it), `RestIs` (soundness of a descriptor makes its rest a sequence),
`ClosedIsFree` (the lowest free descriptor is the lowest closed one) and, for a
read, that what is stored in memory and what is dropped from the stream are the
same bytes. It assumes that NULL is not a sequence of bytes (`NullIsNoStream`),
so that an open stream is never taken for a closed one.

`KernelProofs` first proves the invariants of the user runtime, for any number of
processes, any program and any sizes of memory, slot table and descriptor table.
The inductive invariant is `TypeOK /\ OpenFilesSound /\ SlotsOwnDescriptors /\
RuntimeChecksSuffice`, and its parts need each other: the kernel accepts a read
or a close through a slot only because the slot owns an open descriptor, and
CLOSE leaves the other slots sound only because no two slots hold the same one.
The argument goes from what a call does to the descriptor table once the
runtime's checks have passed (`WriteEffect` to `ExitEffect`), through a step of
ownership (`OwnershipStep`) and one trap (`EntryKeeps`, `RunFrameKeeps`), to one
lemma per opcode and `StepKeeps`. The same lemmas say what a turn of the loop does
to slots and descriptors (`TurnEffect`), from which the action properties follow.
That EMFILE comes only after a loss needs one more invariant, `Full` (after EMFILE
every descriptor is in use until the next run), and the pigeonhole principle: it
holds where there are more descriptors than slots, as in the code (five and
four). Theorems: `TypeCorrect`, `SlotsOwn`, `ChecksSuffice`, `LostByReopen`,
`ExitStays`, `EmfileAfterLeak`, and `ExitStatusExact`: where the word is a multiple of
the int, as 64 bits are of 32, an EXIT's status comes back from the register as
it went in, negative or not (`IntRoundTrip`). None of this uses the assumptions of `KernelBoot`.

The rest of `KernelProofs` is about the kernel's start, from `BootAssumption` (one
user process, programs made of the ops and images there are, texts made of
cells) and `FifoAssumption`, for any texts, any programs and any buffer:

1. `BootInv` is the inductive invariant. `RuntimeOK` is the runtime's invariant,
   except that slots own nothing before `kuser_init_process` has run: until then
   they hold what was on the stack. `SerialOK` says of the port what keeps bytes
   from being lost: before `arch_early_init` it is idle with DLAB clear; after it
   the line is at 38400 8N1 and its buffer within bounds. `NothingLost` alone is
   not inductive: with DLAB left on, the next byte would set the divisor. One
   lemma per action (`EarlyInitInv` to `PortInv`), each a use of the runtime's
   lemmas or of `GotoKeeps`, `PutByteKeeps` and `DrainKeeps`.
2. `ConsoleInv` says what has been said (`Said`: printed, or about to be) at each
   place of `kernel_start`; in the middle it is `wrote`, because an op that is
   carried out prints what `Named` says and no other op prints (`OpOutcome`,
   `RunOpOutcome`). That a byte put out moves from `pending` to `printed`
   does not change it (`SaidPort`), and each call of `klog` appends its text
   (`SaidGoto`); that the texts of several calls are the text of the calls'
   bytes together is `CrlfConcat`. `WriteSucceeds` is why the banner appears:
   the copy is in `init_task`'s window and the window is as long as the banner.
   `EndedInv` relates the verdict to the program: the process has exited just if
   the last op carried out is an EXIT, and with its status, where a status is an
   int and a word holds whole ints (`StatusesFit`).
3. `ShippedInv` follows the program of `user.c` call by call: `InitPhase(n)` is what
   the process has open and what its memory holds after n of its six calls, as
   far as the calls still to come need it. `WriteOp`, `OpenOp`, `ReadOp`, `CloseOp`
   and `ExitOp` are the calls, from the runtime's check through the trap frame to
   the kernel's effect; `InitMemoryIs` says where the image's texts lie.

`ConsoleComplete` follows from the second for every program, under the two
hypotheses that the banner fits its buffer and that statuses are ints: the halted
kernel has put out the banner, the announcement, `wrote` with CR LF for LF, and
`clean` exactly if the last op carried out is an EXIT with 0; `ShippedConsoleInOrder` from all
three, under `InitSizes`, which the constants of `main.c` and `user.c` satisfy.
Other theorems: `BootTypeCorrect`, `SerialKeepsBytes`, `SelectorsSound`.
`Crlf` flattens a sequence of sequences, which the library defines by a recursive
function, so what it does to a concatenation needs an induction over the
naturals. The induction is said of a set (`SetInduction`, from a well-founded
order) and not of an operator, for the reason given below: first that there is
a function with the recursion's values (`FlatteningExists`), then that it is the
only one (`FlatteningUnique`).

`MiniContainerProofs` and `UsernsMapProofs` prove the safety properties of the
two concurrent programs: in every interleaving, with every failure and kill, for
any exit codes and any ids. Where parent and child are does not say what the
byte in the pipe stands for, so the invariants do: a byte in the pipe, or a
child past it, implies `Limited` (`ReleasedIsLimited`), respectively `Mapped`
(`ReleasedIsMapped`); `LimitsSoFar` and `MapsSoFar` say how far the parent has
got towards it; and `NotReleasedEarly` that the pipe is empty before. The end of
a process has one lemma for all the steps in which it may come
(`ParentEndKeeps`, `ChildEndKeeps`), and each other step one of its own.
Theorems: `TypeCorrect` in both; `Limits`, `Clean` and `HostKept`; `SeesRoot`,
`Success` and `GroupsKept`.

What can be proved of their liveness is the part that needs no fairness.
`WaitIsFounded` (the property `NoCircularWait`) says that a parent in `waitpid` never
waits for a child that waits for it; the invariant behind it, `Awaited`, is
that past the release the byte stays in the pipe until the child takes it.
`RunsOut` says that every step lowers the natural number `StepsLeft`, so that
there is no endless run either. What stays with TLC is that whoever can step does.

`CgroupLimitProofs` proves the safety of the cgroup lesson for any number of
overlapping runs. What a run has done to the shared directory says nothing
about its state, so the invariant says what the others cannot have done. A run
is underway from `mkdir` to the end of its child; if the directory is missing
meanwhile, another run has returned, and if it lacks a limit the run has set, a
third has made it anew (`DirOfUnderway`). `MembersKeepDir` is the kernel's rule
for `rmdir`, `Bookkeeping` ties results to ends, and `Minded`, from which `Clean`
follows, says that while the directory is there a run is yet to remove it, or a
kill or a refusal excuses that none is. Theorems: `TypeCorrect`,
`Clean`, `Limits`, and `TwoRunsKeepLimits`, by which what `cgroup_unlimited` shows
needs three runs.

`MiniFirecrackerProofs` proves the micro-VM for any message of non-zero bytes
that fits the guest's memory and lies below 64 KiB from it
(`MessageAssumption`, `SizeAssumption`), any bound on signals and any refusal of
the host. The inductive invariant says, for each instruction of the guest, what
`si`, `al` and `zf` owe to the bytes put out so far (`Location`), and in which
two states an OUT may be pending: exited and not yet put out, or put out and
not yet completed (`Progress`). That an interrupted `KVM_RUN` loses or repeats
nothing is the step between those two. Theorems: `TypeCorrect`, `Output`,
`Success`, `OnlyHost`.

`BootProofs` proves the monitor for any keys, any names that differ and any size
of the buffer. `ScreenKept` rests on what one character and one erasure do to the
row (`TeletypeShows`, `RubOutEffect`) and on an invariant that holds of every line,
that the cells behind the cursor are blank. `RunsTyped` needs no trace of older lines: the buffer holds the
typed line and Enter writes the NUL behind it, so nothing beyond is compared.
It also proves the encodings: the processor reads out of a stored GDT entry or
IDT gate what it was made from (`EntryRoundTrip`, `GateRoundTrip`), and
`LimitsFit` says for how many entries the 16-bit limit is exact. The bound of
a 64-bit handler is stated through its halves, because tlapm's arithmetic on
literals stops at 63 bits.

Only model-checked: liveness; what is refuted (the `violation` runs); and
`ConsoleInOrder` of the six programs of `MCBoot` that do not ship, because what
they should print is an annotation made by hand, not a consequence of their ops
(`ConsoleComplete` says of every program what its own ops make it print). Liveness is out of
the prover's reach, and so are the library's induction theorems, which take an
operator as a parameter.

## Findings

- `unknown_number`: `ksyscall_dispatch` switches on the register cast to an
  enum, which keeps its low 32 bits (`syscall.c:192`), so 2^32 + 1 is `write`.
  `tests/test_syscall.c:372-376` expects unknown numbers to be answered ENOSYS.
- `userns_orphan`: `child_main` of `userns_map.c` keeps its copy of the pipe's
  write end, so when the parent exits in `write_id_maps` the child's read never
  sees end of file. The message of line 137 cannot be printed.
  `mini_container.c` has the same pipe; there the parent has to be killed.
- `cgroup_unlimited`: with three runs of the cgroup lesson at once, one can
  remove the directory another has limited and a third make it anew before the
  first one's child joins it (`cgroup_limit.c:98`, `EEXIST` on a fixed path). The
  child then prints limits that are not in force;
  `docs/parts/part-06-cgroups.html:189` says that it is subject to them.

- `boot_sector`: the sector is assembled and cut out with `objcopy`, but never
  linked (`mini-kernel/Makefile:77-83`), so `boot_entry` is 5 and the far jump of
  `bootsector.S:17` goes to 0000:0005 instead of 0000:7c05. All else in the
  sector is relative or addressed through `ds` = 07c0 and right as it is, so no
  origin mends it: linked at 7c00 the jump arrives and the messages are garbage
  (`Origin = 31744`). The jump would have to use segment 07c0.

Seen while modelling, and stated by no run:

- The motd that ships has 42 bytes and init reads at most `INIT_BUFFER_LEN`, 40
  (`user.c:156,168`). The console shows it without its last letter and new line,
  and the verdict follows on the same row. `MCBoot` has a file longer than the
  buffer for this reason, and `ConsoleInOrder` is stated with what fits.
- Bell and line feed (Ctrl-G and Ctrl-J) are stored by the monitor like any key.
  Bell shows as nothing, so erasing it takes a cell of the prompt; a line feed goes
  on in the row below, and erasing it moves the cursor left there. What the row shows
  is stated of lines without them, that nothing erased stays of every line.
- A killed runner of `mini_container.c` leaves its child on the pipe, as in
  `userns_orphan`; no property of that run speaks of it.

## Not modelled

- **KVM memory slots** (part 10), **capability demo** (part 14), **KVM probes**
  (parts 8 and 13) and the **process and clone lessons** (parts 1 to 5) are
  straight lines of host calls. Nothing comes between two of them, each failure
  ends the program, and what there is to say is what one call returned.
- **Hardening demo** (part 11): each demo is one child that restricts itself, and
  one reading of its status by the parent. A model would restate the condition.
- **Memory and string helpers**, **panic and assertions**: loops over their
  arguments and a halt, used through their effect. The checked copies decide
  `CopyBanner` and `StartRun`.
- **A boot loader for the kernel**: `KernelBoot` assumes that one hands over in long
  mode; the repository has a multiboot2 header and no code for it.
- **stdio**: what a cloned child leaves in its buffers depends on what its output
  is connected to, which no program here decides. No state they test depends on
  it.
- Wording and layout of output, allocation failures before anything has
  happened, the site, the build and the tests (read as statements of intent).

`FsHandles` is proved about and has no run: its theorem covers every instance. A
specification of the user runtime as streams was considered and left out: it
would say for slots what `ImplementsStreams` says for descriptors, and
`SlotsOwnDescriptors` is what relates the two.
