---------------------------- MODULE MiniContainer ---------------------------
(***************************************************************************)
(* The container runner (src/part-07-container/mini_container.c): a parent *)
(* that creates the child in new namespaces, puts it into a cgroup with    *)
(* limits, releases it with one byte, waits for it and removes the cgroup; *)
(* and the child, which waits for the byte, isolates itself and executes   *)
(* the command.                                                            *)
(*                                                                         *)
(* The two run concurrently.  Every system call is a step, may fail where  *)
(* the host can make it fail, and either process may be killed between     *)
(* two of them.                                                            *)
(***************************************************************************)
EXTENDS SyncPipe, Integers, Sequences

CONSTANTS
    ExitCode    \* what a command may exit with

ASSUME ExitCodeAssumption == ExitCode \subseteq 0..255 /\ ExitCode # {}

SIGKILL == 9
SIGPIPE == 13
EXIT_FAILURE == 1

(* The clone flags: the namespaces the child does not share with the host. *)
Namespaces == {"uts", "pid", "mnt", "ipc", "net"}

(* Mutant of Setup: mounts made private after one has been made.           *)
SetupPrivateLast ==
    <<"sethostname", "chroot", "chdir", "mkdir", "mountproc", "private">>

(* What child_main does between its release and the command.               *)
Setup == <<"sethostname", "private", "chroot", "chdir", "mkdir", "mountproc">>

VARIABLES
    parent,     \* where the parent is in main
    child,      \* where the child is in child_main
    done,       \* how many steps of Setup the child has taken
    status,     \* how each process ended: [exited, code]
    pipe,       \* sync_pipe
    cgroup,     \* /sys/fs/cgroup/mini-container-<pid>
    warned,     \* the warnings the parent has printed
    host        \* what the host sees of the child's system calls

vars == <<parent, child, done, status, pipe, cgroup, warned, host>>

NoStatus    == [exited |-> FALSE, code |-> -1]
Exited(n)   == [exited |-> TRUE,  code |-> n]
Signaled(n) == [exited |-> FALSE, code |-> n]

NoCgroup == [exists |-> FALSE, pids |-> FALSE, memory |-> FALSE, member |-> FALSE]

ChildAlive  == child \in {"blocked", "setup", "running"}
ParentAlive == parent \notin {"returned", "ended"}

(* The cgroup may be there already: an earlier run with the same child pid *)
(* whose parent was killed leaves it, limits and all.                      *)
Init ==
    /\ parent = "clone" /\ child = "none" /\ done = 0
    /\ status = [parent |-> NoStatus, child |-> NoStatus]
    /\ pipe = NewPipe("parent")
    /\ cgroup \in {NoCgroup, [NoCgroup EXCEPT !.exists = TRUE],
                   [NoCgroup EXCEPT !.exists = TRUE, !.pids = TRUE, !.memory = TRUE]}
    /\ warned = {}
    /\ \E shared \in BOOLEAN :       \* does "/" propagate mounts to its peers?
          host = [hostname |-> "host", mounts |-> {}, shared |-> shared]

-----------------------------------------------------------------------------
(* The end of a process.  The parent returns from main, or it ends: in     *)
(* die, which exits with EXIT_FAILURE on the spot, or by a signal.         *)
EndParent(at, how) ==
    /\ parent' = at
    /\ status' = [status EXCEPT !.parent = how]
    /\ pipe' = CloseBoth(pipe, "parent")

Die == EndParent("ended", Exited(EXIT_FAILURE))

(* A dead child leaves its cgroup and waits to be reaped.                  *)
EndChild(how) ==
    /\ child' = "zombie"
    /\ status' = [status EXCEPT !.child = how]
    /\ pipe' = CloseBoth(pipe, "child")
    /\ cgroup' = [cgroup EXCEPT !.member = FALSE]

Clone ==
    /\ parent = "clone"
    /\ \/ /\ parent' = "closeread" /\ child' = "blocked"
          /\ pipe' = Inherit(pipe, "parent", "child")
          /\ UNCHANGED status
       \/ /\ Die                                       \* die("clone")
          /\ UNCHANGED child
    /\ UNCHANGED <<done, cgroup, warned, host>>

CloseRead ==
    /\ parent = "closeread"
    /\ parent' = "mkdir"
    /\ pipe' = CloseReadEnd(pipe, "parent")
    /\ UNCHANGED <<child, done, status, cgroup, warned, host>>

(* try_apply_cgroup_limits.  Without the directory nothing else is tried.  *)
MakeCgroup ==
    /\ parent = "mkdir"
    /\ \/ /\ cgroup' = [cgroup EXCEPT !.exists = TRUE]      \* made, or EEXIST
          /\ parent' = "pids"
          /\ UNCHANGED warned
       \/ /\ warned' = warned \cup {"mkdir"}
          /\ parent' = "release"
          /\ UNCHANGED cgroup
    /\ UNCHANGED <<child, done, status, pipe, host>>

(* One limit file: written, or a warning.                                  *)
SetLimit(at, next) ==
    /\ parent = at
    /\ parent' = next
    /\ \/ /\ cgroup' = [cgroup EXCEPT ![at] = TRUE]
          /\ UNCHANGED warned
       \/ /\ warned' = warned \cup {at}
          /\ UNCHANGED cgroup
    /\ UNCHANGED <<child, done, status, pipe, host>>

(* Mutant of SetMemory: the child released before it is moved.             *)
SetMemoryLast == SetLimit("memory", "release")

SetPids   == SetLimit("pids", "memory")
SetMemory == SetLimit("memory", "procs")

(* Mutant of MoveChild: the parent waits for the child it has not released. *)
MoveChildAndWait ==
    /\ parent = "procs"
    /\ parent' = "wait"
    /\ cgroup' = [cgroup EXCEPT !.member = ChildAlive]
    /\ UNCHANGED <<child, done, status, pipe, warned, host>>

(* A child that has already died is in no cgroup, whatever the write says. *)
MoveChild ==
    /\ parent = "procs"
    /\ parent' = "release"
    /\ \/ /\ cgroup' = [cgroup EXCEPT !.member = ChildAlive]
          /\ UNCHANGED warned
       \/ /\ warned' = warned \cup {"procs"}
          /\ UNCHANGED cgroup
    /\ UNCHANGED <<child, done, status, pipe, host>>

(* Mutant of Release: the byte forgotten.                                  *)
ReleaseSilently ==
    /\ parent = "release"
    /\ parent' = "closewrite"
    /\ UNCHANGED <<child, done, status, pipe, cgroup, warned, host>>

(* The byte.  Without a reader the write raises SIGPIPE; a runner started  *)
(* with SIGPIPE ignored gets EPIPE instead and dies, its child not reaped. *)
Release ==
    /\ parent = "release"
    /\ \/ /\ ~IsBroken(pipe)
          /\ parent' = "closewrite"
          /\ pipe' = PutByte(pipe)
          /\ UNCHANGED status
       \/ /\ IsBroken(pipe)
          /\ EndParent("ended", Signaled(SIGPIPE)) \/ Die
    /\ UNCHANGED <<child, done, cgroup, warned, host>>

CloseWrite ==
    /\ parent = "closewrite"
    /\ parent' = "wait"
    /\ pipe' = CloseWriteEnd(pipe, "parent")
    /\ UNCHANGED <<child, done, status, cgroup, warned, host>>

(* Mutant of Wait: waitpid that does not block (WNOHANG).                  *)
WaitWithoutBlocking ==
    /\ parent = "wait"
    /\ parent' = "rmdir"
    /\ child' = IF child = "zombie" THEN "reaped" ELSE child
    /\ UNCHANGED <<done, status, pipe, cgroup, warned, host>>

(* A runner started with SIGCHLD ignored is told ECHILD once its child has *)
(* ended, which nobody needs to reap then, and dies with the cgroup there. *)
Wait ==
    /\ parent = "wait"
    /\ child = "zombie"
    /\ child' = "reaped"
    /\ \/ parent' = "rmdir" /\ UNCHANGED <<status, pipe>>
       \/ Die
    /\ UNCHANGED <<done, cgroup, warned, host>>

(* rmdir fails on a cgroup with members (EBUSY), and where the host does   *)
(* not let it (EACCES, EPERM, EROFS); either is only reported.             *)
RemoveCgroup ==
    /\ parent = "rmdir"
    /\ parent' = "return"
    /\ \/ /\ cgroup.exists /\ ~cgroup.member
          /\ cgroup' = NoCgroup
          /\ UNCHANGED warned
       \/ /\ cgroup.exists /\ cgroup.member
          /\ warned' = warned \cup {"busy"}
          /\ UNCHANGED cgroup
       \/ /\ warned' = warned \cup {"rmdir"}
          /\ UNCHANGED cgroup
       \/ /\ ~cgroup.exists                                 \* ENOENT
          /\ UNCHANGED <<cgroup, warned>>
    /\ UNCHANGED <<child, done, status, pipe, host>>

(* Mutant of Return: the raw wait status returned.                         *)
ReturnRaw ==
    /\ parent = "return"
    /\ EndParent("returned", Exited(256 * status.child.code))
    /\ UNCHANGED <<child, done, cgroup, warned, host>>

Return ==
    /\ parent = "return"
    /\ EndParent("returned", Exited(IF status.child.exited THEN status.child.code
                                    ELSE 128 + status.child.code))
    /\ UNCHANGED <<child, done, cgroup, warned, host>>

ParentStep ==
    \/ Clone \/ CloseRead \/ MakeCgroup \/ SetPids \/ SetMemory \/ MoveChild
    \/ Release \/ CloseWrite \/ Wait \/ RemoveCgroup \/ Return

-----------------------------------------------------------------------------
(* wait_for_parent: the byte, or the end of file the parent's death was    *)
(* meant to cause.                                                         *)
WaitForParent ==
    /\ child = "blocked"
    /\ \/ /\ HasByte(pipe)
          /\ child' = "setup"
          /\ pipe' = CloseReadEnd(TakeByte(pipe), "child")
          /\ UNCHANGED <<status, cgroup>>
       \/ /\ AtEof(pipe)
          /\ EndChild(Exited(EXIT_FAILURE))
    /\ UNCHANGED <<parent, done, warned, host>>

(* What the host sees of a step of Setup.  A new mount namespace still     *)
(* passes mounts on to the host's while `/' is shared.                     *)
HostSees(step) ==
    CASE step = "sethostname" ->
            IF "uts" \in Namespaces THEN host
            ELSE [host EXCEPT !.hostname = "mini-container"]
      [] step = "private" -> [host EXCEPT !.shared = FALSE]
      [] step = "mountproc" ->
            IF "mnt" \in Namespaces /\ ~host.shared THEN host
            ELSE [host EXCEPT !.mounts = @ \cup {"proc"}]
      [] OTHER -> host

SetUp ==
    /\ child = "setup"
    /\ done < Len(Setup)
    /\ \/ /\ done' = done + 1
          /\ host' = HostSees(Setup[done + 1])
          /\ UNCHANGED <<child, status, pipe, cgroup>>
       \/ /\ EndChild(Exited(EXIT_FAILURE))                 \* die
          /\ UNCHANGED <<done, host>>
    /\ UNCHANGED <<parent, warned>>

Execute ==
    /\ child = "setup"
    /\ done = Len(Setup)
    /\ \/ /\ child' = "running"
          /\ UNCHANGED <<status, pipe, cgroup>>
       \/ EndChild(Exited(EXIT_FAILURE))                    \* die("execvp")
    /\ UNCHANGED <<parent, done, warned, host>>

(* The command ends.                                                       *)
CommandExits ==
    /\ child = "running"
    /\ \E code \in ExitCode : EndChild(Exited(code))
    /\ UNCHANGED <<parent, done, warned, host>>

ChildStep == WaitForParent \/ SetUp \/ Execute \/ CommandExits

-----------------------------------------------------------------------------
(* Someone else's SIGKILL, or the memory limit's.                          *)
KillParent ==
    /\ ParentAlive
    /\ EndParent("ended", Signaled(SIGKILL))
    /\ UNCHANGED <<child, done, cgroup, warned, host>>

KillChild ==
    /\ ChildAlive
    /\ EndChild(Signaled(SIGKILL))
    /\ UNCHANGED <<parent, done, warned, host>>

Next == ParentStep \/ ChildStep \/ KillParent \/ KillChild

(* Each process is scheduled: it takes its next step unless it is blocked, *)
(* killed or over; and a command ends some day.                            *)
Fairness == WF_vars(ParentStep) /\ WF_vars(ChildStep)

Spec == Init /\ [][Next]_vars /\ Fairness

-----------------------------------------------------------------------------
ParentAt == {"clone", "closeread", "mkdir", "pids", "memory", "procs", "release",
             "closewrite", "wait", "rmdir", "return", "returned", "ended"}
ChildAt  == {"none", "blocked", "setup", "running", "zombie", "reaped"}

(* Type correctness; what a process returns to its own parent is a byte.   *)
TypeOK ==
    /\ parent \in ParentAt
    /\ child \in ChildAt
    /\ done \in 0..Len(Setup)
    /\ status \in [parent : [exited : BOOLEAN, code : {-1} \cup 0..255],
                   child  : [exited : BOOLEAN, code : {-1} \cup 0..255]]
    /\ pipe \in [bytes : 0..1, readers : SUBSET {"parent", "child"},
                 writers : SUBSET {"parent", "child"}]
    /\ cgroup \in [exists : BOOLEAN, pids : BOOLEAN, memory : BOOLEAN,
                   member : BOOLEAN]
    /\ warned \subseteq {"mkdir", "pids", "memory", "procs", "busy", "rmdir"}
    /\ host \in [hostname : {"host", "mini-container"}, mounts : SUBSET {"proc"},
                 shared : BOOLEAN]

(* Once it is past the pipe, and while the command runs, the child is in   *)
(* its cgroup with both limits set, unless the parent has printed why not. *)
(* It holds though either process may be killed at any point and an old    *)
(* cgroup may be reused: the order limits, move, byte is what makes it so. *)
RunsLimited ==
    child \in {"setup", "running"} /\ warned = {} =>
        cgroup.exists /\ cgroup.pids /\ cgroup.memory /\ cgroup.member

(* A runner that returns from main has reaped its child, never tried to    *)
(* remove the cgroup under a member, and has removed it unless it printed  *)
(* that the host refused.  (One that dies on the way leaves its cgroup and *)
(* reports EXIT_FAILURE.)                                                  *)
ReturnsClean ==
    parent = "returned" =>
        /\ child = "reaped"
        /\ "busy" \notin warned
        /\ cgroup.exists => "rmdir" \in warned

(* The host keeps its hostname and sees no mount of the container's.       *)
HostUntouched == host.hostname = "host" /\ host.mounts = {}

(* The runner waits for a child that is waiting for it in no state: while  *)
(* it is in waitpid its child is on its way, dead, or has a byte to read.  *)
NoCircularWait ==
    parent = "wait" =>
        \/ child \in {"setup", "running", "zombie"}
        \/ child = "blocked" /\ HasByte(pipe)

(* A child waiting on the pipe is released, unless its parent dies first.  *)
ChildReleased == child = "blocked" ~> (child # "blocked" \/ ~ParentAlive)

(* The runner ends: no failure of a step, and no death of the child, at    *)
(* any point leaves it waiting for ever.                                   *)
RunnerEnds == <>(~ParentAlive)
=============================================================================
