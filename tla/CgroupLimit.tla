----------------------------- MODULE CgroupLimit ----------------------------
(***************************************************************************)
(* The cgroup lesson (src/part-06-cgroups/cgroup_limit.c): a parent that   *)
(* makes a cgroup, sets two limits, forks a child that moves itself into   *)
(* it, waits for the child and removes the cgroup.                         *)
(*                                                                         *)
(* The path of the cgroup is fixed and mkdir's EEXIST is accepted, so all  *)
(* runs of the lesson share one directory.  Here several of them go on at  *)
(* once, every system call may fail, and anyone may be killed.             *)
(***************************************************************************)
CONSTANT Run    \* the runs of the lesson that overlap

VARIABLES
    parent,     \* where each run's parent is in main
    child,      \* where each run's child is
    result,     \* how each run's parent ended; "refused" and "stale" are the
                \* failures in which the host would not make or remove the
                \* directory, each with a message of its own
    dir         \* the cgroup: there or not, and the limits set in it

vars == <<parent, child, result, dir>>

NoDir == [exists |-> FALSE, pids |-> FALSE, memory |-> FALSE]

(* A child that has moved itself and has not exited is a member.           *)
Members == {r \in Run : child[r] = "member"}

(* An earlier run may have left the directory.                             *)
Init ==
    /\ parent = [r \in Run |-> "mkdir"]
    /\ child = [r \in Run |-> "none"]
    /\ result = [r \in Run |-> "none"]
    /\ dir \in {NoDir, [exists |-> TRUE, pids |-> FALSE, memory |-> FALSE],
                       [exists |-> TRUE, pids |-> TRUE, memory |-> FALSE],
                       [exists |-> TRUE, pids |-> TRUE, memory |-> TRUE]}

Goto(r, next) ==
    /\ parent' = [parent EXCEPT ![r] = next]
    /\ UNCHANGED result

End(r, how) ==
    /\ parent' = [parent EXCEPT ![r] = "ended"]
    /\ result' = [result EXCEPT ![r] = how]

-----------------------------------------------------------------------------
(* mkdir: made, there already (EEXIST), or refused, with the directory     *)
(* there or not; then main returns and leaves it as it is.                 *)
MakeDir(r) ==
    /\ parent[r] = "mkdir"
    /\ \/ /\ dir' = [dir EXCEPT !.exists = TRUE]
          /\ Goto(r, "pids")
       \/ End(r, "refused") /\ UNCHANGED dir
    /\ UNCHANGED child

(* set_limit.  Without the directory, and whenever the host likes, the     *)
(* file cannot be written.                                                 *)
SetLimit(r, at, next) ==
    /\ parent[r] = at
    /\ \/ /\ dir.exists
          /\ dir' = [dir EXCEPT ![at] = TRUE]
          /\ Goto(r, next)
       \/ /\ Goto(r, "giveup")
          /\ UNCHANGED dir
    /\ UNCHANGED child

(* Mutant of SetMemory: return without cleanup_cgroup.                     *)
SetMemoryOrReturn(r) ==
    \/ /\ dir.exists
       /\ SetLimit(r, "memory", "fork")
    \/ /\ parent[r] = "memory"
       /\ End(r, "failure")
       /\ UNCHANGED <<child, dir>>

(* Mutant of SetPids: the second limit skipped.                            *)
SetPidsOnly(r) == SetLimit(r, "pids", "fork")

SetPids(r)   == SetLimit(r, "pids", "memory")
SetMemory(r) == SetLimit(r, "memory", "fork")

Fork(r) ==
    /\ parent[r] = "fork"
    /\ \/ /\ child' = [child EXCEPT ![r] = "forked"]
          /\ Goto(r, "wait")
       \/ /\ Goto(r, "giveup")
          /\ UNCHANGED child
    /\ UNCHANGED dir

(* waitpid, again after EINTR.  When SIGCHLD is ignored it blocks as long  *)
(* and then has no status to give (ECHILD).                                *)
Wait(r) ==
    /\ parent[r] = "wait"
    /\ child[r] \in {"succeeded", "failed"}
    /\ \/ child[r] = "succeeded" /\ Goto(r, "cleanup0")
       \/ Goto(r, "cleanup1")
    /\ UNCHANGED <<child, dir>>

(* cleanup_cgroup: an empty cgroup goes, one with members stays (EBUSY),   *)
(* one that is not there is as good as removed.  The host may also refuse  *)
(* for a reason of its own (EACCES, EPERM, EROFS), and it all stays.       *)
RemoveDir(r, how) ==
    \/ /\ dir.exists /\ Members # {}
       /\ End(r, "failure")
       /\ UNCHANGED dir
    \/ /\ ~(dir.exists /\ Members # {})
       /\ End(r, how)
       /\ dir' = NoDir
    \/ /\ End(r, "stale")
       /\ UNCHANGED dir

(* after an error                                                          *)
GiveUp(r) ==
    /\ parent[r] = "giveup"
    /\ RemoveDir(r, "failure")
    /\ UNCHANGED child

(* Mutant of CleanUp: how the child ended returned as it is.               *)
CleanUpRawStatus(r) ==
    /\ parent[r] \in {"cleanup0", "cleanup1"}
    /\ RemoveDir(r, child[r])
    /\ UNCHANGED child

(* after the child, and what main returns                                  *)
CleanUp(r) ==
    /\ parent[r] \in {"cleanup0", "cleanup1"}
    /\ RemoveDir(r, IF parent[r] = "cleanup0" THEN "success" ELSE "failure")
    /\ UNCHANGED child

-----------------------------------------------------------------------------
(* The child writes its pid to cgroup.procs, or exits with 1.              *)
Join(r) ==
    /\ child[r] = "forked"
    /\ \/ dir.exists /\ child' = [child EXCEPT ![r] = "member"]
       \/ child' = [child EXCEPT ![r] = "failed"]
    /\ UNCHANGED <<parent, result, dir>>

(* It prints that it is limited and exits with 0.                          *)
Report(r) ==
    /\ child[r] = "member"
    /\ child' = [child EXCEPT ![r] = "succeeded"]
    /\ UNCHANGED <<parent, result, dir>>

KillParent(r) ==
    /\ parent[r] # "ended"
    /\ End(r, "killed")
    /\ UNCHANGED <<child, dir>>

KillChild(r) ==
    /\ child[r] \in {"forked", "member"}
    /\ child' = [child EXCEPT ![r] = "failed"]
    /\ UNCHANGED <<parent, result, dir>>

Next ==
    \E r \in Run :
        \/ MakeDir(r) \/ SetPids(r) \/ SetMemory(r) \/ Fork(r) \/ Wait(r)
        \/ GiveUp(r) \/ CleanUp(r)
        \/ Join(r) \/ Report(r)
        \/ KillParent(r) \/ KillChild(r)

Spec == Init /\ [][Next]_vars

-----------------------------------------------------------------------------
TypeOK ==
    /\ parent \in [Run -> {"mkdir", "pids", "memory", "fork", "wait", "giveup",
                           "cleanup0", "cleanup1", "ended"}]
    /\ child \in [Run -> {"none", "forked", "member", "succeeded", "failed"}]
    /\ result \in [Run -> {"none", "success", "failure", "refused", "stale", "killed"}]
    /\ dir \in [exists : BOOLEAN, pids : BOOLEAN, memory : BOOLEAN]

(* A directory that is still there when all runs have ended, none of them  *)
(* killed, is one the host would not remove, and a run has said so; or     *)
(* none of them could so much as mkdir.  Whatever else failed in a run,    *)
(* and whichever run removed the directory of which, nothing is left.      *)
NothingLeft ==
    (\A r \in Run : parent[r] = "ended" /\ result[r] # "killed") /\ dir.exists
        => (\E r \in Run : result[r] = "stale") \/ (\A r \in Run : result[r] = "refused")

(* A child that is about to print that it is limited is limited: the       *)
(* directory it moved itself into has both limits, though another run may  *)
(* have removed the one its parent set up.                                 *)
MembersLimited == Members # {} => dir.exists /\ dir.pids /\ dir.memory

(* A run that returned without a refusal has removed the directory, or     *)
(* found another's member in it.                                           *)
Returned(r) == result[r] \in {"success", "failure"}

(* It takes two other runs to take a child's limits away: one that has     *)
(* returned, and one that has made the directory anew.                     *)
Replaced(r) ==
    \E s, u \in Run \ {r} : s # u /\ Returned(s) /\ parent[u] # "mkdir"

(* Short of that, a child that is about to print its limits has them: a    *)
(* run can neither remove the directory of another's member nor join one   *)
(* whose limits have not been set.                                         *)
LimitedUnlessReplaced ==
    \A r \in Members : dir.exists /\ (Replaced(r) \/ (dir.pids /\ dir.memory))
=============================================================================
