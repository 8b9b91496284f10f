------------------------------ MODULE UsernsMap -----------------------------
(***************************************************************************)
(* The user-namespace lesson (src/part-12-userns/userns_map.c): a parent   *)
(* that maps the ids of a child in a new user namespace from outside, and  *)
(* the child, which waits on a pipe until it is mapped and then looks at   *)
(* its ids.  Unlike the container runner the parent gives up, with exit,   *)
(* at the first file it cannot write.                                      *)
(***************************************************************************)
EXTENDS SyncPipe, Integers

CONSTANTS
    Unmapped,   \* the overflow id an unmapped user sees: not 0
    HostIds     \* the host uids and gids the lesson may be run with

ASSUME IdAssumption == Unmapped # 0 /\ HostIds \subseteq Nat /\ HostIds # {}

SIGKILL == 9
SIGPIPE == 13
EXIT_SUCCESS == 0
EXIT_FAILURE == 1

VARIABLES
    parent,     \* where the parent is in main and write_id_maps
    child,      \* where the child is in child_main
    status,     \* how each process ended
    pipe,       \* sync_pipe
    hostId,     \* what getuid and getgid gave the parent
    setgroups,  \* /proc/<child>/setgroups: "allow", "deny", or "absent"
    uidMap,     \* the host id namespace uid 0 stands for, or -1
    gidMap,     \* the host id namespace gid 0 stands for, or -1
    seen        \* the ids the child printed

vars == <<parent, child, status, pipe, hostId, setgroups, uidMap, gidMap, seen>>
nsVars == <<hostId, setgroups, uidMap, gidMap>>

NoStatus    == [exited |-> FALSE, code |-> -1]
Exited(n)   == [exited |-> TRUE,  code |-> n]
Signaled(n) == [exited |-> FALSE, code |-> n]

ChildAlive  == child \in {"blocked", "released"}
ParentAlive == parent # "ended"

Init ==
    /\ parent = "clone" /\ child = "none"
    /\ status = [parent |-> NoStatus, child |-> NoStatus]
    /\ pipe = NewPipe("parent")
    /\ hostId \in [uid : HostIds, gid : HostIds]
    /\ setgroups \in {"allow", "absent"}        \* old kernels have no such file
    /\ uidMap = -1 /\ gidMap = -1
    /\ seen = << >>

-----------------------------------------------------------------------------
EndParent(how) ==
    /\ parent' = "ended"
    /\ status' = [status EXCEPT !.parent = how]
    /\ pipe' = CloseBoth(pipe, "parent")

EndChild(how) ==
    /\ child' = "zombie"
    /\ status' = [status EXCEPT !.child = how]
    /\ pipe' = CloseBoth(pipe, "child")

(* clone, or explain_clone_userns_error                                    *)
Clone ==
    /\ parent = "clone"
    /\ \/ /\ parent' = "closeread" /\ child' = "blocked"
          /\ pipe' = Inherit(pipe, "parent", "child")
          /\ UNCHANGED status
       \/ EndParent(Exited(EXIT_FAILURE)) /\ UNCHANGED child
    /\ UNCHANGED <<nsVars, seen>>

CloseRead ==
    /\ parent = "closeread"
    /\ parent' = "uidmap"
    /\ pipe' = CloseReadEnd(pipe, "parent")
    /\ UNCHANGED <<child, status, nsVars, seen>>

(* A file of the child cannot be opened or written: exit(EXIT_FAILURE).    *)
GiveUp ==
    /\ parent \in {"uidmap", "setgroups", "gidmap"}
    /\ EndParent(Exited(EXIT_FAILURE))
    /\ UNCHANGED <<child, nsVars, seen>>

WriteUidMap ==
    /\ parent = "uidmap"
    /\ parent' = "setgroups"
    /\ uidMap' = hostId.uid
    /\ UNCHANGED <<child, status, pipe, hostId, setgroups, gidMap, seen>>

(* Mutants of DenySetgroups: any error taken for ENOENT, and the step that *)
(* goes on to the release without the group map.                           *)
DenySetgroupsOrNot ==
    /\ parent = "setgroups"
    /\ parent' = "gidmap"
    /\ setgroups' \in {setgroups, "deny"}
    /\ UNCHANGED <<child, status, pipe, hostId, uidMap, gidMap, seen>>
DenySetgroupsAndRelease ==
    /\ parent = "setgroups"
    /\ parent' = "release"
    /\ setgroups' = "deny"
    /\ UNCHANGED <<child, status, pipe, hostId, uidMap, gidMap, seen>>

(* deny_setgroups_if_available                                             *)
DenySetgroups ==
    /\ parent = "setgroups"
    /\ parent' = "gidmap"
    /\ setgroups' = IF setgroups = "absent" THEN "absent" ELSE "deny"
    /\ UNCHANGED <<child, status, pipe, hostId, uidMap, gidMap, seen>>

(* The host kernel refuses the gid map of an unprivileged user while       *)
(* setgroups is allowed; the refusal is GiveUp.                            *)
WriteGidMap ==
    /\ parent = "gidmap"
    /\ setgroups # "allow" \/ hostId.uid = 0
    /\ parent' = "release"
    /\ gidMap' = hostId.gid
    /\ UNCHANGED <<child, status, pipe, hostId, setgroups, uidMap, seen>>

(* Mutant of Release: the byte forgotten.                                  *)
ReleaseSilently ==
    /\ parent = "release"
    /\ parent' = "closewrite"
    /\ UNCHANGED <<child, status, pipe, nsVars, seen>>

(* The byte.  Without a reader the write raises SIGPIPE; a parent started  *)
(* with SIGPIPE ignored gets EPIPE instead and dies.                       *)
Release ==
    /\ parent = "release"
    /\ \/ /\ ~IsBroken(pipe)
          /\ parent' = "closewrite"
          /\ pipe' = PutByte(pipe)
          /\ UNCHANGED status
       \/ /\ IsBroken(pipe)
          /\ \E how \in {Signaled(SIGPIPE), Exited(EXIT_FAILURE)} : EndParent(how)
    /\ UNCHANGED <<child, nsVars, seen>>

CloseWrite ==
    /\ parent = "closewrite"
    /\ parent' = "wait"
    /\ pipe' = CloseWriteEnd(pipe, "parent")
    /\ UNCHANGED <<child, status, nsVars, seen>>

(* Mutants of WaitAndReturn: the way the child ended ignored, and the      *)
(* convention of the container runner.                                     *)
WaitAndSucceed ==
    /\ parent = "wait"
    /\ child = "zombie"
    /\ child' = "reaped"
    /\ EndParent(Exited(EXIT_SUCCESS))
    /\ UNCHANGED <<nsVars, seen>>
WaitAndReturnSignal ==
    /\ parent = "wait"
    /\ child = "zombie"
    /\ child' = "reaped"
    /\ EndParent(Exited(IF status.child.exited THEN status.child.code
                        ELSE 128 + status.child.code))
    /\ UNCHANGED <<nsVars, seen>>

(* waitpid and what main returns of the status.  With SIGCHLD ignored the  *)
(* child needs no reaping: waitpid answers ECHILD and the parent dies.     *)
WaitAndReturn ==
    /\ parent = "wait"
    /\ child = "zombie"
    /\ child' = "reaped"
    /\ \/ EndParent(Exited(IF status.child = Exited(0)
                           THEN EXIT_SUCCESS ELSE EXIT_FAILURE))
       \/ EndParent(Exited(EXIT_FAILURE))
    /\ UNCHANGED <<nsVars, seen>>

ParentStep ==
    \/ Clone \/ CloseRead \/ WriteUidMap \/ DenySetgroups \/ WriteGidMap
    \/ GiveUp \/ Release \/ CloseWrite \/ WaitAndReturn

-----------------------------------------------------------------------------
AwaitMapping ==
    /\ child = "blocked"
    /\ \/ /\ HasByte(pipe)
          /\ child' = "released"
          /\ pipe' = CloseReadEnd(TakeByte(pipe), "child")
          /\ UNCHANGED status
       \/ AtEof(pipe) /\ EndChild(Exited(EXIT_FAILURE))
    /\ UNCHANGED <<parent, nsVars, seen>>

(* getuid and getgid answer 0 for a mapped id, the overflow id otherwise.  *)
ShowIds ==
    /\ child = "released"
    /\ seen' = <<IF uidMap = -1 THEN Unmapped ELSE 0,
                 IF gidMap = -1 THEN Unmapped ELSE 0>>
    /\ EndChild(Exited(EXIT_SUCCESS))
    /\ UNCHANGED <<parent, nsVars>>

ChildStep == AwaitMapping \/ ShowIds

-----------------------------------------------------------------------------
KillParent ==
    /\ ParentAlive
    /\ EndParent(Signaled(SIGKILL))
    /\ UNCHANGED <<child, nsVars, seen>>

KillChild ==
    /\ ChildAlive
    /\ EndChild(Signaled(SIGKILL))
    /\ UNCHANGED <<parent, nsVars, seen>>

Next == ParentStep \/ ChildStep \/ KillParent \/ KillChild

Fairness == WF_vars(ParentStep) /\ WF_vars(ChildStep)

Spec == Init /\ [][Next]_vars /\ Fairness

-----------------------------------------------------------------------------
(* Type correctness.                                                       *)
TypeOK ==
    /\ parent \in {"clone", "closeread", "uidmap", "setgroups", "gidmap",
                   "release", "closewrite", "wait", "ended"}
    /\ child \in {"none", "blocked", "released", "zombie", "reaped"}
    /\ status \in [parent : [exited : BOOLEAN, code : {-1, 0, 1, SIGKILL, SIGPIPE}],
                   child  : [exited : BOOLEAN, code : {-1, 0, 1, SIGKILL}]]
    /\ pipe \in [bytes : 0..1, readers : SUBSET {"parent", "child"},
                 writers : SUBSET {"parent", "child"}]
    /\ setgroups \in {"allow", "deny", "absent"}
    /\ {uidMap, gidMap} \subseteq HostIds \cup {-1}
    /\ seen \in {<< >>} \cup (({0, Unmapped} \X {0, Unmapped}))

(* The child never looks at its ids before both maps are installed: it     *)
(* reports root in its namespace or nothing, whoever is killed meanwhile.  *)
SeesRootOrNothing == seen \in {<< >>, <<0, 0>>}

(* A success of the lesson means the child ran to its end with its user    *)
(* and group mapped to the ids the lesson was run with.                    *)
SuccessMeansMapped ==
    status.parent = Exited(EXIT_SUCCESS) =>
        /\ seen = <<0, 0>>
        /\ uidMap = hostId.uid /\ gidMap = hostId.gid

(* An ordinary user's group map is in force only once setgroups is denied, *)
(* where the kernel has that file: no group is ever dropped inside.        *)
NoGroupDropped ==
    child = "released" => setgroups # "allow"

(* The parent waits for a child that is waiting for it in no state: while  *)
(* it is in waitpid its child is on its way, dead, or has a byte to read.  *)
NoCircularWait ==
    parent = "wait" =>
        \/ child \in {"released", "zombie"}
        \/ child = "blocked" /\ HasByte(pipe)

(* The parent ends whatever fails: it never waits for a child that waits   *)
(* for it.                                                                 *)
ParentEnds == <>(~ParentAlive)

(* A child whose parent gave up before mapping it does not stay: the code  *)
(* reports "parent closed sync pipe before mapping ids" and exits.         *)
OrphanExits ==
    (child = "blocked" /\ status.parent = Exited(EXIT_FAILURE)) ~> (child # "blocked")
=============================================================================
