-------------------------- MODULE MiniContainerProofs -----------------------
(***************************************************************************)
(* The safety of the container runner, in every interleaving, with every   *)
(* failure and every kill, for any set of exit codes.                      *)
(*                                                                         *)
(* RunsLimited does not follow from where parent and child are: the parent *)
(* may be killed right after the release, or the child between its move    *)
(* and the release.  What carries it is that Limited holds from the move   *)
(* on, as long as there is a child to limit, and that nothing puts a byte  *)
(* into the pipe before.                                                   *)
(***************************************************************************)
EXTENDS MiniContainer, TLAPS

(* The child is in its cgroup under both limits, or the parent has printed *)
(* why not, or there is no child to limit.                                 *)
Limited ==
    \/ warned # {}
    \/ ~ChildAlive
    \/ cgroup.exists /\ cgroup.pids /\ cgroup.memory /\ cgroup.member

BeforeRelease == {"clone", "closeread", "mkdir", "pids", "memory", "procs", "release"}

(* Before the release the pipe is empty and the child still waits.         *)
NotReleasedEarly ==
    parent \in BeforeRelease =>
        /\ pipe.bytes = 0
        /\ child \in {"none", "blocked", "zombie"}

(* How far the parent has got with the limits.                             *)
LimitsSoFar ==
    /\ parent \in {"pids", "memory", "procs"} => cgroup.exists
    /\ parent \in {"memory", "procs"} => warned # {} \/ cgroup.pids
    /\ parent = "procs" => warned # {} \/ cgroup.memory
    /\ parent = "release" => Limited

ReleasedIsLimited ==
    pipe.bytes > 0 \/ child \in {"setup", "running"} => Limited

(* Where the child is when the parent is past waiting, or not yet there.   *)
ChildWhere ==
    /\ parent = "clone" => child = "none"
    /\ child = "none" => parent \in {"clone", "ended"}
    /\ parent \in {"rmdir", "return"} => child = "reaped"
    /\ parent = "return" /\ cgroup.exists => "rmdir" \in warned
    /\ "busy" \notin warned
    /\ cgroup.member => ChildAlive
    /\ ~status.child.exited => status.child.code \in {-1, SIGKILL}

(* Mounts are private before one is made.                                  *)
PrivateFirst == done >= 2 => ~host.shared

IInv ==
    /\ TypeOK
    /\ NotReleasedEarly
    /\ LimitsSoFar
    /\ ReleasedIsLimited
    /\ ChildWhere
    /\ PrivateFirst
    /\ ReturnsClean
    /\ HostUntouched

(* The parts of TypeOK that a step changes by EXCEPT.                      *)
EndStatus  == [exited : BOOLEAN, code : {-1} \cup 0..255]
PipeType   == [bytes : 0..1, readers : SUBSET {"parent", "child"},
               writers : SUBSET {"parent", "child"}]
CgroupType == [exists : BOOLEAN, pids : BOOLEAN, memory : BOOLEAN, member : BOOLEAN]

-----------------------------------------------------------------------------
(* The ways a process ends here.                                           *)
LEMMA Ends ==
    /\ \A n \in 0..255 : Exited(n) \in EndStatus /\ Exited(n).exited
    /\ Exited(EXIT_FAILURE) \in EndStatus /\ Exited(EXIT_FAILURE).exited
    /\ Signaled(SIGPIPE) \in EndStatus /\ ~Signaled(SIGPIPE).exited
    /\ Signaled(SIGKILL) \in EndStatus /\ ~Signaled(SIGKILL).exited
    /\ Signaled(SIGKILL).code = SIGKILL
  BY DEF Exited, Signaled, EXIT_FAILURE, SIGPIPE, SIGKILL, EndStatus

(* Closing an end of the pipe takes no byte out of it.                     *)
LEMMA ClosePipe ==
    ASSUME NEW p \in PipeType, NEW who
    PROVE  /\ CloseReadEnd(p, who) \in PipeType /\ CloseReadEnd(p, who).bytes = p.bytes
           /\ CloseWriteEnd(p, who) \in PipeType /\ CloseWriteEnd(p, who).bytes = p.bytes
           /\ CloseBoth(p, who) \in PipeType /\ CloseBoth(p, who).bytes = p.bytes
<1>1. /\ CloseReadEnd(p, who) \in PipeType /\ CloseReadEnd(p, who).bytes = p.bytes
      /\ CloseWriteEnd(p, who) \in PipeType /\ CloseWriteEnd(p, who).bytes = p.bytes
  BY DEF PipeType, CloseReadEnd, CloseWriteEnd
<1>2. CloseReadEnd(CloseWriteEnd(p, who), who) \in PipeType
      /\ CloseReadEnd(CloseWriteEnd(p, who), who).bytes = CloseWriteEnd(p, who).bytes
  BY <1>1 DEF PipeType, CloseReadEnd
<1> QED
  BY <1>1, <1>2 DEF CloseBoth

(* A parent may end at any point; it returns only where its child has been *)
(* reaped and the cgroup dealt with.                                       *)
LEMMA ParentEndKeeps ==
    ASSUME IInv, NEW at \in {"returned", "ended"}, NEW how \in EndStatus,
           EndParent(at, how), UNCHANGED <<done, cgroup, warned, host>>,
           child' = child \/ (child = "zombie" /\ child' = "reaped"),
           at = "returned" =>
               child' = "reaped" /\ (cgroup.exists => "rmdir" \in warned)
    PROVE  IInv'
<1>1. pipe \in PipeType
  BY DEF IInv, TypeOK, PipeType
<1>2. pipe' \in PipeType /\ pipe'.bytes = pipe.bytes
  BY <1>1, ClosePipe DEF EndParent
<1>3. /\ status' \in [parent : EndStatus, child : EndStatus]
      /\ status'.child = status.child
  BY DEF IInv, TypeOK, EndParent, EndStatus
<1>4. parent' = at
  BY DEF EndParent
<1>5. TypeOK'
  BY <1>2, <1>3, <1>4 DEF IInv, TypeOK, ParentAt, ChildAt, PipeType, EndStatus
<1>6. (NotReleasedEarly /\ LimitsSoFar)'
  BY <1>4 DEF NotReleasedEarly, LimitsSoFar, BeforeRelease
<1>7. ReleasedIsLimited'
  BY <1>2 DEF IInv, ReleasedIsLimited, Limited, ChildAlive
<1>8. ChildWhere'
  BY <1>3, <1>4 DEF IInv, ChildWhere, ChildAlive
<1>9. ReturnsClean'
  BY <1>4 DEF IInv, ChildWhere, ReturnsClean
<1> QED
  BY <1>5, <1>6, <1>7, <1>8, <1>9 DEF IInv, PrivateFirst, HostUntouched

(* A living child may end at any point.                                    *)
LEMMA ChildEndKeeps ==
    ASSUME IInv, ChildAlive, NEW how \in EndStatus, EndChild(how),
           UNCHANGED <<parent, done, warned, host>>,
           how.exited \/ how.code = SIGKILL
    PROVE  IInv'
<1>1. pipe \in PipeType
  BY DEF IInv, TypeOK, PipeType
<1>2. pipe' \in PipeType /\ pipe'.bytes = pipe.bytes
  BY <1>1, ClosePipe DEF EndChild
<1>3. /\ status' \in [parent : EndStatus, child : EndStatus]
      /\ status'.child = how /\ status'.parent = status.parent
  BY DEF IInv, TypeOK, EndChild, EndStatus
<1>4. /\ cgroup' \in CgroupType /\ ~cgroup'.member
      /\ cgroup'.exists = cgroup.exists
      /\ cgroup'.pids = cgroup.pids /\ cgroup'.memory = cgroup.memory
  BY DEF IInv, TypeOK, EndChild, CgroupType
<1>5. child' = "zombie" /\ ~ChildAlive'
  BY DEF EndChild, ChildAlive
<1>6. child # "none" /\ child # "reaped"
  BY DEF ChildAlive
<1>7. TypeOK'
  BY <1>2, <1>3, <1>4, <1>5 DEF IInv, TypeOK, ChildAt, PipeType, CgroupType, EndStatus
<1>8. NotReleasedEarly'
  BY <1>2, <1>5 DEF IInv, NotReleasedEarly
<1>9. LimitsSoFar'
  BY <1>4, <1>5 DEF IInv, LimitsSoFar, Limited
<1>10. ReleasedIsLimited'
  BY <1>5 DEF ReleasedIsLimited, Limited
<1>11. ChildWhere'
  BY <1>3, <1>4, <1>5, <1>6 DEF IInv, ChildWhere
<1>12. ReturnsClean'
  BY <1>3, <1>6 DEF IInv, ReturnsClean
<1> QED
  BY <1>7, <1>8, <1>9, <1>10, <1>11, <1>12 DEF IInv, PrivateFirst, HostUntouched

-----------------------------------------------------------------------------
LEMMA SetupLength == Len(Setup) = 6
  BY DEF Setup

LEMMA NoCgroupTyped ==
    NoCgroup \in CgroupType /\ ~NoCgroup.exists /\ ~NoCgroup.member
  BY DEF NoCgroup, CgroupType

LEMMA InitIInv == Init => IInv
<1> SUFFICES ASSUME Init PROVE IInv
  OBVIOUS
<1>1. cgroup \in CgroupType /\ ~cgroup.member
  BY NoCgroupTyped DEF Init, CgroupType
<1>2. /\ pipe \in PipeType /\ pipe.bytes = 0
      /\ host \in [hostname : {"host", "mini-container"}, mounts : SUBSET {"proc"},
                   shared : BOOLEAN]
  BY DEF Init, NewPipe, PipeType
<1>3. /\ status \in [parent : EndStatus, child : EndStatus]
      /\ ~status.parent.exited /\ status.child.code = -1
  BY DEF Init, NoStatus, EndStatus
<1>4. TypeOK
  BY <1>1, <1>2, <1>3, SetupLength
     DEF Init, TypeOK, ParentAt, ChildAt, PipeType, CgroupType, EndStatus
<1>5. NotReleasedEarly /\ LimitsSoFar /\ ReleasedIsLimited
  BY <1>2 DEF Init, NotReleasedEarly, LimitsSoFar, ReleasedIsLimited, BeforeRelease
<1>6. ChildWhere /\ ReturnsClean
  BY <1>1, <1>3 DEF Init, ChildWhere, ReturnsClean
<1>7. PrivateFirst /\ HostUntouched
  BY DEF Init, PrivateFirst, HostUntouched
<1> QED
  BY <1>4, <1>5, <1>6, <1>7 DEF IInv

-----------------------------------------------------------------------------
(* The parent's steps.                                                     *)
LEMMA CloneKeeps == IInv /\ Clone => IInv'
<1> SUFFICES ASSUME IInv, Clone PROVE IInv'
  OBVIOUS
<1>1. child = "none" /\ pipe \in PipeType
  BY DEF IInv, Clone, ChildWhere, TypeOK, PipeType
<1>2. CASE Die /\ UNCHANGED child
  BY <1>2, Ends, ParentEndKeeps DEF Clone, Die
<1>3. CASE /\ parent' = "closeread" /\ child' = "blocked"
           /\ pipe' = Inherit(pipe, "parent", "child")
           /\ UNCHANGED status
  <2>1. pipe' \in PipeType /\ pipe'.bytes = pipe.bytes
    BY <1>1, <1>3 DEF Inherit, PipeType
  <2>2. TypeOK'
    BY <1>3, <2>1 DEF IInv, Clone, TypeOK, ParentAt, ChildAt, PipeType
  <2>3. NotReleasedEarly' /\ ReleasedIsLimited'
    BY <1>3, <2>1 DEF IInv, Clone, NotReleasedEarly, ReleasedIsLimited, BeforeRelease
  <2>4. LimitsSoFar'
    BY <1>3 DEF LimitsSoFar
  <2>5. ChildWhere' /\ ReturnsClean'
    BY <1>1, <1>3 DEF IInv, Clone, ChildWhere, ReturnsClean, ChildAlive
  <2> QED
    BY <2>2, <2>3, <2>4, <2>5 DEF IInv, Clone, PrivateFirst, HostUntouched
<1> QED
  BY <1>2, <1>3 DEF Clone

LEMMA CloseReadKeeps == IInv /\ CloseRead => IInv'
<1> SUFFICES ASSUME IInv, CloseRead PROVE IInv'
  OBVIOUS
<1>1. pipe' \in PipeType /\ pipe'.bytes = pipe.bytes
  BY ClosePipe DEF IInv, CloseRead, TypeOK, PipeType
<1>2. TypeOK'
  BY <1>1 DEF IInv, CloseRead, TypeOK, ParentAt, PipeType
<1>3. NotReleasedEarly' /\ LimitsSoFar'
  BY <1>1 DEF IInv, CloseRead, NotReleasedEarly, LimitsSoFar, BeforeRelease
<1>4. ReleasedIsLimited'
  BY <1>1 DEF IInv, CloseRead, ReleasedIsLimited, Limited, ChildAlive
<1>5. ChildWhere'
  BY DEF IInv, CloseRead, ChildWhere, ChildAlive
<1> QED
  BY <1>2, <1>3, <1>4, <1>5 DEF IInv, CloseRead, PrivateFirst, ReturnsClean, HostUntouched

(* No step up to the move takes a limit away or puts the child anywhere    *)
(* else, so it keeps what is said of a released child by there being none. *)
LEMMA MakeCgroupKeeps == IInv /\ MakeCgroup => IInv'
<1> SUFFICES ASSUME IInv, MakeCgroup PROVE IInv'
  OBVIOUS
<1>1. pipe.bytes = 0 /\ child \in {"blocked", "zombie"}
  BY DEF IInv, MakeCgroup, NotReleasedEarly, BeforeRelease, ChildWhere
<1>2. /\ cgroup' \in CgroupType /\ cgroup'.member = cgroup.member
      /\ parent' = "pids" => cgroup'.exists
      /\ parent' = "release" => warned' # {}
      /\ parent' \in {"pids", "release"}
  BY DEF IInv, MakeCgroup, TypeOK, CgroupType
<1>3. TypeOK'
  BY <1>2 DEF IInv, MakeCgroup, TypeOK, ParentAt, CgroupType
<1>4. NotReleasedEarly' /\ ReleasedIsLimited'
  BY <1>1 DEF MakeCgroup, NotReleasedEarly, ReleasedIsLimited
<1>5. LimitsSoFar'
  BY <1>2 DEF LimitsSoFar, Limited
<1>6. ChildWhere' /\ ReturnsClean'
  BY <1>1, <1>2 DEF IInv, MakeCgroup, ChildWhere, ReturnsClean, ChildAlive
<1> QED
  BY <1>3, <1>4, <1>5, <1>6 DEF IInv, MakeCgroup, PrivateFirst, HostUntouched

LEMMA SetPidsKeeps == IInv /\ SetPids => IInv'
<1> SUFFICES ASSUME IInv, SetPids PROVE IInv'
  OBVIOUS
<1>1. parent = "pids" /\ parent' = "memory" /\ UNCHANGED <<child, done, status, pipe, host>>
  BY DEF SetPids, SetLimit
<1>2. pipe.bytes = 0 /\ child \in {"blocked", "zombie"}
  BY <1>1 DEF IInv, NotReleasedEarly, BeforeRelease, ChildWhere
<1>3. /\ cgroup' \in CgroupType /\ cgroup'.member = cgroup.member
      /\ cgroup'.exists
      /\ warned' # {} \/ cgroup'.pids
      /\ warned' \in {warned, warned \cup {"pids"}}
      /\ warned' \subseteq {"mkdir", "pids", "memory", "procs", "busy", "rmdir"}
  BY <1>1 DEF IInv, SetPids, SetLimit, TypeOK, LimitsSoFar, CgroupType
<1>4. TypeOK'
  BY <1>1, <1>3 DEF IInv, TypeOK, ParentAt, CgroupType
<1>5. NotReleasedEarly' /\ ReleasedIsLimited'
  BY <1>1, <1>2 DEF NotReleasedEarly, ReleasedIsLimited
<1>6. LimitsSoFar'
  BY <1>1, <1>3 DEF LimitsSoFar
<1>7. ChildWhere' /\ ReturnsClean'
  BY <1>1, <1>2, <1>3 DEF IInv, ChildWhere, ReturnsClean, ChildAlive
<1> QED
  BY <1>1, <1>4, <1>5, <1>6, <1>7 DEF IInv, PrivateFirst, HostUntouched

LEMMA SetMemoryKeeps == IInv /\ SetMemory => IInv'
<1> SUFFICES ASSUME IInv, SetMemory PROVE IInv'
  OBVIOUS
<1>1. parent = "memory" /\ parent' = "procs" /\ UNCHANGED <<child, done, status, pipe, host>>
  BY DEF SetMemory, SetLimit
<1>2. pipe.bytes = 0 /\ child \in {"blocked", "zombie"}
  BY <1>1 DEF IInv, NotReleasedEarly, BeforeRelease, ChildWhere
<1>3. /\ cgroup' \in CgroupType /\ cgroup'.member = cgroup.member
      /\ cgroup'.exists
      /\ warned' # {} \/ cgroup'.pids
      /\ warned' # {} \/ cgroup'.memory
      /\ warned' \in {warned, warned \cup {"memory"}}
      /\ warned' \subseteq {"mkdir", "pids", "memory", "procs", "busy", "rmdir"}
  BY <1>1 DEF IInv, SetMemory, SetLimit, TypeOK, LimitsSoFar, CgroupType
<1>4. TypeOK'
  BY <1>1, <1>3 DEF IInv, TypeOK, ParentAt, CgroupType
<1>5. NotReleasedEarly' /\ ReleasedIsLimited'
  BY <1>1, <1>2 DEF NotReleasedEarly, ReleasedIsLimited
<1>6. LimitsSoFar'
  BY <1>1, <1>3 DEF LimitsSoFar
<1>7. ChildWhere' /\ ReturnsClean'
  BY <1>1, <1>2, <1>3 DEF IInv, ChildWhere, ReturnsClean, ChildAlive
<1> QED
  BY <1>1, <1>4, <1>5, <1>6, <1>7 DEF IInv, PrivateFirst, HostUntouched

(* The move completes Limited: the limits are there by LimitsSoFar.        *)
LEMMA MoveChildKeeps == IInv /\ MoveChild => IInv'
<1> SUFFICES ASSUME IInv, MoveChild PROVE IInv'
  OBVIOUS
<1>1. pipe.bytes = 0 /\ child \in {"blocked", "zombie"}
  BY DEF IInv, MoveChild, NotReleasedEarly, BeforeRelease, ChildWhere
<1>2. /\ cgroup.exists
      /\ warned # {} \/ (cgroup.pids /\ cgroup.memory)
  BY DEF IInv, MoveChild, LimitsSoFar
<1>3. /\ cgroup' \in CgroupType
      /\ cgroup'.exists = cgroup.exists
      /\ cgroup'.pids = cgroup.pids /\ cgroup'.memory = cgroup.memory
      /\ cgroup'.member => ChildAlive
      /\ warned' # {} \/ (warned' = warned /\ cgroup'.member = ChildAlive)
      /\ warned' \subseteq {"mkdir", "pids", "memory", "procs", "busy", "rmdir"}
  <2>1. ChildAlive \in BOOLEAN
    BY DEF ChildAlive
  <2> QED
    BY <2>1 DEF IInv, MoveChild, TypeOK, ChildWhere, CgroupType
<1>4. TypeOK'
  BY <1>3 DEF IInv, MoveChild, TypeOK, ParentAt, CgroupType
<1>5. NotReleasedEarly' /\ ReleasedIsLimited'
  BY <1>1 DEF MoveChild, NotReleasedEarly, ReleasedIsLimited
<1>6. LimitsSoFar'
  BY <1>2, <1>3 DEF MoveChild, LimitsSoFar, Limited, ChildAlive
<1>7. ChildWhere' /\ ReturnsClean'
  BY <1>1, <1>3 DEF IInv, MoveChild, ChildWhere, ReturnsClean, ChildAlive
<1> QED
  BY <1>4, <1>5, <1>6, <1>7 DEF IInv, MoveChild, PrivateFirst, HostUntouched

(* The byte is put into an empty pipe, and only when the child is limited. *)
LEMMA ReleaseKeeps == IInv /\ Release => IInv'
<1> SUFFICES ASSUME IInv, Release PROVE IInv'
  OBVIOUS
<1>1. pipe \in PipeType /\ pipe.bytes = 0 /\ child # "none" /\ Limited
  BY DEF IInv, Release, NotReleasedEarly, BeforeRelease, ChildWhere, LimitsSoFar,
         TypeOK, PipeType
<1>2. CASE EndParent("ended", Signaled(SIGPIPE)) \/ Die
  BY <1>2, Ends, ParentEndKeeps DEF Release, Die
<1>3. CASE parent' = "closewrite" /\ pipe' = PutByte(pipe) /\ UNCHANGED status
  <2>1. pipe' \in PipeType
    BY <1>1, <1>3 DEF PutByte, PipeType
  <2>2. TypeOK'
    BY <1>3, <2>1 DEF IInv, Release, TypeOK, ParentAt, PipeType
  <2>3. NotReleasedEarly' /\ LimitsSoFar'
    BY <1>3 DEF NotReleasedEarly, LimitsSoFar, BeforeRelease
  <2>4. ReleasedIsLimited'
    BY <1>1 DEF Release, ReleasedIsLimited, Limited, ChildAlive
  <2>5. ChildWhere' /\ ReturnsClean'
    BY <1>1, <1>3 DEF IInv, Release, ChildWhere, ReturnsClean, ChildAlive
  <2> QED
    BY <2>2, <2>3, <2>4, <2>5 DEF IInv, Release, PrivateFirst, HostUntouched
<1> QED
  BY <1>2, <1>3 DEF Release

LEMMA CloseWriteKeeps == IInv /\ CloseWrite => IInv'
<1> SUFFICES ASSUME IInv, CloseWrite PROVE IInv'
  OBVIOUS
<1>1. pipe' \in PipeType /\ pipe'.bytes = pipe.bytes
  BY ClosePipe DEF IInv, CloseWrite, TypeOK, PipeType
<1>2. TypeOK'
  BY <1>1 DEF IInv, CloseWrite, TypeOK, ParentAt, PipeType
<1>3. NotReleasedEarly' /\ LimitsSoFar'
  BY DEF CloseWrite, NotReleasedEarly, LimitsSoFar, BeforeRelease
<1>4. ReleasedIsLimited'
  BY <1>1 DEF IInv, CloseWrite, ReleasedIsLimited, Limited, ChildAlive
<1>5. ChildWhere' /\ ReturnsClean'
  BY DEF IInv, CloseWrite, ChildWhere, ReturnsClean, ChildAlive
<1> QED
  BY <1>2, <1>3, <1>4, <1>5 DEF IInv, CloseWrite, PrivateFirst, HostUntouched

LEMMA WaitKeeps == IInv /\ Wait => IInv'
<1> SUFFICES ASSUME IInv, Wait PROVE IInv'
  OBVIOUS
<1>1. CASE Die
  BY <1>1, Ends, ParentEndKeeps DEF Wait, Die
<1>2. CASE parent' = "rmdir" /\ UNCHANGED <<status, pipe>>
  <2>1. TypeOK'
    BY <1>2 DEF IInv, Wait, TypeOK, ParentAt, ChildAt
  <2>2. NotReleasedEarly' /\ LimitsSoFar'
    BY <1>2 DEF Wait, NotReleasedEarly, LimitsSoFar, BeforeRelease
  <2>3. ReleasedIsLimited'
    BY <1>2 DEF Wait, ReleasedIsLimited, Limited, ChildAlive
  <2>4. ChildWhere' /\ ReturnsClean'
    BY <1>2 DEF IInv, Wait, ChildWhere, ReturnsClean, ChildAlive
  <2> QED
    BY <1>2, <2>1, <2>2, <2>3, <2>4 DEF IInv, Wait, PrivateFirst, HostUntouched
<1> QED
  BY <1>1, <1>2 DEF Wait

(* A reaped child is no member, so only the host can refuse its removal.   *)
LEMMA RemoveCgroupKeeps == IInv /\ RemoveCgroup => IInv'
<1> SUFFICES ASSUME IInv, RemoveCgroup PROVE IInv'
  OBVIOUS
<1>1. child = "reaped" /\ ~cgroup.member
  BY DEF IInv, RemoveCgroup, ChildWhere, ChildAlive
<1>2. /\ cgroup' \in CgroupType /\ ~cgroup'.member
      /\ cgroup'.exists => "rmdir" \in warned'
      /\ warned' \in {warned, warned \cup {"rmdir"}}
  BY <1>1, NoCgroupTyped DEF IInv, RemoveCgroup, TypeOK, CgroupType
<1>3. TypeOK'
  BY <1>2 DEF IInv, RemoveCgroup, TypeOK, ParentAt, CgroupType
<1>4. NotReleasedEarly' /\ LimitsSoFar'
  BY DEF RemoveCgroup, NotReleasedEarly, LimitsSoFar, BeforeRelease
<1>5. ReleasedIsLimited'
  BY <1>1 DEF RemoveCgroup, ReleasedIsLimited, Limited, ChildAlive
<1>6. ChildWhere' /\ ReturnsClean'
  BY <1>1, <1>2 DEF IInv, RemoveCgroup, ChildWhere, ReturnsClean
<1> QED
  BY <1>3, <1>4, <1>5, <1>6 DEF IInv, RemoveCgroup, PrivateFirst, HostUntouched

LEMMA ReturnKeeps == IInv /\ Return => IInv'
<1> SUFFICES ASSUME IInv, Return PROVE IInv'
  OBVIOUS
<1>1. child = "reaped" /\ (cgroup.exists => "rmdir" \in warned)
  BY DEF IInv, Return, ChildWhere
<1> DEFINE how == Exited(IF status.child.exited THEN status.child.code
                         ELSE 128 + status.child.code)
<1>2. how \in EndStatus
  <2>1. /\ status.child.exited \in BOOLEAN
        /\ status.child.code \in {-1} \cup 0..255
        /\ ~status.child.exited => status.child.code \in {-1, 9}
    BY DEF IInv, TypeOK, ChildWhere, SIGKILL
  <2>2. CASE status.child.exited
    BY <2>1, <2>2 DEF Exited, EndStatus
  <2>3. CASE ~status.child.exited
    BY <2>1, <2>3 DEF Exited, EndStatus
  <2> QED
    BY <2>2, <2>3
<1> HIDE DEF how
<1>3. EndParent("returned", how)
  BY DEF how, Return
<1> QED
  BY <1>1, <1>2, <1>3, ParentEndKeeps DEF Return

-----------------------------------------------------------------------------
(* The child's steps, and the kills.                                       *)
LEMMA WaitForParentKeeps == IInv /\ WaitForParent => IInv'
<1> SUFFICES ASSUME IInv, WaitForParent PROVE IInv'
  OBVIOUS
<1>1. CASE EndChild(Exited(EXIT_FAILURE))
  BY <1>1, Ends, ChildEndKeeps DEF WaitForParent, ChildAlive
<1>2. CASE /\ HasByte(pipe)
           /\ child' = "setup"
           /\ pipe' = CloseReadEnd(TakeByte(pipe), "child")
           /\ UNCHANGED <<status, cgroup>>
  <2>1. pipe.bytes = 1 /\ TakeByte(pipe) \in PipeType
    BY <1>2 DEF IInv, TypeOK, HasByte, TakeByte, PipeType
  <2>2. pipe' \in PipeType
    BY <1>2, <2>1, ClosePipe
  <2>3. parent \notin BeforeRelease /\ child = "blocked"
    BY <2>1 DEF IInv, NotReleasedEarly, WaitForParent
  <2>4. TypeOK'
    BY <1>2, <2>2 DEF IInv, WaitForParent, TypeOK, ChildAt, PipeType
  <2>5. NotReleasedEarly' /\ LimitsSoFar'
    BY <2>3 DEF WaitForParent, NotReleasedEarly, LimitsSoFar, BeforeRelease
  <2>6. ReleasedIsLimited'
    BY <1>2, <2>1, <2>3 DEF IInv, WaitForParent, ReleasedIsLimited, Limited, ChildAlive
  <2>7. ChildWhere' /\ ReturnsClean'
    BY <1>2, <2>3 DEF IInv, WaitForParent, ChildWhere, ReturnsClean, ChildAlive
  <2> QED
    BY <2>4, <2>5, <2>6, <2>7 DEF IInv, WaitForParent, PrivateFirst, HostUntouched
<1> QED
  BY <1>1, <1>2 DEF WaitForParent

(* /proc is mounted after "/" was made private, so the host never sees it. *)
LEMMA SetUpKeeps == IInv /\ SetUp => IInv'
<1> SUFFICES ASSUME IInv, SetUp PROVE IInv'
  OBVIOUS
<1>1. CASE EndChild(Exited(EXIT_FAILURE)) /\ UNCHANGED <<done, host>>
  BY <1>1, Ends, ChildEndKeeps DEF SetUp, ChildAlive
<1>2. CASE /\ done' = done + 1
           /\ host' = HostSees(Setup[done + 1])
           /\ UNCHANGED <<child, status, pipe, cgroup>>
  <2>1. done \in 0..5 /\ done' \in 1..6 /\ child = "setup"
    BY <1>2, SetupLength DEF IInv, TypeOK, SetUp
  <2>2. /\ host.hostname = "host" /\ host.mounts = {} /\ host.shared \in BOOLEAN
        /\ host = [hostname |-> host.hostname, mounts |-> host.mounts,
                   shared |-> host.shared]
        /\ done >= 2 => ~host.shared
    BY DEF IInv, TypeOK, PrivateFirst, HostUntouched
  <2>3. /\ host'.hostname = "host" /\ host'.mounts = {} /\ host'.shared \in BOOLEAN
        /\ host' = [hostname |-> host'.hostname, mounts |-> host'.mounts,
                    shared |-> host'.shared]
        /\ done' >= 2 => ~host'.shared
    <3>1. CASE done = 0
      <4>1. Setup[done + 1] = "sethostname"
        BY <3>1 DEF Setup
      <4> QED
        BY <1>2, <2>2, <3>1, <4>1 DEF HostSees, Namespaces
    <3>2. CASE done = 1
      <4>1. Setup[done + 1] = "private"
        BY <3>2 DEF Setup
      <4>2. host' = [host EXCEPT !.shared = FALSE]
        BY <1>2, <4>1 DEF HostSees
      <4> QED
        BY <2>2, <4>2
    <3>3. CASE done \in 2..5
      <4>1. Setup[done + 1] \in {"chroot", "chdir", "mkdir", "mountproc"}
        BY <3>3 DEF Setup
      <4>2. ~host.shared
        BY <2>2, <3>3
      <4>3. host' = host
        BY <1>2, <4>1, <4>2 DEF HostSees, Namespaces
      <4> QED
        BY <2>2, <4>2, <4>3
    <3> QED
      BY <2>1, <3>1, <3>2, <3>3
  <2>4. TypeOK'
    <3>1. host' \in [hostname : {"host", "mini-container"}, mounts : SUBSET {"proc"},
                     shared : BOOLEAN]
      BY <2>3
    <3> QED
      BY <1>2, <2>1, <3>1, SetupLength DEF IInv, SetUp, TypeOK
  <2>5. PrivateFirst' /\ HostUntouched'
    BY <2>3 DEF PrivateFirst, HostUntouched
  <2>6. (NotReleasedEarly /\ LimitsSoFar /\ ReleasedIsLimited)'
    BY <1>2 DEF IInv, SetUp, NotReleasedEarly, LimitsSoFar, ReleasedIsLimited,
                Limited, ChildAlive
  <2>7. (ChildWhere /\ ReturnsClean)'
    BY <1>2 DEF IInv, SetUp, ChildWhere, ReturnsClean, ChildAlive
  <2> QED
    BY <2>4, <2>5, <2>6, <2>7 DEF IInv
<1> QED
  BY <1>1, <1>2 DEF SetUp

LEMMA ExecuteKeeps == IInv /\ Execute => IInv'
<1> SUFFICES ASSUME IInv, Execute PROVE IInv'
  OBVIOUS
<1>1. CASE EndChild(Exited(EXIT_FAILURE))
  BY <1>1, Ends, ChildEndKeeps DEF Execute, ChildAlive
<1>2. CASE child' = "running" /\ UNCHANGED <<status, pipe, cgroup>>
  <2>1. TypeOK'
    BY <1>2 DEF IInv, Execute, TypeOK, ChildAt
  <2>2. NotReleasedEarly' /\ LimitsSoFar' /\ ReleasedIsLimited'
    BY <1>2 DEF IInv, Execute, NotReleasedEarly, LimitsSoFar, ReleasedIsLimited,
                Limited, ChildAlive
  <2>3. ChildWhere' /\ ReturnsClean'
    BY <1>2 DEF IInv, Execute, ChildWhere, ReturnsClean, ChildAlive
  <2> QED
    BY <1>2, <2>1, <2>2, <2>3 DEF IInv, Execute, PrivateFirst, HostUntouched
<1> QED
  BY <1>1, <1>2 DEF Execute

LEMMA CommandExitsKeeps == IInv /\ CommandExits => IInv'
<1> SUFFICES ASSUME IInv, CommandExits PROVE IInv'
  OBVIOUS
<1>1. PICK code \in ExitCode : EndChild(Exited(code))
  BY DEF CommandExits
<1>2. Exited(code) \in EndStatus /\ Exited(code).exited
  BY ExitCodeAssumption, Ends
<1> QED
  BY <1>1, <1>2, ChildEndKeeps DEF CommandExits, ChildAlive

LEMMA KillsKeep == IInv /\ (KillParent \/ KillChild) => IInv'
<1>1. IInv /\ KillParent => IInv'
  BY Ends, ParentEndKeeps DEF KillParent
<1>2. IInv /\ KillChild => IInv'
  BY Ends, ChildEndKeeps DEF KillChild
<1> QED
  BY <1>1, <1>2

LEMMA NextIInv == IInv /\ [Next]_vars => IInv'
<1> SUFFICES ASSUME IInv, [Next]_vars PROVE IInv'
  OBVIOUS
<1>1. CASE ParentStep
  BY <1>1, CloneKeeps, CloseReadKeeps, MakeCgroupKeeps, SetPidsKeeps, SetMemoryKeeps,
     MoveChildKeeps, ReleaseKeeps, CloseWriteKeeps, WaitKeeps, RemoveCgroupKeeps,
     ReturnKeeps DEF ParentStep
<1>2. CASE ChildStep
  BY <1>2, WaitForParentKeeps, SetUpKeeps, ExecuteKeeps, CommandExitsKeeps DEF ChildStep
<1>3. CASE KillParent \/ KillChild
  BY <1>3, KillsKeep
<1>4. CASE UNCHANGED vars
  BY <1>4 DEF vars, IInv, TypeOK, NotReleasedEarly, LimitsSoFar, ReleasedIsLimited,
              Limited, ChildAlive, ChildWhere, PrivateFirst, ReturnsClean, HostUntouched
<1> QED
  BY <1>1, <1>2, <1>3, <1>4 DEF Next

LEMMA Invariant == Spec => []IInv
  BY InitIInv, NextIInv, PTL DEF Spec

-----------------------------------------------------------------------------
(* The runner's state is well typed: what it returns is a byte, whatever   *)
(* the command exits with and whatever kills it.                           *)
THEOREM TypeCorrect == Spec => []TypeOK
<1>1. IInv => TypeOK
  BY DEF IInv
<1> QED
  BY <1>1, Invariant, PTL

(* A released child is limited, or the parent has printed why not.         *)
THEOREM Limits == Spec => []RunsLimited
<1>1. IInv => RunsLimited
  BY DEF IInv, ReleasedIsLimited, Limited, ChildAlive, RunsLimited
<1> QED
  BY <1>1, Invariant, PTL

(* A runner that returns has reaped its child and removed its cgroup, or   *)
(* has printed that the host did not let it; the child is never the reason. *)
THEOREM Clean == Spec => []ReturnsClean
<1>1. IInv => ReturnsClean
  BY DEF IInv
<1> QED
  BY <1>1, Invariant, PTL

(* Nothing the container does to its hostname and mounts reaches the host. *)
THEOREM HostKept == Spec => []HostUntouched
<1>1. IInv => HostUntouched
  BY DEF IInv
<1> QED
  BY <1>1, Invariant, PTL
-----------------------------------------------------------------------------
(* How the wait of the runner stays founded: it reaps only what it has     *)
(* waited for, and once it is past the release the byte stays in the pipe  *)
(* until the child takes it.                                               *)
Awaited ==
    /\ child = "reaped" => parent \in {"rmdir", "return", "returned", "ended"}
    /\ parent \in {"closewrite", "wait"} /\ child = "blocked" => pipe.bytes > 0

LEMMA AwaitedKeeps == IInv /\ Awaited /\ [Next]_vars => Awaited'
<1> SUFFICES ASSUME IInv, Awaited, [Next]_vars PROVE Awaited'
  OBVIOUS
<1> USE DEF Awaited
<1>1. pipe \in PipeType /\ parent \in ParentAt /\ child \in ChildAt
  BY DEF IInv, TypeOK, PipeType
<1>2. CASE Release
  <2>1. CASE parent' = "closewrite" /\ pipe' = PutByte(pipe)
    <3>1. pipe'.bytes = pipe.bytes + 1 /\ pipe.bytes \in Nat
      BY <1>1, <2>1 DEF PutByte, PipeType
    <3> QED
      BY <1>2, <2>1, <3>1 DEF Release
  <2>2. CASE parent' = "ended"
    BY <2>2
  <2> QED
    BY <1>2, <2>1, <2>2 DEF Release, EndParent, Die
<1>3. CASE CloseWrite
  <2>1. pipe'.bytes = pipe.bytes
    BY <1>1, <1>3 DEF CloseWrite, CloseWriteEnd, PipeType
  <2> QED
    BY <1>3, <2>1 DEF CloseWrite
<1>4. CASE \/ Clone \/ CloseRead \/ MakeCgroup \/ SetPids \/ SetMemory \/ MoveChild
           \/ Wait \/ RemoveCgroup \/ Return \/ KillParent
  BY <1>4 DEF Clone, CloseRead, MakeCgroup, SetPids, SetMemory, SetLimit, MoveChild,
              Wait, RemoveCgroup, Return, KillParent, EndParent, Die
<1>5. CASE WaitForParent \/ SetUp \/ Execute \/ CommandExits \/ KillChild
  BY <1>5 DEF WaitForParent, SetUp, Execute, CommandExits, KillChild, ChildAlive, EndChild
<1>6. CASE UNCHANGED vars
  BY <1>6 DEF vars
<1> QED
  BY <1>2, <1>3, <1>4, <1>5, <1>6 DEF Next, ParentStep, ChildStep

(* The runner never waits for a child that waits for it (the byte of main  *)
(* before its waitpid), wherever either of them fails or is killed.        *)
THEOREM WaitIsFounded == Spec => []NoCircularWait
<1>1. Init => Awaited
  BY DEF Init, Awaited
<1>2. IInv /\ Awaited => NoCircularWait
  BY DEF IInv, TypeOK, ChildAt, ChildWhere, Awaited, NoCircularWait, HasByte
<1> QED
  BY <1>1, <1>2, AwaitedKeeps, Invariant, PTL DEF Spec

(* The steps a runner and its child still have before them, at most.       *)
ParentLeft ==
    [clone |-> 30, closeread |-> 10, mkdir |-> 9, pids |-> 8, memory |-> 7, procs |-> 6,
     release |-> 5, closewrite |-> 4, wait |-> 3, rmdir |-> 2, return |-> 1,
     returned |-> 0, ended |-> 0]
ChildLeft ==
    [none |-> 0, blocked |-> 4, setup |-> 3, running |-> 2, zombie |-> 1, reaped |-> 0]

StepsLeft == ParentLeft[parent] + ChildLeft[child] + (Len(Setup) - done)

LEMMA LeftTable ==
    /\ \A at \in ParentAt : ParentLeft[at] \in Nat
    /\ \A at \in ChildAt : ChildLeft[at] \in Nat
    /\ ParentLeft["clone"] = 30 /\ ParentLeft["closeread"] = 10
    /\ ParentLeft["mkdir"] = 9 /\ ParentLeft["pids"] = 8 /\ ParentLeft["memory"] = 7
    /\ ParentLeft["procs"] = 6 /\ ParentLeft["release"] = 5
    /\ ParentLeft["closewrite"] = 4 /\ ParentLeft["wait"] = 3
    /\ ParentLeft["rmdir"] = 2 /\ ParentLeft["return"] = 1
    /\ ParentLeft["returned"] = 0 /\ ParentLeft["ended"] = 0
    /\ ChildLeft["none"] = 0 /\ ChildLeft["blocked"] = 4 /\ ChildLeft["setup"] = 3
    /\ ChildLeft["running"] = 2 /\ ChildLeft["zombie"] = 1 /\ ChildLeft["reaped"] = 0
BY DEF ParentLeft, ChildLeft, ParentAt, ChildAt

LEMMA StepsLeftNat == IInv => StepsLeft \in Nat
BY LeftTable, SetupLength DEF StepsLeft, IInv, TypeOK

LEMMA StepLowers == IInv /\ [Next]_vars => [StepsLeft' < StepsLeft]_vars
<1> SUFFICES ASSUME IInv, Next PROVE StepsLeft' < StepsLeft
  OBVIOUS
<1> DEFINE p == ParentLeft[parent]
           c == ChildLeft[child]
<1>1. /\ parent \in ParentAt /\ child \in ChildAt /\ done \in 0..6 /\ Len(Setup) = 6
      /\ p \in Nat /\ c \in Nat
  BY LeftTable, SetupLength DEF IInv, TypeOK
<1>2. CASE done' = done /\ p' + c' < p + c /\ p' \in Nat /\ c' \in Nat
  BY <1>1, <1>2 DEF StepsLeft
<1>3. CASE done' = done + 1 /\ parent' = parent /\ child' = child
  BY <1>1, <1>3 DEF StepsLeft
<1>4. ASSUME Clone \/ CloseRead \/ MakeCgroup \/ SetPids \/ SetMemory \/ MoveChild
      PROVE  done' = done /\ p' + c' < p + c /\ p' \in Nat /\ c' \in Nat
  BY <1>4, <1>1, LeftTable
     DEF Clone, CloseRead, MakeCgroup, SetPids, SetMemory, SetLimit, MoveChild, EndParent,
         Die, IInv, ChildWhere
<1>5. ASSUME Release \/ CloseWrite \/ Wait \/ RemoveCgroup \/ Return
      PROVE  done' = done /\ p' + c' < p + c /\ p' \in Nat /\ c' \in Nat
  BY <1>5, <1>1, LeftTable
     DEF Release, CloseWrite, Wait, RemoveCgroup, Return, EndParent, Die
<1>6. ASSUME WaitForParent \/ Execute \/ CommandExits \/ KillChild
      PROVE  done' = done /\ p' + c' < p + c /\ p' \in Nat /\ c' \in Nat
  BY <1>6, <1>1, LeftTable
     DEF WaitForParent, Execute, CommandExits, KillChild, ChildAlive, EndChild
<1>7. ASSUME KillParent
      PROVE  done' = done /\ p' + c' < p + c /\ p' \in Nat /\ c' \in Nat
  <2>1. \A at \in ParentAt \ {"returned", "ended"} : ParentLeft[at] > 0
    BY LeftTable DEF ParentAt
  <2> QED
    BY <1>7, <1>1, <2>1, LeftTable DEF KillParent, ParentAlive, EndParent
<1>8. ASSUME SetUp
      PROVE  \/ done' = done + 1 /\ parent' = parent /\ child' = child
             \/ done' = done /\ p' + c' < p + c /\ p' \in Nat /\ c' \in Nat
  BY <1>8, <1>1, LeftTable DEF SetUp, EndChild
<1> HIDE DEF p, c
<1> QED
  BY <1>2, <1>3, <1>4, <1>5, <1>6, <1>7, <1>8 DEF Next, ParentStep, ChildStep

(* The runner and its child take a bounded number of steps: nothing in     *)
(* main or child_main is done over, so with WaitIsFounded a run can only   *)
(* come to its end.  Every step lowers a natural number.                   *)
THEOREM RunsOut == Spec => /\ [](StepsLeft \in Nat)
                           /\ [][StepsLeft' < StepsLeft]_vars
BY StepsLeftNat, StepLowers, Invariant, PTL DEF Spec
=============================================================================
