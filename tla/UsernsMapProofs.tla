--------------------------- MODULE UsernsMapProofs --------------------------
(***************************************************************************)
(* What the child of the user-namespace lesson sees and what the lesson's  *)
(* success means, in every interleaving, with every failure and every      *)
(* kill, whatever the ids of the user and the overflow id are.             *)
(*                                                                         *)
(* The child does not look at the maps before it looks at its ids: all it  *)
(* knows of them is the byte.  The invariant therefore says what the byte  *)
(* stands for, Mapped, and how far towards it the parent has got.          *)
(***************************************************************************)
EXTENDS UsernsMap, TLAPS

(* What the byte in the pipe stands for.                                   *)
Mapped ==
    /\ uidMap = hostId.uid /\ gidMap = hostId.gid
    /\ setgroups # "allow"

BeforeRelease == {"clone", "closeread", "uidmap", "setgroups", "gidmap", "release"}

(* Before the release the pipe is empty and the child still waits.         *)
NotReleasedEarly ==
    parent \in BeforeRelease =>
        /\ pipe.bytes = 0
        /\ child \in {"none", "blocked", "zombie"}
        /\ seen = << >>

(* How far the parent has got with the maps.                               *)
MapsSoFar ==
    /\ parent \in {"setgroups", "gidmap", "release"} => uidMap = hostId.uid
    /\ parent \in {"gidmap", "release"} => setgroups # "allow"
    /\ parent = "release" => gidMap = hostId.gid

ReleasedIsMapped ==
    pipe.bytes > 0 \/ child = "released" \/ seen # << >> => Mapped

(* The child exits with success only once it has shown its ids; the        *)
(* parent's status is that of an exit only when it has ended.              *)
Ended ==
    /\ status.child = Exited(EXIT_SUCCESS) => seen = <<0, 0>>
    /\ status.parent.exited => parent = "ended"
    /\ parent = "clone" => child = "none"

IInv ==
    /\ TypeOK
    /\ hostId \in [uid : HostIds, gid : HostIds]
    /\ NotReleasedEarly
    /\ MapsSoFar
    /\ ReleasedIsMapped
    /\ Ended
    /\ SeesRootOrNothing
    /\ SuccessMeansMapped

(* The parts of TypeOK that a step changes by EXCEPT.                      *)
ParentStatus == [exited : BOOLEAN, code : {-1, 0, 1, SIGKILL, SIGPIPE}]
ChildStatus  == [exited : BOOLEAN, code : {-1, 0, 1, SIGKILL}]
PipeType     == [bytes : 0..1, readers : SUBSET {"parent", "child"},
                 writers : SUBSET {"parent", "child"}]

-----------------------------------------------------------------------------
(* The ways a process ends here: only an exit with 0 is a success.         *)
LEMMA Ends ==
    /\ Exited(EXIT_SUCCESS) \in ParentStatus \cap ChildStatus
    /\ Exited(EXIT_FAILURE) \in ParentStatus \cap ChildStatus
    /\ Signaled(SIGPIPE) \in ParentStatus
    /\ Signaled(SIGKILL) \in ParentStatus \cap ChildStatus
    /\ Exited(EXIT_FAILURE) # Exited(EXIT_SUCCESS)
    /\ Signaled(SIGPIPE) # Exited(EXIT_SUCCESS)
    /\ Signaled(SIGKILL) # Exited(EXIT_SUCCESS)
    /\ NoStatus # Exited(EXIT_SUCCESS)
    /\ Exited(EXIT_SUCCESS).exited
<1>1. Exited(EXIT_SUCCESS).exited /\ ~Signaled(SIGPIPE).exited /\ ~Signaled(SIGKILL).exited
      /\ ~NoStatus.exited
  BY DEF Exited, Signaled, NoStatus
<1>2. Exited(EXIT_SUCCESS).code = 0 /\ Exited(EXIT_FAILURE).code = 1
  BY DEF Exited, EXIT_SUCCESS, EXIT_FAILURE
<1>3. /\ Exited(EXIT_SUCCESS) \in ParentStatus \cap ChildStatus
      /\ Exited(EXIT_FAILURE) \in ParentStatus \cap ChildStatus
      /\ Signaled(SIGPIPE) \in ParentStatus
      /\ Signaled(SIGKILL) \in ParentStatus \cap ChildStatus
  BY DEF Exited, Signaled, EXIT_SUCCESS, EXIT_FAILURE, SIGPIPE, SIGKILL, ParentStatus,
         ChildStatus
<1> QED
  BY <1>1, <1>2, <1>3

(* Closing an end of the pipe takes no byte out of it.                     *)
LEMMA ClosePipe ==
    ASSUME NEW p \in PipeType, NEW who
    PROVE  /\ CloseReadEnd(p, who) \in PipeType /\ CloseReadEnd(p, who).bytes = p.bytes
           /\ CloseWriteEnd(p, who) \in PipeType /\ CloseWriteEnd(p, who).bytes = p.bytes
           /\ CloseBoth(p, who) \in PipeType /\ CloseBoth(p, who).bytes = p.bytes
<1>1. /\ CloseReadEnd(p, who) \in PipeType /\ CloseReadEnd(p, who).bytes = p.bytes
      /\ CloseWriteEnd(p, who) \in PipeType /\ CloseWriteEnd(p, who).bytes = p.bytes
  BY DEF PipeType, CloseReadEnd, CloseWriteEnd
<1>2. CloseReadEnd(CloseWriteEnd(p, who), who) \in PipeType
      /\ CloseReadEnd(CloseWriteEnd(p, who), who).bytes = CloseWriteEnd(p, who).bytes
  BY <1>1 DEF PipeType, CloseReadEnd
<1> QED
  BY <1>1, <1>2 DEF CloseBoth

(* A parent may end at any point, and successfully when a mapped child has *)
(* shown root.  The child may be reaped in the same step.                  *)
LEMMA ParentEndKeeps ==
    ASSUME IInv, NEW how \in ParentStatus, EndParent(how),
           child' = child \/ child' = "reaped",
           UNCHANGED <<nsVars, seen>>,
           how = Exited(EXIT_SUCCESS) => seen = <<0, 0>> /\ Mapped
    PROVE  IInv'
<1>1. UNCHANGED <<hostId, setgroups, uidMap, gidMap, seen>>
  BY DEF nsVars
<1>2. pipe \in PipeType
  BY DEF IInv, TypeOK, PipeType
<1>3. pipe' \in PipeType /\ pipe'.bytes = pipe.bytes
  BY <1>2, ClosePipe DEF EndParent
<1>4. /\ status' \in [parent : ParentStatus, child : ChildStatus]
      /\ status'.parent = how /\ status'.child = status.child
  BY DEF IInv, TypeOK, EndParent, ParentStatus, ChildStatus
<1>5. parent' = "ended"
  BY DEF EndParent
<1>6. TypeOK'
  BY <1>1, <1>3, <1>4, <1>5 DEF IInv, TypeOK, PipeType, ParentStatus, ChildStatus
<1>7. (NotReleasedEarly /\ MapsSoFar)'
  BY <1>5 DEF NotReleasedEarly, MapsSoFar, BeforeRelease
<1>8. ReleasedIsMapped'
  BY <1>1, <1>3 DEF IInv, ReleasedIsMapped, Mapped
<1>9. Ended'
  BY <1>1, <1>4, <1>5 DEF IInv, Ended
<1>10. SuccessMeansMapped'
  BY <1>1, <1>4 DEF SuccessMeansMapped, Mapped
<1> QED
  BY <1>1, <1>6, <1>7, <1>8, <1>9, <1>10 DEF IInv, SeesRootOrNothing

(* A living child may end at any point, successfully when it has shown     *)
(* that it is root.                                                        *)
LEMMA ChildEndKeeps ==
    ASSUME IInv, ChildAlive, NEW how \in ChildStatus, EndChild(how),
           UNCHANGED <<parent, nsVars>>,
           \/ seen' = seen /\ how # Exited(EXIT_SUCCESS)
           \/ seen' = <<0, 0>> /\ child = "released"
    PROVE  IInv'
<1>1. UNCHANGED <<hostId, setgroups, uidMap, gidMap>>
  BY DEF nsVars
<1>2. pipe \in PipeType
  BY DEF IInv, TypeOK, PipeType
<1>3. pipe' \in PipeType /\ pipe'.bytes = pipe.bytes
  BY <1>2, ClosePipe DEF EndChild
<1>4. /\ status' \in [parent : ParentStatus, child : ChildStatus]
      /\ status'.child = how /\ status'.parent = status.parent
  BY DEF IInv, TypeOK, EndChild, ParentStatus, ChildStatus
<1>5. child' = "zombie" /\ child # "none"
  BY DEF EndChild, ChildAlive
<1>6. SeesRootOrNothing'
  BY DEF IInv, SeesRootOrNothing
<1>7. TypeOK'
  <2>1. seen' \in {<< >>} \cup ({0, Unmapped} \X {0, Unmapped})
    BY <1>6 DEF SeesRootOrNothing
  <2> QED
    BY <1>1, <1>3, <1>4, <1>5, <2>1 DEF IInv, TypeOK, PipeType, ParentStatus, ChildStatus
<1>8. (NotReleasedEarly /\ MapsSoFar)'
  BY <1>1, <1>3, <1>5 DEF IInv, NotReleasedEarly, MapsSoFar
<1>9. ReleasedIsMapped'
  BY <1>1, <1>3, <1>5 DEF IInv, ReleasedIsMapped, Mapped
<1>10. Ended'
  BY <1>4, <1>5 DEF IInv, Ended
<1>11. SuccessMeansMapped'
  BY <1>1, <1>4 DEF IInv, SuccessMeansMapped
<1> QED
  BY <1>1, <1>6, <1>7, <1>8, <1>9, <1>10, <1>11 DEF IInv

-----------------------------------------------------------------------------
LEMMA InitIInv == Init => IInv
<1> SUFFICES ASSUME Init PROVE IInv
  OBVIOUS
<1>1. /\ pipe \in PipeType /\ pipe.bytes = 0
  BY DEF Init, NewPipe, PipeType
<1>2. /\ status \in [parent : ParentStatus, child : ChildStatus]
      /\ ~status.parent.exited /\ ~status.child.exited
  BY DEF Init, NoStatus, ParentStatus, ChildStatus
<1>3. TypeOK
  BY <1>1, <1>2 DEF Init, TypeOK, PipeType, ParentStatus, ChildStatus
<1>4. NotReleasedEarly /\ MapsSoFar /\ ReleasedIsMapped
  BY <1>1 DEF Init, NotReleasedEarly, MapsSoFar, ReleasedIsMapped, BeforeRelease
<1>5. Ended /\ SuccessMeansMapped
  BY <1>2, Ends DEF Init, Ended, SuccessMeansMapped
<1> QED
  BY <1>3, <1>4, <1>5 DEF Init, IInv, SeesRootOrNothing

-----------------------------------------------------------------------------
(* The parent's steps.                                                     *)
LEMMA CloneKeeps == IInv /\ Clone => IInv'
<1> SUFFICES ASSUME IInv, Clone PROVE IInv'
  OBVIOUS
<1>1. UNCHANGED <<hostId, setgroups, uidMap, gidMap, seen>>
  BY DEF Clone, nsVars
<1>2. CASE EndParent(Exited(EXIT_FAILURE)) /\ UNCHANGED child
  BY <1>2, Ends, ParentEndKeeps DEF Clone
<1>3. CASE /\ parent' = "closeread" /\ child' = "blocked"
           /\ pipe' = Inherit(pipe, "parent", "child")
           /\ UNCHANGED status
  <2>1. pipe' \in PipeType /\ pipe'.bytes = pipe.bytes
    BY <1>3 DEF IInv, TypeOK, Inherit, PipeType
  <2>2. TypeOK'
    BY <1>1, <1>3, <2>1 DEF IInv, TypeOK, PipeType
  <2>3. NotReleasedEarly' /\ MapsSoFar' /\ ReleasedIsMapped'
    BY <1>1, <1>3, <2>1 DEF IInv, Clone, NotReleasedEarly, MapsSoFar, ReleasedIsMapped,
                            BeforeRelease
  <2>4. Ended' /\ SuccessMeansMapped'
    BY <1>1, <1>3 DEF IInv, Clone, Ended, SuccessMeansMapped
  <2> QED
    BY <1>1, <2>2, <2>3, <2>4 DEF IInv, SeesRootOrNothing
<1> QED
  BY <1>2, <1>3 DEF Clone

LEMMA CloseEndsKeep == IInv /\ (CloseRead \/ CloseWrite) => IInv'
<1> SUFFICES ASSUME IInv, CloseRead \/ CloseWrite PROVE IInv'
  OBVIOUS
<1>1. /\ UNCHANGED <<child, status, hostId, setgroups, uidMap, gidMap, seen>>
      /\ \/ parent = "closeread" /\ parent' = "uidmap"
         \/ parent = "closewrite" /\ parent' = "wait"
  BY DEF CloseRead, CloseWrite, nsVars
<1>2. pipe' \in PipeType /\ pipe'.bytes = pipe.bytes
  BY ClosePipe DEF IInv, CloseRead, CloseWrite, TypeOK, PipeType
<1>3. TypeOK'
  BY <1>1, <1>2 DEF IInv, TypeOK, PipeType
<1>4. (NotReleasedEarly /\ MapsSoFar)'
  BY <1>1, <1>2 DEF IInv, NotReleasedEarly, MapsSoFar, BeforeRelease
<1>5. ReleasedIsMapped'
  BY <1>1, <1>2 DEF IInv, ReleasedIsMapped, Mapped
<1>6. Ended' /\ SuccessMeansMapped'
  BY <1>1, Ends DEF IInv, Ended, SuccessMeansMapped
<1> QED
  BY <1>1, <1>3, <1>4, <1>5, <1>6 DEF IInv, SeesRootOrNothing

(* The three files.  Until the release no child has been told anything.    *)
LEMMA WritesKeep == IInv /\ (WriteUidMap \/ DenySetgroups \/ WriteGidMap) => IInv'
<1> SUFFICES ASSUME IInv, WriteUidMap \/ DenySetgroups \/ WriteGidMap PROVE IInv'
  OBVIOUS
<1>1. /\ UNCHANGED <<child, status, pipe, hostId, seen>>
      /\ parent \in {"uidmap", "setgroups", "gidmap"}
      /\ parent' \in {"setgroups", "gidmap", "release"}
  BY DEF WriteUidMap, DenySetgroups, WriteGidMap
<1>2. /\ pipe.bytes = 0 /\ child \in {"none", "blocked", "zombie"} /\ seen = << >>
      /\ ~status.parent.exited
  BY <1>1 DEF IInv, NotReleasedEarly, BeforeRelease, Ended
<1>3. /\ hostId.uid \in HostIds /\ hostId.gid \in HostIds
  BY DEF IInv
<1>4. TypeOK'
  BY <1>1, <1>3 DEF IInv, TypeOK, WriteUidMap, DenySetgroups, WriteGidMap
<1>5. MapsSoFar'
  <2>1. CASE WriteUidMap
    BY <2>1 DEF MapsSoFar, WriteUidMap
  <2>2. CASE DenySetgroups
    BY <2>2 DEF IInv, MapsSoFar, DenySetgroups
  <2>3. CASE WriteGidMap
    BY <2>3 DEF IInv, MapsSoFar, WriteGidMap
  <2> QED
    BY <2>1, <2>2, <2>3
<1>6. NotReleasedEarly' /\ ReleasedIsMapped'
  BY <1>1, <1>2 DEF NotReleasedEarly, ReleasedIsMapped
<1>7. Ended' /\ SuccessMeansMapped'
  BY <1>1, <1>2, Ends DEF IInv, Ended, SuccessMeansMapped
<1> QED
  BY <1>1, <1>4, <1>5, <1>6, <1>7 DEF IInv, SeesRootOrNothing

LEMMA GiveUpKeeps == IInv /\ GiveUp => IInv'
  BY Ends, ParentEndKeeps DEF GiveUp

(* The byte is put into an empty pipe, and only when the child is mapped.  *)
LEMMA ReleaseKeeps == IInv /\ Release => IInv'
<1> SUFFICES ASSUME IInv, Release PROVE IInv'
  OBVIOUS
<1>1. UNCHANGED <<child, hostId, setgroups, uidMap, gidMap, seen>>
  BY DEF Release, nsVars
<1>2. pipe \in PipeType /\ pipe.bytes = 0 /\ Mapped
  BY DEF IInv, Release, NotReleasedEarly, BeforeRelease, MapsSoFar, Mapped, TypeOK, PipeType
<1>3. CASE \E how \in {Signaled(SIGPIPE), Exited(EXIT_FAILURE)} : EndParent(how)
  BY <1>3, Ends, ParentEndKeeps DEF Release
<1>4. CASE parent' = "closewrite" /\ pipe' = PutByte(pipe) /\ UNCHANGED status
  <2>1. pipe' \in PipeType
    BY <1>2, <1>4 DEF PutByte, PipeType
  <2>2. TypeOK'
    BY <1>1, <1>4, <2>1 DEF IInv, TypeOK, PipeType
  <2>3. NotReleasedEarly' /\ MapsSoFar'
    BY <1>4 DEF NotReleasedEarly, MapsSoFar, BeforeRelease
  <2>4. ReleasedIsMapped'
    BY <1>1, <1>2 DEF ReleasedIsMapped, Mapped
  <2>5. Ended' /\ SuccessMeansMapped'
    BY <1>1, <1>4 DEF IInv, Release, Ended, SuccessMeansMapped
  <2> QED
    BY <1>1, <2>2, <2>3, <2>4, <2>5 DEF IInv, SeesRootOrNothing
<1> QED
  BY <1>3, <1>4 DEF Release

(* A child that exited with success has shown its ids, and was mapped.     *)
LEMMA WaitAndReturnKeeps == IInv /\ WaitAndReturn => IInv'
<1> SUFFICES ASSUME IInv, WaitAndReturn PROVE IInv'
  OBVIOUS
<1> DEFINE how == Exited(IF status.child = Exited(0) THEN EXIT_SUCCESS ELSE EXIT_FAILURE)
<1>1. how \in ParentStatus
  BY Ends
<1>2. how = Exited(EXIT_SUCCESS) => status.child = Exited(EXIT_SUCCESS)
  BY Ends DEF EXIT_SUCCESS
<1>3. how = Exited(EXIT_SUCCESS) => seen = <<0, 0>> /\ Mapped
  BY <1>2 DEF IInv, Ended, ReleasedIsMapped
<1>4. EndParent(how) \/ EndParent(Exited(EXIT_FAILURE))
  BY DEF WaitAndReturn
<1> HIDE DEF how
<1>5. CASE EndParent(how)
  BY <1>1, <1>3, <1>5, ParentEndKeeps DEF WaitAndReturn
<1>6. CASE EndParent(Exited(EXIT_FAILURE))
  BY <1>6, Ends, ParentEndKeeps DEF WaitAndReturn
<1> QED
  BY <1>4, <1>5, <1>6

-----------------------------------------------------------------------------
(* The child's steps, and the kills.                                       *)
LEMMA AwaitMappingKeeps == IInv /\ AwaitMapping => IInv'
<1> SUFFICES ASSUME IInv, AwaitMapping PROVE IInv'
  OBVIOUS
<1>1. UNCHANGED <<parent, hostId, setgroups, uidMap, gidMap, seen>>
  BY DEF AwaitMapping, nsVars
<1>2. CASE EndChild(Exited(EXIT_FAILURE))
  BY <1>1, <1>2, Ends, ChildEndKeeps DEF AwaitMapping, ChildAlive
<1>3. CASE /\ HasByte(pipe)
           /\ child' = "released"
           /\ pipe' = CloseReadEnd(TakeByte(pipe), "child")
           /\ UNCHANGED status
  <2>1. pipe.bytes = 1 /\ TakeByte(pipe) \in PipeType
    BY <1>3 DEF IInv, TypeOK, HasByte, TakeByte, PipeType
  <2>2. pipe' \in PipeType
    BY <1>3, <2>1, ClosePipe
  <2>3. parent \notin BeforeRelease /\ Mapped
    BY <2>1 DEF IInv, NotReleasedEarly, ReleasedIsMapped
  <2>4. TypeOK'
    BY <1>1, <1>3, <2>2 DEF IInv, TypeOK, PipeType
  <2>5. NotReleasedEarly' /\ MapsSoFar' /\ ReleasedIsMapped'
    BY <1>1, <2>3 DEF NotReleasedEarly, MapsSoFar, ReleasedIsMapped, Mapped, BeforeRelease
  <2>6. Ended' /\ SuccessMeansMapped'
    BY <1>1, <1>3, <2>3 DEF IInv, Ended, SuccessMeansMapped, BeforeRelease
  <2> QED
    BY <1>1, <2>4, <2>5, <2>6 DEF IInv, SeesRootOrNothing
<1> QED
  BY <1>2, <1>3 DEF AwaitMapping

(* The host's ids are not negative, so a mapped id is never the overflow.  *)
LEMMA ShowIdsKeeps == IInv /\ ShowIds => IInv'
<1> SUFFICES ASSUME IInv, ShowIds PROVE IInv'
  OBVIOUS
<1>1. child = "released" /\ EndChild(Exited(EXIT_SUCCESS)) /\ UNCHANGED <<parent, nsVars>>
  BY DEF ShowIds
<1>2. Mapped
  BY <1>1 DEF IInv, ReleasedIsMapped
<1>3. hostId.uid \in Nat /\ hostId.gid \in Nat
  BY IdAssumption DEF IInv
<1>4. seen' = <<0, 0>>
  BY <1>2, <1>3 DEF ShowIds, Mapped
<1> QED
  BY <1>1, <1>4, Ends, ChildEndKeeps DEF ChildAlive

LEMMA KillsKeep == IInv /\ (KillParent \/ KillChild) => IInv'
<1>1. IInv /\ KillParent => IInv'
  BY Ends, ParentEndKeeps DEF KillParent
<1>2. IInv /\ KillChild => IInv'
  BY Ends, ChildEndKeeps DEF KillChild
<1> QED
  BY <1>1, <1>2

LEMMA NextIInv == IInv /\ [Next]_vars => IInv'
<1> SUFFICES ASSUME IInv, [Next]_vars PROVE IInv'
  OBVIOUS
<1>1. CASE ParentStep
  BY <1>1, CloneKeeps, CloseEndsKeep, WritesKeep, GiveUpKeeps, ReleaseKeeps,
     WaitAndReturnKeeps DEF ParentStep
<1>2. CASE ChildStep
  BY <1>2, AwaitMappingKeeps, ShowIdsKeeps DEF ChildStep
<1>3. CASE KillParent \/ KillChild
  BY <1>3, KillsKeep
<1>4. CASE UNCHANGED vars
  BY <1>4 DEF vars, nsVars, IInv, TypeOK, NotReleasedEarly, MapsSoFar, ReleasedIsMapped,
              Mapped, Ended, SeesRootOrNothing, SuccessMeansMapped
<1> QED
  BY <1>1, <1>2, <1>3, <1>4 DEF Next

LEMMA Invariant == Spec => []IInv
  BY InitIInv, NextIInv, PTL DEF Spec

-----------------------------------------------------------------------------
(* The lesson's state is well typed: the parent exits with 0 or 1.         *)
THEOREM TypeCorrect == Spec => []TypeOK
<1>1. IInv => TypeOK
  BY DEF IInv
<1> QED
  BY <1>1, Invariant, PTL

(* The child reports root in its namespace or nothing.                     *)
THEOREM SeesRoot == Spec => []SeesRootOrNothing
<1>1. IInv => SeesRootOrNothing
  BY DEF IInv
<1> QED
  BY <1>1, Invariant, PTL

(* A success of the lesson is a child that ran to its end, mapped.         *)
THEOREM Success == Spec => []SuccessMeansMapped
<1>1. IInv => SuccessMeansMapped
  BY DEF IInv
<1> QED
  BY <1>1, Invariant, PTL

(* No released child can drop a group where the kernel lets it be denied.  *)
THEOREM GroupsKept == Spec => []NoGroupDropped
<1>1. IInv => NoGroupDropped
  BY DEF IInv, ReleasedIsMapped, Mapped, NoGroupDropped
<1> QED
  BY <1>1, Invariant, PTL
-----------------------------------------------------------------------------
(* How the parent's wait stays founded: there is a child from clone on, it *)
(* is reaped last, and past the release the byte stays in the pipe until   *)
(* the child takes it.                                                     *)
Awaited ==
    /\ child = "none" => parent \in {"clone", "ended"}
    /\ child = "reaped" => parent = "ended"
    /\ parent \in {"closewrite", "wait"} /\ child = "blocked" => pipe.bytes > 0

LEMMA AwaitedKeeps == IInv /\ Awaited /\ [Next]_vars => Awaited'
<1> SUFFICES ASSUME IInv, Awaited, [Next]_vars PROVE Awaited'
  OBVIOUS
<1> USE DEF Awaited
<1>1. pipe \in PipeType
  BY DEF IInv, TypeOK, PipeType
<1>2. CASE Release
  <2>1. CASE parent' = "closewrite" /\ pipe' = PutByte(pipe)
    <3>1. pipe'.bytes = pipe.bytes + 1 /\ pipe.bytes \in Nat
      BY <1>1, <2>1 DEF PutByte, PipeType
    <3> QED
      BY <1>2, <2>1, <3>1 DEF Release
  <2>2. CASE parent' = "ended"
    BY <1>2, <2>2 DEF Release
  <2> QED
    BY <1>2, <2>1, <2>2 DEF Release, EndParent
<1>3. CASE CloseWrite
  <2>1. pipe'.bytes = pipe.bytes
    BY <1>1, <1>3 DEF CloseWrite, CloseWriteEnd, PipeType
  <2> QED
    BY <1>3, <2>1 DEF CloseWrite
<1>4. CASE \/ Clone \/ CloseRead \/ WriteUidMap \/ DenySetgroups \/ WriteGidMap
           \/ GiveUp \/ WaitAndReturn \/ KillParent
  BY <1>4 DEF Clone, CloseRead, WriteUidMap, DenySetgroups, WriteGidMap, GiveUp,
              WaitAndReturn, KillParent, EndParent
<1>5. CASE AwaitMapping \/ ShowIds \/ KillChild
  BY <1>5 DEF AwaitMapping, ShowIds, KillChild, ChildAlive, EndChild
<1>6. CASE UNCHANGED vars
  BY <1>6 DEF vars
<1> QED
  BY <1>2, <1>3, <1>4, <1>5, <1>6 DEF Next, ParentStep, ChildStep

(* The parent never waits for a child that waits for it (the byte of main  *)
(* before its waitpid), wherever either of them fails or is killed.        *)
THEOREM WaitIsFounded == Spec => []NoCircularWait
<1>1. Init => Awaited
  BY DEF Init, Awaited
<1>2. IInv /\ Awaited => NoCircularWait
  BY DEF IInv, TypeOK, Awaited, NoCircularWait, HasByte
<1> QED
  BY <1>1, <1>2, AwaitedKeeps, Invariant, PTL DEF Spec

(* The steps parent and child still have before them, at most.             *)
ParentLeft ==
    [clone |-> 30, closeread |-> 10, uidmap |-> 9, setgroups |-> 8, gidmap |-> 7,
     release |-> 5, closewrite |-> 4, wait |-> 3, ended |-> 0]
ChildLeft == [none |-> 0, blocked |-> 3, released |-> 2, zombie |-> 1, reaped |-> 0]

StepsLeft == ParentLeft[parent] + ChildLeft[child]

ParentPlaces == {"clone", "closeread", "uidmap", "setgroups", "gidmap",
                 "release", "closewrite", "wait", "ended"}
ChildPlaces  == {"none", "blocked", "released", "zombie", "reaped"}

LEMMA LeftTable ==
    /\ \A at \in ParentPlaces : ParentLeft[at] \in Nat
    /\ \A at \in ParentPlaces \ {"ended"} : ParentLeft[at] > 0
    /\ \A at \in ChildPlaces : ChildLeft[at] \in Nat
    /\ ParentLeft["clone"] = 30 /\ ParentLeft["closeread"] = 10
    /\ ParentLeft["uidmap"] = 9 /\ ParentLeft["setgroups"] = 8 /\ ParentLeft["gidmap"] = 7
    /\ ParentLeft["release"] = 5 /\ ParentLeft["closewrite"] = 4
    /\ ParentLeft["wait"] = 3 /\ ParentLeft["ended"] = 0
    /\ ChildLeft["none"] = 0 /\ ChildLeft["blocked"] = 3 /\ ChildLeft["released"] = 2
    /\ ChildLeft["zombie"] = 1 /\ ChildLeft["reaped"] = 0
BY DEF ParentLeft, ChildLeft, ParentPlaces, ChildPlaces

LEMMA StepsLeftNat == IInv => StepsLeft \in Nat
BY LeftTable DEF StepsLeft, IInv, TypeOK, ParentPlaces, ChildPlaces

LEMMA StepLowers == IInv /\ [Next]_vars => [StepsLeft' < StepsLeft]_vars
<1> SUFFICES ASSUME IInv, Next PROVE StepsLeft' < StepsLeft
  OBVIOUS
<1>1. /\ parent \in ParentPlaces /\ child \in ChildPlaces
      /\ ParentLeft[parent] \in Nat /\ ChildLeft[child] \in Nat
  BY LeftTable DEF IInv, TypeOK, ParentPlaces, ChildPlaces
<1> USE <1>1, LeftTable DEF StepsLeft
<1>2. CASE Clone
  BY <1>2 DEF Clone, EndParent, IInv, Ended
<1>3. CASE CloseRead \/ WriteUidMap \/ DenySetgroups \/ WriteGidMap \/ GiveUp
  BY <1>3 DEF CloseRead, WriteUidMap, DenySetgroups, WriteGidMap, GiveUp, EndParent
<1>4. CASE Release \/ CloseWrite \/ WaitAndReturn
  BY <1>4 DEF Release, CloseWrite, WaitAndReturn, EndParent
<1>5. CASE AwaitMapping \/ ShowIds \/ KillChild
  BY <1>5 DEF AwaitMapping, ShowIds, KillChild, ChildAlive, EndChild
<1>6. CASE KillParent
  BY <1>6 DEF KillParent, ParentAlive, EndParent
<1> QED
  BY <1>2, <1>3, <1>4, <1>5, <1>6 DEF Next, ParentStep, ChildStep

(* The lesson takes a bounded number of steps: nothing in main or          *)
(* child_main is done over, so with WaitIsFounded its parent can only come *)
(* to its end.  Every step lowers a natural number.                        *)
THEOREM RunsOut == Spec => /\ [](StepsLeft \in Nat)
                           /\ [][StepsLeft' < StepsLeft]_vars
BY StepsLeftNat, StepLowers, Invariant, PTL DEF Spec
=============================================================================
