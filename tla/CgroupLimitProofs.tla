-------------------------- MODULE CgroupLimitProofs -------------------------
(***************************************************************************)
(* The cgroup lesson for any number of overlapping runs: the last one to   *)
(* return leaves no directory that the host lets it remove, and it takes   *)
(* two other runs to take a child's limits away.                           *)
(*                                                                         *)
(* The directory is shared, so what a run may rely on is not what it did   *)
(* to it but what the others cannot have done: from mkdir to the end of    *)
(* its child a run is `underway', and if the directory is missing then,    *)
(* another run has returned; if it lacks a limit the run has set, a third  *)
(* one has made it anew.                                                   *)
(***************************************************************************)
EXTENDS CgroupLimit, TLAPS

ParentAt == {"mkdir", "pids", "memory", "fork", "wait", "giveup",
             "cleanup0", "cleanup1", "ended"}

Underway(r) ==
    parent[r] \in {"pids", "memory", "fork"} \/ child[r] \in {"forked", "member"}

(* A run has a result exactly when it has ended, and a live child only     *)
(* while it waits or once it has been killed.                              *)
Bookkeeping ==
    \A r \in Run :
        /\ parent[r] = "ended" <=> result[r] # "none"
        /\ child[r] \in {"forked", "member"} => parent[r] = "wait" \/ result[r] = "killed"

MembersKeepDir == Members # {} => dir.exists

DirOfUnderway ==
    \A r \in Run : Underway(r) =>
        /\ ~dir.exists => \E s \in Run \ {r} : Returned(s)
        /\ dir.exists => \/ Replaced(r)
                         \/ /\ parent[r] # "pids" => dir.pids
                            /\ parent[r] \notin {"pids", "memory"} => dir.memory

(* While the directory is there, somebody is yet to remove it, or a kill   *)
(* or a refusal by the host excuses that nobody is.                        *)
Minded ==
    dir.exists =>
        \/ \E r \in Run : result[r] \in {"killed", "stale"}
        \/ \E r \in Run : parent[r] \notin {"mkdir", "ended"}
        \/ \A r \in Run : result[r] \in {"none", "refused"}

IInv == TypeOK /\ Bookkeeping /\ MembersKeepDir /\ DirOfUnderway /\ Minded

LEMMA InitIInv == Init => IInv
<1> SUFFICES ASSUME Init PROVE IInv
  OBVIOUS
<1> USE DEF Init
<1>1. TypeOK
  <2>1. /\ NoDir \in [exists : BOOLEAN, pids : BOOLEAN, memory : BOOLEAN]
        /\ [exists |-> TRUE, pids |-> FALSE, memory |-> FALSE]
              \in [exists : BOOLEAN, pids : BOOLEAN, memory : BOOLEAN]
        /\ [exists |-> TRUE, pids |-> TRUE, memory |-> FALSE]
              \in [exists : BOOLEAN, pids : BOOLEAN, memory : BOOLEAN]
        /\ [exists |-> TRUE, pids |-> TRUE, memory |-> TRUE]
              \in [exists : BOOLEAN, pids : BOOLEAN, memory : BOOLEAN]
    BY DEF NoDir
  <2>2. dir \in [exists : BOOLEAN, pids : BOOLEAN, memory : BOOLEAN]
    BY <2>1
  <2> QED
    BY <2>2 DEF TypeOK
<1>2. Bookkeeping /\ MembersKeepDir /\ DirOfUnderway
  BY DEF Bookkeeping, MembersKeepDir, Members, DirOfUnderway, Underway
<1>3. Minded
  BY DEF Minded
<1> QED
  BY <1>1, <1>2, <1>3 DEF IInv

(* The loss of limits is never undone: runs do not go back.                *)
LEMMA ReplacedStays ==
    ASSUME NEW r \in Run, Replaced(r),
           \A s \in Run : Returned(s) => Returned(s)',
           \A u \in Run : parent[u] # "mkdir" => parent'[u] # "mkdir"
    PROVE  Replaced(r)'
BY DEF Replaced

(* A parent that steps on, the directory left alone                        *)
LEMMA GotoKeeps ==
    ASSUME IInv, NEW r \in Run, NEW next \in ParentAt \ {"mkdir", "ended"},
           parent[r] # "ended", Goto(r, next),
           UNCHANGED dir, child' \in [Run -> {"none", "forked", "member", "succeeded", "failed"}],
           \A s \in Run \ {r} : child'[s] = child[s],
           child'[r] \in {"forked", "member"} => next = "wait",
           child'[r] = "member" => child[r] = "member",
           Underway(r)' => Underway(r) /\ parent[r] \notin {"pids", "memory"}
    PROVE  IInv'
<1> USE DEF IInv, Goto
<1>1. TypeOK'
  BY DEF TypeOK, ParentAt
<1>2. Bookkeeping'
  BY DEF Bookkeeping, TypeOK
<1>3. Members' \subseteq Members
  BY DEF Members
<1>4. MembersKeepDir'
  BY <1>3 DEF MembersKeepDir
<1>5. \A s \in Run : Returned(s) <=> Returned(s)'
  BY DEF Returned
<1>6. \A u \in Run : parent[u] # "mkdir" => parent'[u] # "mkdir"
  BY DEF TypeOK
<1>7. DirOfUnderway'
  <2> SUFFICES ASSUME NEW s \in Run, Underway(s)'
               PROVE  /\ ~dir.exists => \E t \in Run \ {s} : Returned(t)
                      /\ dir.exists => \/ Replaced(s)'
                                       \/ /\ parent'[s] # "pids" => dir.pids
                                          /\ parent'[s] \notin {"pids", "memory"} => dir.memory
    BY <1>5 DEF DirOfUnderway
  <2>1. Underway(s)
    BY DEF Underway, TypeOK
  <2>2. parent[s] \in {"pids", "memory"} => parent'[s] = parent[s]
    BY DEF TypeOK
  <2>3. Replaced(s) => Replaced(s)'
    BY <1>5, <1>6, ReplacedStays
  <2> QED
    BY <2>1, <2>2, <2>3 DEF DirOfUnderway
<1>8. Minded'
  BY DEF Minded, TypeOK, ParentAt
<1> QED
  BY <1>1, <1>2, <1>4, <1>7, <1>8

(* A run that ends without having touched the directory: killed, refused   *)
(* at mkdir, or refused at rmdir                                           *)
LEMMA EndKeeps ==
    ASSUME IInv, NEW r \in Run, NEW how \in {"refused", "stale", "killed"}, End(r, how),
           parent[r] # "ended", UNCHANGED <<child, dir>>,
           how = "refused" => parent[r] = "mkdir",
           how = "stale" => parent[r] \in {"giveup", "cleanup0", "cleanup1"}
    PROVE  IInv'
<1> USE DEF IInv, End
<1>1. TypeOK'
  BY DEF TypeOK
<1>2. Bookkeeping'
  BY DEF Bookkeeping, TypeOK
<1>3. MembersKeepDir'
  BY DEF MembersKeepDir, Members
<1>4. \A s \in Run : Returned(s) => Returned(s)'
  BY DEF Returned, Bookkeeping, TypeOK
<1>5. \A u \in Run : parent[u] # "mkdir" => parent'[u] # "mkdir"
  BY DEF TypeOK
<1>6. DirOfUnderway'
  <2> SUFFICES ASSUME NEW s \in Run, Underway(s)'
               PROVE  /\ ~dir.exists => \E t \in Run \ {s} : Returned(t)'
                      /\ dir.exists => \/ Replaced(s)'
                                       \/ /\ parent'[s] # "pids" => dir.pids
                                          /\ parent'[s] \notin {"pids", "memory"} => dir.memory
    BY DEF DirOfUnderway
  <2>1. Underway(s) /\ (parent[s] = parent'[s] \/ parent[s] \notin {"pids", "memory"})
    BY DEF Underway, TypeOK, Bookkeeping
  <2>2. Replaced(s) => Replaced(s)'
    BY <1>4, <1>5, ReplacedStays
  <2> QED
    BY <2>1, <2>2, <1>4 DEF DirOfUnderway
<1>7. Minded'
  <2>1. result'[r] = how /\ \A s \in Run \ {r} : result'[s] = result[s] /\ parent'[s] = parent[s]
    BY DEF TypeOK
  <2>2. CASE how \in {"stale", "killed"}
    BY <2>1, <2>2 DEF Minded
  <2>3. CASE how = "refused"
    BY <2>1, <2>3 DEF Minded, Bookkeeping
  <2> QED
    BY <2>2, <2>3
<1> QED
  BY <1>1, <1>2, <1>3, <1>6, <1>7

(* cleanup_cgroup, and the run returns: its own child is over, and the     *)
(* directory stays only for the child of a run that has not returned.      *)
LEMMA RemovedKeeps ==
    ASSUME IInv, NEW r \in Run, NEW how \in {"success", "failure"}, End(r, how),
           parent[r] \in {"giveup", "cleanup0", "cleanup1"}, UNCHANGED child,
           \/ dir' = dir /\ dir.exists /\ Members # {}
           \/ dir' = NoDir /\ ~(dir.exists /\ Members # {})
    PROVE  IInv'
<1> USE DEF IInv, End
<1>1. \/ dir' = dir /\ dir.exists /\ Members # {}
      \/ dir' = NoDir /\ (Members = {} \/ ~dir.exists)
  OBVIOUS
<1>2. dir' \in [exists : BOOLEAN, pids : BOOLEAN, memory : BOOLEAN]
  <2>1. NoDir \in [exists : BOOLEAN, pids : BOOLEAN, memory : BOOLEAN]
    BY DEF NoDir
  <2> QED
    BY <1>1, <2>1 DEF TypeOK
<1>3. TypeOK'
  BY <1>2 DEF TypeOK
<1>4. Bookkeeping'
  BY DEF Bookkeeping, TypeOK
<1>5. Members' = Members
  BY DEF Members
<1>6. MembersKeepDir'
  BY <1>1, <1>5 DEF MembersKeepDir
<1>7. \A s \in Run : Returned(s) => Returned(s)'
  BY DEF Returned, Bookkeeping, TypeOK
<1>8. \A u \in Run : parent[u] # "mkdir" => parent'[u] # "mkdir"
  BY DEF TypeOK
<1>9. Returned(r)'
  BY DEF Returned, TypeOK
<1>10. ~NoDir.exists
  BY DEF NoDir
<1>11. DirOfUnderway'
  <2> SUFFICES ASSUME NEW s \in Run, Underway(s)'
               PROVE  /\ ~dir'.exists => \E t \in Run \ {s} : Returned(t)'
                      /\ dir'.exists => \/ Replaced(s)'
                                        \/ /\ parent'[s] # "pids" => dir'.pids
                                           /\ parent'[s] \notin {"pids", "memory"} => dir'.memory
    BY DEF DirOfUnderway
  <2>1. s # r /\ Underway(s) /\ parent'[s] = parent[s]
    BY DEF Underway, TypeOK, Bookkeeping
  <2>2. Replaced(s) => Replaced(s)'
    BY <1>7, <1>8, ReplacedStays
  <2> QED
    BY <2>1, <2>2, <1>1, <1>9, <1>10 DEF DirOfUnderway
<1>12. Minded'
  <2> SUFFICES ASSUME dir.exists, Members # {}
               PROVE  \/ \E s \in Run : result'[s] \in {"killed", "stale"}
                      \/ \E s \in Run : parent'[s] \notin {"mkdir", "ended"}
    BY <1>1, <1>10 DEF Minded
  <2>1. PICK m \in Run : child[m] = "member"
    BY DEF Members
  <2>2. parent[m] = "wait" \/ result[m] = "killed"
    BY <2>1 DEF Bookkeeping
  <2>3. m # r
    BY <2>2 DEF Bookkeeping
  <2>4. result'[m] = result[m] /\ parent'[m] = parent[m]
    BY <2>3 DEF TypeOK
  <2> QED
    BY <2>2, <2>4
<1> QED
  BY <1>3, <1>4, <1>6, <1>11, <1>12

LEMMA RemoveKeeps ==
    ASSUME IInv, NEW r \in Run, NEW how \in {"success", "failure"}, RemoveDir(r, how),
           parent[r] \in {"giveup", "cleanup0", "cleanup1"}, UNCHANGED child
    PROVE  IInv'
<1>1. CASE End(r, "stale") /\ UNCHANGED dir
  BY <1>1, EndKeeps
<1>2. CASE dir.exists /\ Members # {} /\ End(r, "failure") /\ UNCHANGED dir
  BY <1>2, RemovedKeeps
<1>3. CASE ~(dir.exists /\ Members # {}) /\ End(r, how) /\ dir' = NoDir
  BY <1>3, RemovedKeeps
<1> QED
  BY <1>1, <1>2, <1>3 DEF RemoveDir

LEMMA MakeDirKeeps == ASSUME IInv, NEW r \in Run, MakeDir(r) PROVE IInv'
<1>1. CASE End(r, "refused") /\ UNCHANGED dir
  BY <1>1, EndKeeps DEF MakeDir
<1>2. CASE dir' = [dir EXCEPT !.exists = TRUE] /\ Goto(r, "pids")
  <2> USE <1>2 DEF IInv, MakeDir, Goto
  <2>1. /\ dir' \in [exists : BOOLEAN, pids : BOOLEAN, memory : BOOLEAN]
        /\ dir'.exists /\ dir'.pids = dir.pids /\ dir'.memory = dir.memory
    BY DEF TypeOK
  <2>2. TypeOK'
    BY <2>1 DEF TypeOK
  <2>3. Bookkeeping'
    BY DEF Bookkeeping, TypeOK
  <2>4. MembersKeepDir'
    BY <2>1 DEF MembersKeepDir
  <2>5. \A s \in Run : Returned(s) <=> Returned(s)'
    BY DEF Returned
  <2>6. \A u \in Run : parent[u] # "mkdir" => parent'[u] # "mkdir"
    BY DEF TypeOK
  <2>7. DirOfUnderway'
    <3> SUFFICES ASSUME NEW s \in Run, Underway(s)'
                 PROVE  \/ Replaced(s)'
                        \/ /\ parent'[s] # "pids" => dir.pids
                           /\ parent'[s] \notin {"pids", "memory"} => dir.memory
      BY <2>1 DEF DirOfUnderway
    <3>1. CASE s = r
      BY <3>1 DEF TypeOK
    <3>2. CASE s # r
      <4>1. Underway(s) /\ parent'[s] = parent[s]
        BY <3>2 DEF Underway, TypeOK
      <4>2. Replaced(s) => Replaced(s)'
        BY <2>5, <2>6, ReplacedStays
      <4>3. CASE dir.exists
        BY <4>1, <4>2, <4>3 DEF DirOfUnderway
      <4>4. CASE ~dir.exists
        <5>1. PICK t \in Run \ {s} : Returned(t)
          BY <4>1, <4>4 DEF DirOfUnderway
        <5>2. t # r
          BY <5>1 DEF Returned, Bookkeeping
        <5>3. parent'[r] # "mkdir"
          BY DEF TypeOK
        <5> QED
          BY <5>1, <5>2, <5>3, <3>2, <2>5 DEF Replaced
      <4> QED
        BY <4>3, <4>4
    <3> QED
      BY <3>1, <3>2
  <2>8. Minded'
    BY DEF Minded, TypeOK
  <2> QED
    BY <2>2, <2>3, <2>4, <2>7, <2>8
<1> QED
  BY <1>1, <1>2 DEF MakeDir

(* Goto(r, "giveup") in place of what the run was about to do              *)
LEMMA GiveUpNext ==
    ASSUME IInv, NEW r \in Run, parent[r] \in {"pids", "memory", "fork"},
           Goto(r, "giveup"), UNCHANGED <<child, dir>>
    PROVE  IInv'
<1>1. child[r] \notin {"forked", "member"}
  BY DEF IInv, Bookkeeping, TypeOK
<1>2. ~Underway(r)'
  BY <1>1 DEF Underway, Goto, IInv, TypeOK
<1> QED
  BY <1>1, <1>2, GotoKeeps DEF ParentAt, IInv, TypeOK

LEMMA SetLimitKeeps ==
    ASSUME IInv, NEW r \in Run, SetPids(r) \/ SetMemory(r) PROVE IInv'
<1>1. PICK at \in {"pids", "memory"} :
          SetLimit(r, at, IF at = "pids" THEN "memory" ELSE "fork")
  BY DEF SetPids, SetMemory
<1>2. CASE Goto(r, "giveup") /\ UNCHANGED dir
  BY <1>1, <1>2, GiveUpNext DEF SetLimit
<1>3. CASE /\ dir.exists
           /\ dir' = [dir EXCEPT ![at] = TRUE]
           /\ Goto(r, IF at = "pids" THEN "memory" ELSE "fork")
  <2> USE <1>1, <1>3 DEF IInv, SetLimit, Goto
  <2>1. /\ dir' \in [exists : BOOLEAN, pids : BOOLEAN, memory : BOOLEAN]
        /\ dir'.exists
        /\ dir.pids \/ at = "pids" => dir'.pids
        /\ dir.memory \/ at = "memory" => dir'.memory
    BY DEF TypeOK
  <2>2. TypeOK'
    BY <2>1 DEF TypeOK
  <2>3. Bookkeeping'
    BY DEF Bookkeeping, TypeOK
  <2>4. MembersKeepDir'
    BY <2>1 DEF MembersKeepDir
  <2>5. \A s \in Run : Returned(s) <=> Returned(s)'
    BY DEF Returned
  <2>6. \A u \in Run : parent[u] # "mkdir" => parent'[u] # "mkdir"
    BY DEF TypeOK
  <2>7. DirOfUnderway'
    <3> SUFFICES ASSUME NEW s \in Run, Underway(s)'
                 PROVE  \/ Replaced(s)'
                        \/ /\ parent'[s] # "pids" => dir'.pids
                           /\ parent'[s] \notin {"pids", "memory"} => dir'.memory
      BY <2>1 DEF DirOfUnderway
    <3>1. Underway(s)
      BY DEF Underway, TypeOK
    <3>2. Replaced(s) => Replaced(s)'
      BY <2>5, <2>6, ReplacedStays
    <3>3. \/ parent'[s] = parent[s]
          \/ parent[s] = "pids" /\ at = "pids" /\ parent'[s] = "memory"
          \/ parent[s] = "memory" /\ at = "memory" /\ parent'[s] = "fork"
      BY DEF TypeOK
    <3> QED
      BY <3>1, <3>2, <3>3, <2>1 DEF DirOfUnderway
  <2>8. Minded'
    BY DEF Minded, TypeOK
  <2> QED
    BY <2>2, <2>3, <2>4, <2>7, <2>8
<1> QED
  BY <1>1, <1>2, <1>3 DEF SetLimit

LEMMA ForkKeeps == ASSUME IInv, NEW r \in Run, Fork(r) PROVE IInv'
<1>1. CASE child' = [child EXCEPT ![r] = "forked"] /\ Goto(r, "wait")
  BY <1>1, GotoKeeps DEF Fork, ParentAt, IInv, TypeOK, Underway
<1>2. CASE Goto(r, "giveup") /\ UNCHANGED child
  BY <1>2, GiveUpNext DEF Fork
<1> QED
  BY <1>1, <1>2 DEF Fork

LEMMA WaitKeeps == ASSUME IInv, NEW r \in Run, Wait(r) PROVE IInv'
<1>1. PICK next \in {"cleanup0", "cleanup1"} : Goto(r, next)
  BY DEF Wait
<1>2. ~Underway(r)'
  BY <1>1 DEF Wait, Underway, Goto, IInv, TypeOK
<1> QED
  BY <1>1, <1>2, GotoKeeps DEF Wait, ParentAt, IInv, TypeOK

(* A child joins, reports, or ends: only joining asks for the directory.   *)
LEMMA ChildKeeps ==
    ASSUME IInv, NEW r \in Run, Join(r) \/ Report(r) \/ KillChild(r)
    PROVE  IInv'
<1> USE DEF IInv
<1>1. PICK next \in {"member", "succeeded", "failed"} :
          /\ child[r] \in {"forked", "member"}
          /\ child' = [child EXCEPT ![r] = next]
          /\ next = "member" => dir.exists
          /\ UNCHANGED <<parent, result, dir>>
  BY DEF Join, Report, KillChild
<1>2. TypeOK'
  BY <1>1 DEF TypeOK
<1>3. Bookkeeping'
  BY <1>1 DEF Bookkeeping, TypeOK
<1>4. MembersKeepDir'
  BY <1>1 DEF MembersKeepDir, Members, TypeOK
<1>5. \A s \in Run : Underway(s)' => Underway(s)
  BY <1>1 DEF Underway, TypeOK
<1>6. DirOfUnderway'
  BY <1>1, <1>5 DEF DirOfUnderway, Replaced, Returned
<1>7. Minded'
  BY <1>1 DEF Minded
<1> QED
  BY <1>2, <1>3, <1>4, <1>6, <1>7

LEMMA NextIInv == IInv /\ [Next]_vars => IInv'
<1> SUFFICES ASSUME IInv, [Next]_vars PROVE IInv'
  OBVIOUS
<1>1. ASSUME NEW r \in Run, GiveUp(r) PROVE IInv'
  BY <1>1, RemoveKeeps DEF GiveUp
<1>2. ASSUME NEW r \in Run, CleanUp(r) PROVE IInv'
  BY <1>2, RemoveKeeps DEF CleanUp
<1>3. ASSUME NEW r \in Run, KillParent(r) PROVE IInv'
  BY <1>3, EndKeeps DEF KillParent
<1>4. CASE UNCHANGED vars
  BY <1>4 DEF vars, IInv, TypeOK, Bookkeeping, MembersKeepDir, Members,
              DirOfUnderway, Underway, Returned, Replaced, Minded
<1> QED
  BY <1>1, <1>2, <1>3, <1>4, MakeDirKeeps, SetLimitKeeps, ForkKeeps, WaitKeeps,
     ChildKeeps DEF Next

LEMMA Invariant == Spec => []IInv
<1> QED
  BY InitIInv, NextIInv, PTL DEF Spec

(* Type correctness of the cgroup lesson.                                  *)
THEOREM TypeCorrect == Spec => []TypeOK
<1>1. IInv => TypeOK
  BY DEF IInv
<1> QED
  BY <1>1, Invariant, PTL

(* However many runs overlap, a directory left behind by runs of which     *)
(* none was killed is one the host refused to remove, or refused to make.  *)
THEOREM Clean == Spec => []NothingLeft
<1>1. IInv => NothingLeft
  BY DEF IInv, Minded, Bookkeeping, NothingLeft
<1> QED
  BY <1>1, Invariant, PTL

(* However many runs overlap, a child loses its limits only to a run that  *)
(* returned and another that came after it.                                *)
THEOREM Limits == Spec => []LimitedUnlessReplaced
<1>1. IInv => LimitedUnlessReplaced
  <2> SUFFICES ASSUME IInv, NEW r \in Members
               PROVE  dir.exists /\ (Replaced(r) \/ (dir.pids /\ dir.memory))
    BY DEF LimitedUnlessReplaced
  <2>1. r \in Run /\ Underway(r) /\ parent[r] \notin {"pids", "memory"}
    BY DEF Members, Underway, IInv, Bookkeeping
  <2> QED
    BY <2>1 DEF IInv, DirOfUnderway, MembersKeepDir
<1> QED
  BY <1>1, Invariant, PTL

(* Two overlapping runs are not enough: with the fixed path of             *)
(* cgroup_limit.c shared by two invocations, whatever fails in either and  *)
(* whoever is killed, a child that reports its limits has both.            *)
THEOREM TwoRunsKeepLimits ==
    ASSUME NEW a, NEW b, Run \subseteq {a, b}
    PROVE  Spec => []MembersLimited
<1>1. \A r \in Run : ~Replaced(r)
  BY DEF Replaced
<1>2. LimitedUnlessReplaced => MembersLimited
  BY <1>1 DEF LimitedUnlessReplaced, MembersLimited, Members
<1> QED
  BY <1>2, Limits, PTL
=============================================================================
