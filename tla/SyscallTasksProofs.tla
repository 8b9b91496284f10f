-------------------------- MODULE SyscallTasksProofs ------------------------
(***************************************************************************)
(* The kernel's invariants and the confinement of its memory accesses, for *)
(* any tasks, windows, mount tables, register contents and word size.      *)
(*                                                                         *)
(* The inductive invariant is the kernel's type correctness, the soundness *)
(* of open descriptors and the fact that a table in force is one that was  *)
(* mounted: a read is well typed only because the descriptor it goes       *)
(* through names a valid node it has not passed the end of.                *)
(*                                                                         *)
(* On the same invariant rest, in the second part, that a handle of fs.c   *)
(* delivers its file, for any tables, paths and lengths of reads, and in   *)
(* the third that the system calls implement DescriptorStreams.            *)
(***************************************************************************)
EXTENDS FsHandles, KernelLemmas, SequenceTheorems

IInv == TypeOK /\ OpenFilesSound

LEMMA InitIInv == Init => IInv
<1> SUFFICES ASSUME Init PROVE IInv
  OBVIOUS
<1> USE DEF Init
<1>1. mounted \in Seq(Node)
  OBVIOUS
<1>2. files \in [Task -> [0..(MaxFiles - 1) -> OpenFile]]
  BY DEF OpenFile
<1>3. mem \in [Addr -> Cell]
  BY RegsAssumption
<1>4. last \in [task : Task \cup {NoTask}, value : Int, error : Errors,
                bytes : Seq(Cell), exits : BOOLEAN, status : Int]
  BY DEF Result, Errors
<1>5. OpenFilesSound
  BY DEF OpenFilesSound, FreeFile
<1> QED
  BY <1>1, <1>2, <1>3, <1>4, <1>5 DEF IInv, TypeOK, KernelTypeOK

(* One step keeps the invariant and changes no memory but the caller's.    *)
LEMMA StepKeeps ==
    ASSUME IInv, [Next]_vars
    PROVE  /\ IInv'
           /\ \A a \in Addr : mem'[a] # mem[a] =>
                 last'.task \in Task /\ a \in Window(last'.task)
<1> KernelOK
  BY DEF IInv, TypeOK, KernelOK
<1>1. ASSUME NEW t \in Task \cup {NoTask}, CallKeeps(t)
      PROVE  /\ IInv'
             /\ \A a \in Addr : mem'[a] # mem[a] =>
                   last'.task \in Task /\ a \in Window(last'.task)
  BY <1>1 DEF CallKeeps, KernelOK, IInv, TypeOK
<1>2. ASSUME NEW t \in Task \cup {NoTask}, NEW regs \in Regs, KsyscallDispatch(t, regs)
      PROVE  CallKeeps(t)
  <2>1. regs \in [nr : Nat, arg0 : Nat, arg1 : Nat, arg2 : Nat]
    BY RegsAssumption DEF Addr
  <2> QED
    BY <1>2, <2>1, DispatchKeeps
<1>3. ASSUME NEW t \in Task \cup {NoTask}, DispatchNullRegs(t)
      PROVE  CallKeeps(t)
  BY <1>3, FailKeeps DEF DispatchNullRegs, Errors
<1>4. ASSUME NEW table \in Tables, KfsMount(table)
      PROVE  IInv' /\ mem' = mem
  <2>1. table \in Seq(Node)
    BY TaskAssumption
  <2> QED
    BY <1>4, <2>1 DEF KfsMount, IInv, TypeOK, KernelTypeOK, OpenFilesSound
<1>5. CASE UNCHANGED vars
  BY <1>5 DEF vars, IInv, TypeOK, KernelTypeOK, OpenFilesSound
<1> QED
  BY <1>1, <1>2, <1>3, <1>4, <1>5 DEF Next

LEMMA Invariant == Spec => []IInv
<1>1. IInv /\ [Next]_vars => IInv'
  BY StepKeeps
<1> QED
  BY <1>1, InitIInv, PTL DEF Spec

(* Type correctness of the system calls for every size of the machine.     *)
THEOREM TypeCorrect == Spec => []TypeOK
<1>1. IInv => TypeOK
  BY DEF IInv
<1> QED
  BY <1>1, Invariant, PTL

(* An open descriptor always names a valid node it has not passed the end  *)
(* of, whatever the tasks call and however often tables are mounted.       *)
THEOREM FilesSound == Spec => []OpenFilesSound
<1>1. IInv => OpenFilesSound
  BY DEF IInv
<1> QED
  BY <1>1, Invariant, PTL

(* No call writes outside the window of the task that made it, for any     *)
(* pointer and length: the wrap-around checks of task_contains_user_range  *)
(* are enough at every word size.                                          *)
THEOREM Confined == Spec => MemoryConfined
<1>1. IInv /\ [Next]_vars
        => [\A a \in Addr : mem'[a] # mem[a] =>
              /\ last'.task # NoTask
              /\ a \in Window(last'.task)]_vars
  BY StepKeeps, TaskAssumption
<1> QED
  BY <1>1, Invariant, PTL DEF Spec, MemoryConfined

-----------------------------------------------------------------------------
(* The handles of fs.c.  Their own invariant is inductive once a table in  *)
(* force is known to be a sequence of nodes, which IInv gives.             *)
HandleTypeOK ==
    /\ handle \in [node : Node \cup {Null}, offset : Nat]
    /\ got \in Seq(Cell)

HInv == IInv /\ HandleTypeOK /\ HandleDelivers

(* The bytes read are the file's next, and the offset counts them.         *)
LEMMA ReadBytes ==
    ASSUME NEW n \in Node, NodeIsValid(n), NEW offset \in Nat, NEW len \in Nat,
           offset <= n.size
    PROVE  \A i \in 1..Len(KfsReadNode(n, offset, len)) :
              KfsReadNode(n, offset, len)[i] = n.data[offset + i]
<1>1. Len(KfsReadNode(n, offset, len)) = ReadCount(n, offset, len)
  BY ReadSound
<1> QED
  BY <1>1 DEF KfsReadNode

LEMMA Concat ==
    ASSUME NEW s \in Seq(Cell), NEW t \in Seq(Cell)
    PROVE  /\ s \o t \in Seq(Cell) /\ Len(s \o t) = Len(s) + Len(t)
           /\ \A i \in 1..Len(s) : (s \o t)[i] = s[i]
           /\ \A i \in 1..Len(t) : (s \o t)[Len(s) + i] = t[i]
  OBVIOUS

LEMMA OpenDelivers ==
    ASSUME HInv, NEW path \in Path, KfsOpen(path), UNCHANGED vars
    PROVE  HInv'
<1>0. IInv'
  BY DEF HInv, IInv, TypeOK, KernelTypeOK, OpenFilesSound, vars
<1>1. CASE UNCHANGED <<handle, got>>
  BY <1>0, <1>1 DEF HInv, HandleTypeOK, HandleDelivers
<1>2. CASE /\ handle' = [node |-> KfsLookup(mounted, path), offset |-> 0]
           /\ got' = << >>
  <2> DEFINE node == KfsLookup(mounted, path)
  <2>1. mounted \in Seq(Node)
    BY DEF HInv, IInv, TypeOK, KernelTypeOK
  <2>2. node # Null => node \in Node /\ NodeIsValid(node)
    BY <2>1, LookupSound
  <2>3. node \in Node => node.size \in Nat
    BY NodeAssumption
  <2> HIDE DEF node
  <2> QED
    BY <1>0, <1>2, <2>2, <2>3 DEF HInv, HandleTypeOK, HandleDelivers, node
<1> QED
  BY <1>1, <1>2 DEF KfsOpen

LEMMA ReadDelivers ==
    ASSUME HInv, NEW len \in 0..MaxRead, NEW dst, KfsRead(len, dst), UNCHANGED vars
    PROVE  HInv'
<1>0. IInv'
  BY DEF HInv, IInv, TypeOK, KernelTypeOK, OpenFilesSound, vars
<1>1. CASE UNCHANGED <<handle, got>>
  BY <1>0, <1>1 DEF HInv, HandleTypeOK, HandleDelivers
<1> DEFINE n     == ReadCount(handle.node, handle.offset, len)
           bytes == KfsReadNode(handle.node, handle.offset, len)
<1>2. CASE /\ NodeIsValid(handle.node)
           /\ handle' = [handle EXCEPT !.offset = @ + n]
           /\ got' = got \o bytes
  <2>1. /\ handle.node \in Node /\ handle.offset \in Nat /\ len \in Nat
        /\ handle.node # Null /\ got \in Seq(Cell)
        /\ handle.node.size \in Nat
    BY <1>2, NodeAssumption DEF HInv, HandleTypeOK, NodeIsValid
  <2>2. /\ Len(got) = handle.offset /\ handle.offset <= handle.node.size
        /\ \A i \in 1..Len(got) : got[i] = handle.node.data[i]
    BY <2>1 DEF HInv, HandleDelivers
  <2>3. /\ n \in 0..len /\ handle.offset + n <= handle.node.size
        /\ bytes \in Seq(Cell) /\ Len(bytes) = n
    BY <1>2, <2>1, <2>2, ReadSound
  <2>4. \A i \in 1..n : bytes[i] = handle.node.data[handle.offset + i]
    BY <1>2, <2>1, <2>2, <2>3, ReadBytes
  <2> HIDE DEF n, bytes
  <2>5. /\ handle'.node = handle.node /\ handle'.offset = handle.offset + n
        /\ handle' \in [node : Node \cup {Null}, offset : Nat]
    <3>1. handle \in [node : Node \cup {Null}, offset : Nat]
      BY DEF HInv, HandleTypeOK
    <3>2. handle' = [handle EXCEPT !.offset = handle.offset + n]
      BY <1>2
    <3>3. n \in Nat
      BY <2>1, <2>3
    <3>4. handle' = [node |-> handle.node, offset |-> handle.offset + n]
      BY <3>1, <3>2
    <3> QED
      BY <2>1, <3>3, <3>4
  <2>6. /\ got' \in Seq(Cell) /\ Len(got') = Len(got) + n
        /\ \A i \in 1..Len(got) : got'[i] = got[i]
        /\ \A i \in 1..n : got'[Len(got) + i] = bytes[i]
    <3>1. got' = got \o bytes
      BY <1>2
    <3> QED
      BY <3>1, <2>1, <2>3, Concat
  <2>7. \A i \in 1..Len(got') : got'[i] = handle.node.data[i]
    <3> SUFFICES ASSUME NEW i \in 1..Len(got')
                 PROVE  got'[i] = handle.node.data[i]
      OBVIOUS
    <3>1. CASE i <= Len(got)
      BY <3>1, <2>1, <2>2, <2>6
    <3>2. CASE i > Len(got)
      <4>1. i - Len(got) \in 1..n /\ i = Len(got) + (i - Len(got))
        BY <3>2, <2>1, <2>3, <2>6
      <4> QED
        BY <4>1, <2>2, <2>4, <2>6
    <3> QED
      BY <3>1, <3>2, <2>1, <2>6
  <2> QED
    BY <1>0, <1>2, <2>1, <2>2, <2>3, <2>5, <2>6, <2>7
    DEF HInv, HandleTypeOK, HandleDelivers
<1> QED
  BY <1>1, <1>2 DEF KfsRead

LEMMA HandleInvariant == HandleSpec => []HInv
<1>1. HandleInit => HInv
  BY InitIInv DEF HandleInit, HInv, HandleTypeOK, HandleDelivers
<1>2. HInv /\ [HandleNext]_<<vars, handleVars>> => HInv'
  <2> SUFFICES ASSUME HInv, [HandleNext]_<<vars, handleVars>> PROVE HInv'
    OBVIOUS
  <2>1. CASE [Next]_vars /\ UNCHANGED handleVars
    <3>1. IInv'
      BY <2>1, StepKeeps DEF HInv
    <3> QED
      BY <2>1, <3>1 DEF HInv, HandleTypeOK, HandleDelivers, handleVars
  <2>2. CASE HandleCall /\ UNCHANGED vars
    <3>1. ASSUME NEW path \in Path, KfsOpen(path) PROVE HInv'
      BY <2>2, <3>1, OpenDelivers
    <3>2. ASSUME NEW len \in 0..MaxRead, NEW dst \in {Null, 1}, KfsRead(len, dst) PROVE HInv'
      BY <2>2, <3>2, ReadDelivers
    <3>3. ASSUME NEW path \in Path, NEW out \in {Null, 1}, KfsStat(path, out) PROVE HInv'
      BY <2>2, <3>3
      DEF KfsStat, HInv, HandleTypeOK, HandleDelivers, IInv, TypeOK, KernelTypeOK,
          OpenFilesSound, vars
    <3> QED
      BY <2>2, <3>1, <3>2, <3>3 DEF HandleCall
  <2> QED
    BY <2>1, <2>2 DEF HandleNext, handleVars
<1> QED
  BY <1>1, <1>2, PTL DEF HandleSpec

(* A handle delivers each byte of the file it was opened on once and in    *)
(* order, across short reads, remounts and the system calls of any tasks.  *)
THEOREM HandlesDeliver == HandleSpec => []HandleDelivers
<1>1. HInv => HandleDelivers
  BY DEF HInv
<1> QED
  BY <1>1, HandleInvariant, PTL

-----------------------------------------------------------------------------
(* The refinement of DescriptorStreams.  RestOf is the refinement mapping; *)
(* each call is the abstract call with the same number and arguments.       *)

(* The streams of the refinement mapping.                                  *)
RestOf == [t \in Task |-> [fd \in FileFd |->
              IF files[t][fd].used THEN Rest(files[t][fd]) ELSE Null]]

(* NULL is no sequence of bytes, so a stream is never taken for closed.    *)
NullIsNoStream == Null \notin Seq(Cell)

LEMMA FdRange == FileFd \subseteq 0..(MaxFiles - 1)
BY TaskAssumption DEF FileFd, FirstFile

(* What a sound open file has still to deliver: the bytes of its node      *)
(* beyond the offset.                                                      *)
LEMMA RestIs ==
    ASSUME NEW file, file.node \in Node, NodeIsValid(file.node),
           file.offset \in Nat, file.offset <= file.node.size
    PROVE  /\ Rest(file) \in Seq(Cell)
           /\ Len(Rest(file)) = file.node.size - file.offset
           /\ DOMAIN Rest(file) = 1..(file.node.size - file.offset)
           /\ \A i \in 1..(file.node.size - file.offset) :
                 Rest(file)[i] = file.node.data[file.offset + i]
<1> DEFINE left == file.node.size - file.offset
<1>1. file.node.size \in Nat /\ left \in Nat
  BY NodeAssumption
<1>2. ASSUME NEW i \in 1..left PROVE file.node.data[file.offset + i] \in Cell
  <2>1. file.node.size > 0 /\ file.offset + i \in 1..file.node.size
    BY <1>1
  <2>2. file.node.data \in [1..file.node.size -> Cell]
    BY <2>1, NodeAssumption DEF NodeIsValid
  <2> QED
    BY <2>1, <2>2
<1>3. Rest(file) = [i \in 1..left |-> file.node.data[file.offset + i]]
  BY DEF Rest
<1> HIDE DEF left
<1>4. Rest(file) \in Seq(Cell) /\ Len(Rest(file)) = left
  BY <1>1, <1>2, <1>3
<1> QED
  BY <1>3, <1>4 DEF left

(* An open descriptor of the kernel is a sound file.                       *)
LEMMA OpenIsSound ==
    ASSUME KernelOK, NEW t \in Task, NEW fd \in FileFd, files[t][fd].used
    PROVE  /\ files[t][fd] \in [used : {TRUE}, node : Node, offset : Nat]
           /\ NodeIsValid(files[t][fd].node)
           /\ files[t][fd].offset <= files[t][fd].node.size
<1>1. fd \in 0..(MaxFiles - 1)
  BY FdRange
<1>2. files[t][fd] \in OpenFile /\ files[t][fd] # FreeFile
  <2>1. files[t][fd] \in OpenFile
    BY <1>1 DEF KernelOK, KernelTypeOK
  <2> QED
    BY <2>1 DEF FreeFile
<1> QED
  BY <1>1, <1>2 DEF OpenFile, KernelOK, OpenFilesSound

(* A descriptor is closed in the abstract state just when it is free.      *)
LEMMA ClosedIsFree ==
    ASSUME NullIsNoStream, KernelOK, NEW t \in Task
    PROVE  {fd \in FileFd : RestOf[t][fd] = Null} = FreeFds(t)
<1>1. ASSUME NEW fd \in FileFd, files[t][fd].used
      PROVE  RestOf[t][fd] # Null
  <2>1. Rest(files[t][fd]) \in Seq(Cell)
    BY <1>1, OpenIsSound, RestIs
  <2> QED
    BY <1>1, <2>1 DEF RestOf, NullIsNoStream
<1> QED
  BY <1>1 DEF RestOf, FreeFds

(* One descriptor of one task changes, and so does its stream.             *)
LEMMA OneStreamChanges ==
    ASSUME KernelOK, NEW t \in Task, NEW fd \in FileFd, NEW file,
           files' = [files EXCEPT ![t][fd] = file]
    PROVE  RestOf' = [RestOf EXCEPT ![t][fd] =
                         IF file.used THEN Rest(file) ELSE Null]
<1>1. fd \in 0..(MaxFiles - 1)
  BY FdRange
<1>2. /\ files'[t][fd] = file
      /\ \A g \in FileFd \ {fd} : files'[t][g] = files[t][g]
      /\ \A u \in Task \ {t} : files'[u] = files[u]
  BY <1>1, FdRange DEF KernelOK, KernelTypeOK
<1> DEFINE new == IF file.used THEN Rest(file) ELSE Null
<1>3. RestOf'[t][fd] = new
  BY <1>2 DEF RestOf
<1>4. \A g \in FileFd \ {fd} : RestOf'[t][g] = RestOf[t][g]
  BY <1>2 DEF RestOf
<1>5. \A u \in Task \ {t} : RestOf'[u] = RestOf[u]
  BY <1>2 DEF RestOf
<1> HIDE DEF new
<1>6. [RestOf[t] EXCEPT ![fd] = new] = [g \in FileFd |-> IF g = fd THEN new ELSE RestOf[t][g]]
  BY DEF RestOf
<1>7. RestOf'[t] = [RestOf[t] EXCEPT ![fd] = new]
  <2>1. RestOf'[t] = [g \in FileFd |-> RestOf'[t][g]]
    BY DEF RestOf
  <2> QED
    BY <1>3, <1>4, <1>6, <2>1
<1>8. [RestOf EXCEPT ![t][fd] = new]
        = [u \in Task |-> IF u = t THEN [RestOf[t] EXCEPT ![fd] = new] ELSE RestOf[u]]
  BY DEF RestOf
<1>9. RestOf' = [u \in Task |-> RestOf'[u]]
  BY DEF RestOf
<1> QED
  BY <1>5, <1>7, <1>8, <1>9 DEF new

-----------------------------------------------------------------------------
(* What the calls' checks and effects are in the abstract specification.   *)

(* task_contains_user_range admits a range just when each address of it is *)
(* the caller's.                                                           *)
LEMMA OwnsIs ==
    ASSUME NEW t \in Task, NEW ptr \in Nat, NEW len \in Nat
    PROVE  Streams!Owns(t, ptr, len) <=> TaskContainsUserRange(t, ptr, len)
<1>1. /\ t # NoTask /\ UserBase[t] \in Nat /\ UserLen[t] \in Nat /\ WordMod \in Nat
      /\ UserBase[t] + UserLen[t] < WordMod
  BY TaskAssumption DEF Addr
<1>2. Streams!Owns(t, ptr, len) <=> ptr..(ptr + len - 1) \subseteq Window(t)
  BY DEF Streams!Owns
<1>3. CASE len = 0
  BY <1>1, <1>2, <1>3 DEF TaskContainsUserRange
<1>4. CASE len > 0
  <2>1. ASSUME TaskContainsUserRange(t, ptr, len)
        PROVE  ptr..(ptr + len - 1) \subseteq Window(t)
    BY <1>4, <2>1, RangeInWindow
  <2>2. ASSUME ptr..(ptr + len - 1) \subseteq Window(t)
        PROVE  TaskContainsUserRange(t, ptr, len)
    <3>1. ptr \in ptr..(ptr + len - 1) /\ ptr + len - 1 \in ptr..(ptr + len - 1)
      BY <1>4
    <3>2. /\ ptr >= UserBase[t] /\ ptr + len - 1 <= UserBase[t] + UserLen[t] - 1
      BY <1>1, <2>2, <3>1 DEF Window
    <3> QED
      BY <1>1, <1>4, <3>2 DEF TaskContainsUserRange, AddOverflows
  <2> QED
    BY <1>2, <2>1, <2>2
<1> QED
  BY <1>3, <1>4

LEMMA OpenedIs ==
    ASSUME NullIsNoStream, KernelOK, NEW t \in Task
    PROVE  /\ FileFd \ Streams!Opened(t) = FreeFds(t)
           /\ \A fd : fd \in Streams!Opened(t) <=> IsOpen(t, fd)
<1>1. Streams!Opened(t) = {fd \in FileFd : RestOf[t][fd] # Null}
  BY DEF Streams!Opened, RestOf
<1>2. {fd \in FileFd : RestOf[t][fd] = Null} = FreeFds(t)
  BY ClosedIsFree
<1>3. FileFd \ Streams!Opened(t) = FreeFds(t)
  BY <1>1, <1>2
<1>4. ASSUME NEW fd PROVE fd \in Streams!Opened(t) <=> IsOpen(t, fd)
  BY <1>1, <1>2, TaskAssumption DEF IsOpen, FreeFds
<1> QED
  BY <1>3, <1>4

LEMMA SameFiles == ASSUME UNCHANGED files PROVE RestOf' = RestOf
BY DEF RestOf

LEMMA AnswerIs ==
    ASSUME NEW t, NEW value, NEW error, NEW bytes,
           last' = Result(t, value, error, bytes)
    PROVE  Streams!Answer(t, value, error, bytes, FALSE) /\ last'.task = t
BY DEF Result, Streams!Answer

(* A refusal refuses, for the reason given.                                *)
LEMMA FailIs ==
    ASSUME NEW t, NEW error, Fail(t, error)
    PROVE  Streams!Refuse(t, error) /\ last'.task = t
<1>1. Streams!Answer(t, -1, error, << >>, FALSE) /\ last'.task = t
  BY AnswerIs DEF Fail
<1>2. RestOf' = RestOf /\ mem' = mem
  BY SameFiles DEF Fail
<1> QED
  BY <1>1, <1>2 DEF Streams!Refuse, RestOf

LEMMA BytesIs == \A ptr, len : Streams!Bytes(ptr, len) = Load(ptr, len)
BY DEF Streams!Bytes, Load

(* Store puts the cells side by side and nowhere else.                     *)
LEMMA StoredIs ==
    ASSUME NEW ptr \in Nat, NEW cells \in Seq(Cell),
           Len(cells) > 0 => ptr..(ptr + Len(cells) - 1) \subseteq Addr,
           mem' = Store(ptr, cells)
    PROVE  Streams!Stored(ptr, cells)
<1>1. Len(cells) \in Nat
  OBVIOUS
<1>2. ASSUME NEW i \in 1..Len(cells) PROVE mem'[ptr + i - 1] = cells[i]
  <2>1. /\ ptr + i - 1 \in ptr..(ptr + Len(cells) - 1) /\ Len(cells) > 0
        /\ (ptr + i - 1) - ptr + 1 = i
    BY <1>1
  <2>2. ptr + i - 1 \in Addr
    BY <2>1
  <2> QED
    BY <2>1, <2>2 DEF Store
<1>3. ASSUME NEW a \in Addr \ (ptr..(ptr + Len(cells) - 1)) PROVE mem'[a] = mem[a]
  BY DEF Store
<1> QED
  BY <1>2, <1>3 DEF Streams!Stored

(* kfs_lookup finds a name just when the directory has it.                 *)
LEMMA LookupIs ==
    ASSUME KernelOK, NEW name
    PROVE  LET node == KfsLookup(mounted, name)
           IN  /\ name \in DOMAIN Directory <=> node # Null
               /\ node # Null => Directory[name] = FileOf(node)
<1> DEFINE node == KfsLookup(mounted, name)
<1>1. ASSUME node # Null PROVE node \in Node /\ NodeIsValid(node) /\ node.path = name
  BY <1>1, LookupSound, LookupPath DEF KernelOK, KernelTypeOK
<1>2. node # Null => name \in Names
  BY <1>1 DEF Names
<1> QED
  BY <1>2 DEF Directory

-----------------------------------------------------------------------------
(* Each call is answered as the abstract one with its arguments.           *)

(* What write emits is what lies in the range it has checked.              *)
LEMMA WriteImplements ==
    ASSUME NEW t \in Task, NEW fd, NEW ptr \in Nat, NEW len \in Nat,
           SysWrite(t, fd, ptr, len)
    PROVE  Streams!Write(t, fd, ptr, len) /\ last'.task = t
<1>1. CASE fd \notin {1, 2} /\ Fail(t, "EBADF")
  BY <1>1, FailIs DEF Streams!Write
<1>2. CASE fd \in {1, 2} /\ ~TaskContainsUserRange(t, ptr, len) /\ Fail(t, "EFAULT")
  BY <1>2, FailIs, OwnsIs DEF Streams!Write
<1>3. CASE /\ fd \in {1, 2} /\ TaskContainsUserRange(t, ptr, len)
           /\ Return(t, len, Load(ptr, len))
           /\ UNCHANGED <<mounted, files, mem>>
  <2>1. Streams!Answer(t, len, "OK", Streams!Bytes(ptr, len), FALSE) /\ last'.task = t
    BY <1>3, AnswerIs, BytesIs DEF Return
  <2>2. RestOf' = RestOf /\ mem' = mem
    BY <1>3, SameFiles
  <2> QED
    BY <1>3, <2>1, <2>2, OwnsIs DEF Streams!Write, RestOf
<1> QED
  BY <1>1, <1>2, <1>3 DEF SysWrite

(* The new stream is the content of the file the directory has.            *)
LEMMA OpenImplements ==
    ASSUME NullIsNoStream, KernelOK, NEW t \in Task, NEW ptr \in Nat, NEW len \in Nat,
           SysOpen(t, ptr, len)
    PROVE  Streams!Open(t, ptr, len) /\ last'.task = t
<1> DEFINE name == Load(ptr, len)
           node == KfsLookup(mounted, name)
<1>1. Streams!Bytes(ptr, len) = name
  BY BytesIs
<1>2. Streams!Owns(t, ptr, len) <=> TaskContainsUserRange(t, ptr, len)
  BY OwnsIs
<1>3. name \in DOMAIN Directory <=> node # Null
  BY LookupIs
<1>4. FileFd \ Streams!Opened(t) = FreeFds(t)
  BY OpenedIs
<1> HIDE DEF name
<1>5. CASE ~TaskContainsUserRange(t, ptr, len) /\ Fail(t, "EFAULT")
  BY <1>2, <1>5, FailIs DEF Streams!Open
<1>6. CASE TaskContainsUserRange(t, ptr, len) /\ node = Null /\ Fail(t, "ENOENT")
  BY <1>1, <1>2, <1>3, <1>6, FailIs DEF Streams!Open
<1>7. CASE /\ TaskContainsUserRange(t, ptr, len) /\ node # Null
           /\ FreeFds(t) = {}
           /\ Fail(t, "EMFILE")
  BY <1>1, <1>2, <1>3, <1>4, <1>7, FailIs DEF Streams!Open
<1>8. CASE /\ TaskContainsUserRange(t, ptr, len)
           /\ node # Null
           /\ FreeFds(t) # {}
           /\ files' = [files EXCEPT ![t][LowestFree(t)] =
                          [used |-> TRUE, node |-> node, offset |-> 0]]
           /\ Return(t, LowestFree(t), << >>)
           /\ UNCHANGED <<mounted, mem>>
  <2> DEFINE fd == LowestFree(t)
             file == [used |-> TRUE, node |-> node, offset |-> 0]
  <2>1. fd \in FreeFds(t) /\ fd \in FileFd /\ \A g \in FreeFds(t) : fd <= g
    BY <1>8, LowestFreeIsFree DEF KernelOK, FreeFds
  <2>2. Streams!Answer(t, fd, "OK", << >>, FALSE) /\ last'.task = t
    BY <1>8, AnswerIs DEF Return
  <2>3. files' = [files EXCEPT ![t][fd] = file]
    BY <1>8
  <2>4. node \in Node /\ node.size \in Nat
    <3>1. node \in Node
      BY <1>8, LookupSound DEF KernelOK, KernelTypeOK
    <3> QED
      BY <3>1, NodeAssumption
  <2>5. Directory[name] = FileOf(node)
    BY <1>8, LookupIs
  <2> HIDE DEF fd, node
  <2>6. Rest(file) = FileOf(node).content
    <3>1. file.node = node /\ file.offset = 0
      OBVIOUS
    <3> QED
      BY <2>4, <3>1 DEF Rest, FileOf
  <2>7. RestOf' = [RestOf EXCEPT ![t][fd] = Directory[name].content]
    BY <2>1, <2>3, <2>5, <2>6, OneStreamChanges
  <2>8. Streams!Accept(t, fd)
    BY <2>2 DEF Streams!Accept
  <2> QED
    BY <1>1, <1>2, <1>3, <1>4, <1>8, <2>1, <2>2, <2>7, <2>8
    DEF Streams!Open, RestOf, node
<1> QED
  BY <1>5, <1>6, <1>7, <1>8 DEF SysOpen, name

LEMMA CloseImplements ==
    ASSUME NullIsNoStream, KernelOK, NEW t \in Task, NEW fd, SysClose(t, fd)
    PROVE  Streams!Close(t, fd) /\ last'.task = t
<1>1. fd \in Streams!Opened(t) <=> IsOpen(t, fd)
  BY OpenedIs
<1>2. CASE ~IsOpen(t, fd) /\ Fail(t, "EBADF")
  BY <1>1, <1>2, FailIs DEF Streams!Close
<1>3. CASE /\ IsOpen(t, fd)
           /\ files' = [files EXCEPT ![t][fd] = FreeFile]
           /\ Return(t, 0, << >>)
           /\ UNCHANGED <<mounted, mem>>
  <2>1. RestOf' = [RestOf EXCEPT ![t][fd] = Null]
    <3>1. fd \in FileFd
      BY <1>3 DEF IsOpen
    <3>2. RestOf' = [RestOf EXCEPT ![t][fd] =
                        IF FreeFile.used THEN Rest(FreeFile) ELSE Null]
      BY <1>3, <3>1, OneStreamChanges
    <3>3. ~FreeFile.used
      BY DEF FreeFile
    <3> QED
      BY <3>2, <3>3
  <2>2. Streams!Accept(t, 0) /\ last'.task = t
    BY <1>3, AnswerIs DEF Return, Streams!Accept
  <2> QED
    BY <1>1, <1>3, <2>1, <2>2 DEF Streams!Close, RestOf
<1> QED
  BY <1>2, <1>3 DEF SysClose

(* A read takes the next bytes of its stream into the caller's window.     *)
LEMMA ReadImplements ==
    ASSUME NullIsNoStream, KernelOK, NEW t \in Task, NEW fd,
           NEW dst \in Nat, NEW len \in Nat, SysRead(t, fd, dst, len)
    PROVE  Streams!Read(t, fd, dst, len) /\ last'.task = t
<1>1. fd \in Streams!Opened(t) <=> IsOpen(t, fd)
  BY OpenedIs
<1>2. Streams!Owns(t, dst, len) <=> TaskContainsUserRange(t, dst, len)
  BY OwnsIs
<1>3. CASE ~IsOpen(t, fd) /\ Fail(t, "EBADF")
  BY <1>1, <1>3, FailIs DEF Streams!Read
<1>4. CASE IsOpen(t, fd) /\ ~TaskContainsUserRange(t, dst, len) /\ Fail(t, "EFAULT")
  BY <1>1, <1>2, <1>4, FailIs DEF Streams!Read
<1> DEFINE file  == files[t][fd]
           n     == ReadCount(file.node, file.offset, len)
           cells == KfsReadNode(file.node, file.offset, len)
           new   == [file EXCEPT !.offset = @ + n]
           left  == Len(RestOf[t][fd])
<1>5. CASE /\ IsOpen(t, fd)
           /\ TaskContainsUserRange(t, dst, len)
           /\ mem' = Store(dst, cells)
           /\ files' = [files EXCEPT ![t][fd].offset = @ + n]
           /\ Return(t, n, << >>)
           /\ UNCHANGED mounted
  <2>1. fd \in FileFd /\ file.used
    BY <1>5 DEF IsOpen
  <2>2. /\ file \in [used : {TRUE}, node : Node, offset : Nat]
        /\ NodeIsValid(file.node) /\ file.offset <= file.node.size
        /\ file.node.size \in Nat
    BY <2>1, OpenIsSound, NodeAssumption
  <2>3. /\ n \in 0..len /\ file.offset + n <= file.node.size
        /\ cells \in Seq(Cell) /\ Len(cells) = n
    BY <2>2, ReadSound
  <2>4. \A i \in 1..n : cells[i] = file.node.data[file.offset + i]
    <3>1. file.node \in Node /\ file.offset \in Nat
      BY <2>2
    <3>2. \A i \in 1..Len(cells) : cells[i] = file.node.data[file.offset + i]
      BY <2>2, <3>1, ReadBytes
    <3> QED
      BY <2>3, <3>2
  <2>5. Streams!Answer(t, n, "OK", << >>, FALSE) /\ last'.task = t
    BY <1>5, AnswerIs DEF Return
  <2>6. Streams!Stored(dst, cells)
    <3>1. Len(cells) > 0 => dst..(dst + Len(cells) - 1) \subseteq Addr
      <4>1. ASSUME Len(cells) > 0
            PROVE  dst..(dst + Len(cells) - 1) \subseteq dst..(dst + len - 1) /\ len > 0
        BY <2>3, <4>1
      <4> QED
        BY <1>5, <4>1, RangeInWindow
    <3> QED
      BY <1>5, <2>3, <3>1, StoredIs
  <2>7. files' = [files EXCEPT ![t][fd] = new]
    <3>1. fd \in 0..(MaxFiles - 1)
      BY <2>1, FdRange
    <3> QED
      BY <1>5, <2>1, <3>1 DEF KernelOK, KernelTypeOK
  <2>8. /\ RestOf[t][fd] = Rest(file) /\ Rest(file) \in Seq(Cell)
        /\ left = file.node.size - file.offset /\ Len(Rest(file)) = left
        /\ \A i \in 1..left : Rest(file)[i] = file.node.data[file.offset + i]
    <3>1. RestOf[t][fd] = Rest(file)
      BY <2>1 DEF RestOf
    <3> QED
      BY <2>2, <3>1, RestIs
  <2>9. n = IF len < left THEN len ELSE left
    <3> HIDE DEF file, left
    <3>1. file.offset \in Nat
      BY <2>2
    <3> QED
      BY <2>2, <2>8, <3>1 DEF ReadCount
  <2> HIDE DEF n, cells
  <2>10. /\ new.used /\ new.node = file.node /\ new.offset = file.offset + n
         /\ new.node \in Node /\ new.offset \in Nat
    <3> HIDE DEF file
    <3>1. file.offset + n \in Nat
      BY <2>2, <2>3
    <3> QED
      BY <2>2, <3>1
  <2> HIDE DEF file, new, left
  <2>11. /\ left \in Nat /\ n \in 0..left
         /\ \A i \in 1..left : Rest(file)[i] \in Cell
    <3>1. file.offset \in Nat
      BY <2>2
    <3>2. left \in Nat /\ n \in 0..left
      BY <2>2, <2>3, <2>8, <3>1
    <3>3. \A i \in 1..left : Rest(file)[i] \in Cell
      BY <2>8
    <3> QED
      BY <3>2, <3>3
  <2>12. cells = SubSeq(Rest(file), 1, n)
    <3>1. /\ SubSeq(Rest(file), 1, n) \in Seq(Cell)
          /\ Len(SubSeq(Rest(file), 1, n)) = n
          /\ \A i \in 1..n : SubSeq(Rest(file), 1, n)[i] = Rest(file)[i]
      <4>1. /\ \A i \in 1..n : Rest(file)[i] \in Cell
            /\ 1 \in Int /\ n \in Int /\ n - 1 + 1 = n /\ n \in Nat
            /\ \A i \in 1..n : 1 + i - 1 = i
        BY <2>3, <2>11
      <4> QED
        BY <4>1, SubSeqProperties
    <3>2. \A i \in 1..n : cells[i] = Rest(file)[i]
      BY <2>4, <2>8, <2>11
    <3> QED
      BY <2>3, <3>1, <3>2, SeqEqual
  <2>13. Rest(new) = SubSeq(Rest(file), n + 1, left)
    <3>1. /\ SubSeq(Rest(file), n + 1, left) \in Seq(Cell)
          /\ Len(SubSeq(Rest(file), n + 1, left)) = left - n
          /\ \A i \in 1..(left - n) :
                SubSeq(Rest(file), n + 1, left)[i] = Rest(file)[n + i]
      <4>1. /\ \A i \in (n + 1)..left : Rest(file)[i] \in Cell
            /\ n + 1 \in Int /\ left \in Int /\ left - (n + 1) + 1 = left - n
            /\ (IF n + 1 <= left THEN left - n ELSE 0) = left - n
            /\ \A i \in 1..(left - n) : n + 1 + i - 1 = n + i
        BY <2>11
      <4> QED
        BY <4>1, SubSeqProperties
    <3>2. /\ Rest(new) \in Seq(Cell) /\ Len(Rest(new)) = left - n
          /\ \A i \in 1..(left - n) : Rest(new)[i] = file.node.data[file.offset + n + i]
      <4>1. /\ NodeIsValid(new.node) /\ new.offset <= new.node.size
            /\ new.node.size - new.offset = left - n
        BY <2>2, <2>3, <2>8, <2>10
      <4> QED
        BY <2>10, <4>1, RestIs
    <3>3. ASSUME NEW i \in 1..(left - n)
          PROVE  Rest(file)[n + i] = file.node.data[file.offset + n + i]
      <4>1. /\ n + i \in 1..left
            /\ file.offset + (n + i) = file.offset + n + i
        BY <2>2, <2>11
      <4> QED
        BY <2>8, <4>1
    <3> QED
      BY <3>1, <3>2, <3>3, SeqEqual
  <2>14. RestOf' = [RestOf EXCEPT ![t][fd] = SubSeq(Rest(file), n + 1, left)]
    <3>1. RestOf' = [RestOf EXCEPT ![t][fd] = IF new.used THEN Rest(new) ELSE Null]
      BY <2>1, <2>7, OneStreamChanges
    <3> QED
      BY <2>10, <2>13, <3>1
  <2>15. /\ Streams!Stored(dst, SubSeq(RestOf[t][fd], 1, n))
         /\ RestOf' = [RestOf EXCEPT ![t][fd] = SubSeq(@, n + 1, left)]
    BY <2>6, <2>8, <2>12, <2>14
  <2> QED
    BY <1>1, <1>2, <1>5, <2>5, <2>9, <2>15 DEF Streams!Read, RestOf, left
<1> QED
  BY <1>3, <1>4, <1>5 DEF SysRead

(* stat stores the description of the file the directory has.              *)
LEMMA StatImplements ==
    ASSUME KernelOK, NEW t \in Task, NEW ptr \in Nat, NEW len \in Nat,
           NEW statPtr \in Nat, SysStat(t, ptr, len, statPtr)
    PROVE  Streams!Stat(t, ptr, len, statPtr) /\ last'.task = t
<1> DEFINE name == Load(ptr, len)
           node == KfsLookup(mounted, name)
           inRange == /\ TaskContainsUserRange(t, ptr, len)
                      /\ TaskContainsUserRange(t, statPtr, StatSize)
<1>1. Streams!Bytes(ptr, len) = name
  BY BytesIs
<1>2. Streams!Owns(t, ptr, len) /\ Streams!Owns(t, statPtr, StatSize) <=> inRange
  BY OwnsIs DEF StatSize
<1>3. name \in DOMAIN Directory <=> node # Null
  BY LookupIs
<1> HIDE DEF name, inRange
<1>4. CASE ~inRange /\ Fail(t, "EFAULT")
  BY <1>2, <1>4, FailIs DEF Streams!Stat
<1>5. CASE inRange /\ node = Null /\ Fail(t, "ENOENT")
  BY <1>1, <1>2, <1>3, <1>5, FailIs DEF Streams!Stat
<1>6. CASE /\ inRange /\ node # Null
           /\ mem' = Store(statPtr, KfsStatNode(node))
           /\ Return(t, 0, << >>)
           /\ UNCHANGED <<mounted, files>>
  <2>1. KfsStatNode(node) \in Seq(Cell) /\ Len(KfsStatNode(node)) = StatSize
    <3>1. node \in Node /\ NodeIsValid(node)
      BY <1>6, LookupSound DEF KernelOK, KernelTypeOK
    <3> QED
      BY <3>1, NodeAssumption DEF KfsStatNode, NodeIsValid, StatSize
  <2>2. Streams!Stored(statPtr, KfsStatNode(node))
    <3>1. statPtr..(statPtr + Len(KfsStatNode(node)) - 1) \subseteq Addr
      BY <1>6, <2>1, RangeInWindow DEF inRange, StatSize
    <3> QED
      BY <1>6, <2>1, <3>1, StoredIs
  <2>3. Directory[name].about = KfsStatNode(node)
    <3>1. Directory[name] = FileOf(node)
      BY <1>6, LookupIs
    <3> QED
      BY <3>1 DEF FileOf
  <2>4. Streams!Accept(t, 0) /\ last'.task = t
    BY <1>6, AnswerIs DEF Return, Streams!Accept
  <2>5. RestOf' = RestOf
    BY <1>6, SameFiles
  <2> HIDE DEF node
  <2> QED
    BY <1>1, <1>2, <1>3, <1>6, <2>2, <2>3, <2>4, <2>5 DEF Streams!Stat, RestOf
<1> QED
  BY <1>4, <1>5, <1>6 DEF SysStat, name, inRange

LEMMA GetpidImplements ==
    ASSUME NEW t \in Task, SysGetpid(t)
    PROVE  Streams!Getpid(t) /\ last'.task = t
<1>1. t # NoTask
  BY TaskAssumption
<1>2. CASE Pid[t] = 0 /\ Fail(t, "EINVAL")
  BY <1>2, FailIs DEF Streams!Getpid
<1>3. CASE Pid[t] # 0 /\ Return(t, Pid[t], << >>) /\ UNCHANGED <<mounted, files, mem>>
  <2>1. Streams!Accept(t, Pid[t]) /\ last'.task = t
    BY <1>3, AnswerIs DEF Return, Streams!Accept
  <2>2. RestOf' = RestOf
    BY <1>3, SameFiles
  <2> QED
    BY <1>3, <2>1, <2>2 DEF Streams!Getpid, RestOf
<1> QED
  BY <1>1, <1>2, <1>3 DEF SysGetpid

LEMMA ExitImplements ==
    ASSUME NEW t \in Task, NEW arg, SysExit(t, arg)
    PROVE  Streams!Exit(t) /\ last'.task = t
<1>1. RestOf' = RestOf
  BY SameFiles DEF SysExit
<1> QED
  BY <1>1 DEF SysExit, Streams!Exit, Streams!Answer, RestOf

(* The call a register block asks for is the call that is answered.        *)
LEMMA DispatchImplements ==
    ASSUME NullIsNoStream, KernelOK, NEW t \in Task,
           NEW regs \in [nr : Nat, arg0 : Nat, arg1 : Nat, arg2 : Nat],
           KsyscallDispatch(t, regs)
    PROVE  Streams!Serve(t, Call(regs)) /\ last'.task = t
<1> DEFINE n == CallNumber(regs.nr)
           c == Call(regs)
<1>1. /\ c[1] = n /\ c[2] = regs.arg0 /\ c[3] = regs.arg1 /\ c[4] = regs.arg2
      /\ regs.arg0 \in Nat /\ regs.arg1 \in Nat /\ regs.arg2 \in Nat
  BY DEF Call
<1> HIDE DEF n, c
<1>2. CASE n = 0 /\ SysRead(t, regs.arg0, regs.arg1, regs.arg2)
  BY <1>1, <1>2, ReadImplements DEF Streams!Serve, c
<1>3. CASE n = 1 /\ SysWrite(t, regs.arg0, regs.arg1, regs.arg2)
  BY <1>1, <1>3, WriteImplements DEF Streams!Serve, c
<1>4. CASE n = 2 /\ SysOpen(t, regs.arg0, regs.arg1)
  BY <1>1, <1>4, OpenImplements DEF Streams!Serve, c
<1>5. CASE n = 3 /\ SysClose(t, regs.arg0)
  BY <1>1, <1>5, CloseImplements DEF Streams!Serve, c
<1>6. CASE n = 4 /\ SysStat(t, regs.arg0, regs.arg1, regs.arg2)
  BY <1>1, <1>6, StatImplements DEF Streams!Serve, c
<1>7. CASE n = 5 /\ SysGetpid(t)
  BY <1>1, <1>7, GetpidImplements DEF Streams!Serve, c
<1>8. CASE n = 6 /\ SysExit(t, regs.arg0)
  BY <1>1, <1>8, ExitImplements DEF Streams!Serve, c
<1>9. CASE n > 6 /\ Fail(t, "ENOSYS")
  BY <1>1, <1>9, FailIs DEF Streams!Serve, c
<1> QED
  BY <1>2, <1>3, <1>4, <1>5, <1>6, <1>7, <1>8, <1>9 DEF KsyscallDispatch, n

(* A call leaves the table in force alone.                                 *)
LEMMA DispatchKeepsTable ==
    ASSUME NEW t, NEW regs, KsyscallDispatch(t, regs)
    PROVE  mounted' = mounted
<1> USE DEF Fail
<1>1. CASE SysRead(t, regs.arg0, regs.arg1, regs.arg2)
  BY <1>1 DEF SysRead
<1>2. CASE SysWrite(t, regs.arg0, regs.arg1, regs.arg2)
  BY <1>2 DEF SysWrite
<1>3. CASE SysOpen(t, regs.arg0, regs.arg1)
  BY <1>3 DEF SysOpen
<1>4. CASE SysClose(t, regs.arg0)
  BY <1>4 DEF SysClose
<1>5. CASE SysStat(t, regs.arg0, regs.arg1, regs.arg2)
  BY <1>5 DEF SysStat
<1>6. CASE SysGetpid(t) \/ SysExit(t, regs.arg0)
  BY <1>6 DEF SysGetpid, SysExit
<1> QED
  BY <1>1, <1>2, <1>3, <1>4, <1>5, <1>6 DEF KsyscallDispatch

(* A call without a task is refused, or it is exit: either changes nothing. *)
LEMMA NoTaskChangesNothing ==
    ASSUME NEW regs, KsyscallDispatch(NoTask, regs)
    PROVE  last'.task = NoTask /\ last'.bytes = << >> /\ UNCHANGED <<mounted, files, mem>>
<1>1. /\ \A ptr, len : ~TaskContainsUserRange(NoTask, ptr, len)
      /\ \A fd : ~IsOpen(NoTask, fd)
  BY DEF TaskContainsUserRange, IsOpen
<1>2. ASSUME NEW error, Fail(NoTask, error)
      PROVE  /\ last'.task = NoTask /\ last'.bytes = << >>
             /\ UNCHANGED <<mounted, files, mem>>
  BY <1>2 DEF Fail, Result
<1>3. CASE SysRead(NoTask, regs.arg0, regs.arg1, regs.arg2)
  BY <1>1, <1>2, <1>3 DEF SysRead
<1>4. CASE SysWrite(NoTask, regs.arg0, regs.arg1, regs.arg2)
  BY <1>1, <1>2, <1>4 DEF SysWrite
<1>5. CASE SysOpen(NoTask, regs.arg0, regs.arg1)
  BY <1>1, <1>2, <1>5 DEF SysOpen
<1>6. CASE SysClose(NoTask, regs.arg0)
  BY <1>1, <1>2, <1>6 DEF SysClose
<1>7. CASE SysStat(NoTask, regs.arg0, regs.arg1, regs.arg2)
  BY <1>1, <1>2, <1>7 DEF SysStat
<1>8. CASE SysGetpid(NoTask)
  BY <1>2, <1>8 DEF SysGetpid
<1>9. CASE SysExit(NoTask, regs.arg0)
  BY <1>9 DEF SysExit
<1>10. CASE Fail(NoTask, "ENOSYS")
  BY <1>2, <1>10
<1> QED
  BY <1>3, <1>4, <1>5, <1>6, <1>7, <1>8, <1>9, <1>10 DEF KsyscallDispatch

LEMMA NoTaskIs ==
    ASSUME last'.task = NoTask, last'.bytes = << >>, UNCHANGED <<mounted, files, mem>>
    PROVE  Streams!NoTaskCall /\ Directory' = Directory
<1>1. RestOf' = RestOf
  BY SameFiles
<1>2. Streams!NoTaskCall
  BY <1>1, TaskAssumption DEF Streams!NoTaskCall, RestOf
<1>3. Directory' = Directory
  BY DEF Directory
<1> QED
  BY <1>2, <1>3

(* The system calls implement streams for every number of tasks, every     *)
(* table, register content and word size: each call is answered as the     *)
(* abstract one with its arguments, so that a descriptor delivers the      *)
(* bytes of its file once and in order, a write emits the bytes it names   *)
(* and a refused call changes nothing.                                     *)
THEOREM Refinement ==
    ASSUME NullIsNoStream
    PROVE  Spec => ImplementsStreams
<1>1. Init => Streams!Init
  BY DEF Init, Streams!Init, FreeFile, Result, FileFd, FirstFile
<1>2. ASSUME IInv, NEW t \in Task, NEW regs \in Regs, KsyscallDispatch(t, regs)
      PROVE  /\ Streams!Serve(t, Call(regs)) /\ last'.task = t
             /\ Directory' = Directory
  <2>1. regs \in [nr : Nat, arg0 : Nat, arg1 : Nat, arg2 : Nat]
    BY RegsAssumption DEF Addr
  <2>2. Streams!Serve(t, Call(regs)) /\ last'.task = t
    BY <1>2, <2>1, DispatchImplements DEF IInv, TypeOK, KernelOK
  <2>3. Directory' = Directory
    BY <1>2, DispatchKeepsTable DEF Directory
  <2> QED
    BY <2>2, <2>3
<1>3. IInv /\ [Next]_vars => [Streams!Next]_(Streams!avars)
  <2> SUFFICES ASSUME IInv, [Next]_vars
               PROVE  Streams!Next \/ UNCHANGED Streams!avars
    OBVIOUS
  <2>1. ASSUME NEW t \in Task, NEW regs \in Regs, KsyscallDispatch(t, regs)
        PROVE  Streams!Next
    <3>1. /\ Streams!Serve(t, Call(regs)) /\ last'.task = t
          /\ Directory' = Directory /\ Call(regs) \in {Call(r) : r \in Regs}
      BY <1>2, <2>1
    <3> QED
      BY <3>1 DEF Streams!Next
  <2>2. ASSUME NEW regs \in Regs, KsyscallDispatch(NoTask, regs)
        PROVE  Streams!Next
    BY <2>2, NoTaskChangesNothing, NoTaskIs DEF Streams!Next
  <2>3. ASSUME NEW t \in Task, DispatchNullRegs(t)
        PROVE  Streams!Next
    <3>1. Streams!Refuse(t, "EINVAL") /\ last'.task = t
      BY <2>3, FailIs DEF DispatchNullRegs
    <3>2. Directory' = Directory
      BY <2>3 DEF DispatchNullRegs, Fail, Directory
    <3> QED
      BY <3>1, <3>2 DEF Streams!Next
  <2>4. ASSUME DispatchNullRegs(NoTask)
        PROVE  Streams!Next
    <3>1. last'.task = NoTask /\ last'.bytes = << >> /\ UNCHANGED <<mounted, files, mem>>
      BY <2>4 DEF DispatchNullRegs, Fail, Result
    <3> QED
      BY <3>1, NoTaskIs DEF Streams!Next
  <2>5. ASSUME NEW table \in Tables, KfsMount(table)
        PROVE  Streams!Next
    BY <2>5, SameFiles DEF KfsMount, Streams!Next, Streams!Mount, RestOf
  <2>6. CASE UNCHANGED vars
    BY <2>6, SameFiles DEF vars, Streams!avars, Directory, RestOf
  <2> QED
    BY <2>1, <2>2, <2>3, <2>4, <2>5, <2>6 DEF Next
<1>4. IInv /\ [Next]_vars
        => [\A t \in Task, regs \in Regs :
              last'.task = t /\ KsyscallDispatch(t, regs)
                  => Streams!Serve(t, Call(regs))]_vars
  BY <1>2
<1> QED
  BY <1>1, <1>3, <1>4, Invariant, PTL DEF Spec, ImplementsStreams, Streams!Spec
=============================================================================
