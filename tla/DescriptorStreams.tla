-------------------------- MODULE DescriptorStreams -------------------------
(***************************************************************************)
(* What the system calls promise a task, without nodes, offsets, tables of *)
(* descriptors or arithmetic on addresses: an open descriptor is the       *)
(* stream of the bytes it has still to deliver, a directory says which     *)
(* file a name stands for, and each call has exactly one answer.  Syscall  *)
(* is shown to implement this specification, call by call.                 *)
(***************************************************************************)
EXTENDS Integers, Sequences

CONSTANTS
    Task,       \* the tasks
    Pid,        \* Pid[t]: the number of task t, 0 for none
    FileFd,     \* the descriptors a task can hold
    Addr,       \* memory addresses
    Owned,      \* Owned[t]: the addresses task t may name
    StatSize,   \* the cells of the structure stat fills in
    Calls,      \* the calls there are: <<number, argument, argument, argument>>
    Closed      \* the state of a descriptor that is not open

VARIABLES
    dir,        \* the names there are, with the content and description of each
    rest,       \* rest[t][fd]: what descriptor fd has still to deliver
    mem,        \* memory
    reply       \* the answer to the latest call

avars == <<dir, rest, mem, reply>>

Opened(t) == {fd \in FileFd : rest[t][fd] # Closed}

(* A range is the caller's when each of its addresses is.                  *)
Owns(t, ptr, len) == ptr..(ptr + len - 1) \subseteq Owned[t]

Bytes(ptr, len) == [i \in 1..len |-> mem[ptr + i - 1]]

(* The cells are stored side by side at ptr and nowhere else.              *)
Stored(ptr, cells) ==
    /\ \A i \in 1..Len(cells) : mem'[ptr + i - 1] = cells[i]
    /\ \A a \in Addr \ (ptr..(ptr + Len(cells) - 1)) : mem'[a] = mem[a]

Answer(t, value, error, bytes, exits) ==
    reply' = [task |-> t, value |-> value, error |-> error,
              bytes |-> bytes, exits |-> exits]
Accept(t, value) == Answer(t, value, "OK", << >>, FALSE)

(* A refused call changes nothing and emits nothing.                       *)
Refuse(t, error) ==
    /\ Answer(t, -1, error, << >>, FALSE)
    /\ UNCHANGED <<rest, mem>>

Init ==
    /\ rest = [t \in Task |-> [fd \in FileFd |-> Closed]]
    /\ reply.error = "OK"

(* A read takes the next bytes of its stream, as many as fit, once and in  *)
(* order, stores them in the caller's window and says how many.            *)
Read(t, fd, dst, len) ==
    \/ fd \notin Opened(t) /\ Refuse(t, "EBADF")
    \/ fd \in Opened(t) /\ ~Owns(t, dst, len) /\ Refuse(t, "EFAULT")
    \/ /\ fd \in Opened(t) /\ Owns(t, dst, len)
       /\ LET left == Len(rest[t][fd])
              n    == IF len < left THEN len ELSE left
          IN  /\ Answer(t, n, "OK", << >>, FALSE)
              /\ Stored(dst, SubSeq(rest[t][fd], 1, n))
              /\ rest' = [rest EXCEPT ![t][fd] = SubSeq(@, n + 1, left)]

(* A write emits the bytes it was given, all of them.                      *)
Write(t, fd, ptr, len) ==
    \/ fd \notin {1, 2} /\ Refuse(t, "EBADF")
    \/ fd \in {1, 2} /\ ~Owns(t, ptr, len) /\ Refuse(t, "EFAULT")
    \/ /\ fd \in {1, 2} /\ Owns(t, ptr, len)
       /\ Answer(t, len, "OK", Bytes(ptr, len), FALSE)
       /\ UNCHANGED <<rest, mem>>

(* A stream starts at the first byte of the file that has the name now, on *)
(* the lowest closed descriptor; EMFILE means there is none.               *)
Open(t, ptr, len) ==
    LET name   == Bytes(ptr, len)
        closed == FileFd \ Opened(t)
    IN  \/ ~Owns(t, ptr, len) /\ Refuse(t, "EFAULT")
        \/ Owns(t, ptr, len) /\ name \notin DOMAIN dir /\ Refuse(t, "ENOENT")
        \/ /\ Owns(t, ptr, len) /\ name \in DOMAIN dir
           /\ closed = {}
           /\ Refuse(t, "EMFILE")
        \/ /\ Owns(t, ptr, len) /\ name \in DOMAIN dir
           /\ \E fd \in closed :
                 /\ \A g \in closed : fd <= g
                 /\ Accept(t, fd)
                 /\ rest' = [rest EXCEPT ![t][fd] = dir[name].content]
           /\ UNCHANGED mem

Close(t, fd) ==
    \/ fd \notin Opened(t) /\ Refuse(t, "EBADF")
    \/ /\ fd \in Opened(t)
       /\ Accept(t, 0)
       /\ rest' = [rest EXCEPT ![t][fd] = Closed]
       /\ UNCHANGED mem

(* stat stores the description of the file that has the name now.          *)
Stat(t, ptr, len, statPtr) ==
    LET name == Bytes(ptr, len)
        owns == Owns(t, ptr, len) /\ Owns(t, statPtr, StatSize)
    IN  \/ ~owns /\ Refuse(t, "EFAULT")
        \/ owns /\ name \notin DOMAIN dir /\ Refuse(t, "ENOENT")
        \/ /\ owns /\ name \in DOMAIN dir
           /\ Accept(t, 0)
           /\ Stored(statPtr, dir[name].about)
           /\ UNCHANGED rest

Getpid(t) ==
    \/ Pid[t] = 0 /\ Refuse(t, "EINVAL")
    \/ Pid[t] # 0 /\ Accept(t, Pid[t]) /\ UNCHANGED <<rest, mem>>

Exit(t) ==
    /\ Answer(t, 0, "OK", << >>, TRUE)
    /\ UNCHANGED <<rest, mem>>

(* The one answer to a call.                                               *)
Serve(t, c) ==
    \/ c[1] = 0 /\ Read(t, c[2], c[3], c[4])
    \/ c[1] = 1 /\ Write(t, c[2], c[3], c[4])
    \/ c[1] = 2 /\ Open(t, c[2], c[3])
    \/ c[1] = 3 /\ Close(t, c[2])
    \/ c[1] = 4 /\ Stat(t, c[2], c[3], c[4])
    \/ c[1] = 5 /\ Getpid(t)
    \/ c[1] = 6 /\ Exit(t)
    \/ c[1] > 6 /\ Refuse(t, "ENOSYS")

(* A call without a task changes nothing, one without registers is refused *)
(* and a mount changes the directory alone.                                *)
NoTaskCall ==
    /\ reply'.task \notin Task
    /\ reply'.bytes = << >>
    /\ UNCHANGED <<rest, mem>>
Mount == UNCHANGED <<rest, mem, reply>>

Next ==
    \/ Mount
    \/ NoTaskCall /\ UNCHANGED dir
    \/ /\ \E t \in Task :
             /\ reply'.task = t
             /\ \/ \E c \in Calls : Serve(t, c)
                \/ Refuse(t, "EINVAL")
       /\ UNCHANGED dir

Spec == Init /\ [][Next]_avars
=============================================================================
