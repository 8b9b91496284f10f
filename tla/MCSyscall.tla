------------------------------ MODULE MCSyscall -----------------------------
(***************************************************************************)
(* A 10-address memory in which the windows of two tasks are adjacent.     *)
(***************************************************************************)
EXTENDS SyscallTasks

CONSTANTS a, b

MCPid      == [t \in Task |-> IF t = a THEN 7 ELSE 0]
MCUserBase == [t \in Task |-> IF t = a THEN 2 ELSE 5]
MCUserLen  == [t \in Task |-> IF t = a THEN 3 ELSE 1]
MCCell     == 0..3
MCFileMode == 3

File(path, data) ==
    [path |-> path, data |-> data, size |-> Len(data), mode |-> MCFileMode]

(* A node kfs_lookup must skip although its path matches, a file, and      *)
(* another file with the same path in the other table.                     *)
Broken == [path |-> <<1>>, data |-> Null, size |-> 2, mode |-> MCFileMode]
One    == File(<<1>>, <<2, 1>>)
Other  == File(<<1>>, <<1>>)

MCNode   == {Broken, One, Other}
MCTables == {<<Broken, One>>, <<Other, One>>}

(* a's window starts with the path of One, b's holds it too.               *)
MCInitMem == [x \in 0..9 |-> IF x \in {2, 5} THEN 1 ELSE 0]

Block(nr, x, y, z) == [nr |-> nr, arg0 |-> x, arg1 |-> y, arg2 |-> z]

(* Ranges inside the windows; then empty ones, and ranges that start before *)
(* a window, end after it, or wrap around the end of the address space.    *)
Inside  == {<<2, 2>>, <<5, 1>>}
Outside == {<<7, 0>>, <<1, 2>>, <<4, 2>>, <<8, 4>>}
MCRegs ==
    {Block(0, 3, r[1], r[2]) : r \in Inside \cup Outside \cup {<<4, 1>>}}
    \cup {Block(1, 1, r[1], r[2]) : r \in Inside \cup (Outside \ {<<1, 2>>})}
    \cup {Block(2, r[1], r[2], 0) : r \in Inside \cup {<<2, 1>>, <<7, 0>>, <<4, 2>>}}
    \cup {Block(3, fd, 0, 0) : fd \in {2, 3, 4}}
    \cup {Block(4, 2, 1, 2), Block(4, 2, 1, 3), Block(4, 4, 1, 2)}
    \cup {Block(0, 2, 2, 1), Block(0, 4, 2, 1), Block(1, 0, 2, 1)}
    \cup {Block(nr, 9, 0, 0) : nr \in {5, 6, 7}}

(* The same, and a number whose low bits are those of write.               *)
MCWideRegs == MCRegs \cup {Block(9, 1, 2, 1)}
=============================================================================
