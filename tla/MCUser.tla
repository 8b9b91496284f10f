-------------------------------- MODULE MCUser ------------------------------
(***************************************************************************)
(* Processes with three cells of memory, more descriptors than slots, and  *)
(* two programs' filesystems that know one path by different files.        *)
(***************************************************************************)
EXTENDS UserRuntime

CONSTANTS p, q

MCPid      == [t \in Task |-> 2]
MCUserBase == [t \in Task |-> IF t = p THEN 1 ELSE 4]
MCUserLen  == [t \in Task |-> MemorySize]
MCCell     == 0..3
MCFileMode == 3

File(path, data) ==
    [path |-> path, data |-> data, size |-> Len(data), mode |-> MCFileMode]

Motd   == File(<<1>>, <<2, 1>>)
Notes  == File(<<1>>, <<1>>)
MCNode   == {Motd, Notes}
MCTables == {<<Motd>>, <<Notes>>, << >>}
MCImages == {[memory |-> <<1>>, nodes |-> <<Motd>>],
             [memory |-> <<1, 0, 0>>, nodes |-> <<Notes>>],
             [memory |-> <<0, 0, 0, 0>>, nodes |-> << >>]}

O(opcode, slot, offset, len, aux, status) ==
    [opcode |-> opcode, slot |-> slot, offset |-> offset, len |-> len,
     aux |-> aux, status |-> status]

(* Every op, with operands inside the memory and the slots, at their limit *)
(* and past it.                                                            *)
MCOp ==
    {O("WRITE", 0, x, n, 0, 0) : x \in {2, 3, 4}, n \in {0, 1}}
    \cup {O("OPEN", s, 0, n, 0, 0) : s \in 0..SlotCount, n \in {1, 4}}
    \cup {O("READ", s, 2, n, 0, 0) : s \in 0..SlotCount, n \in {1, 2}}
    \cup {O("CLOSE", s, 0, 0, 0, 0) : s \in 0..SlotCount}
    \cup {O("STAT", 0, 0, 1, x, 0) : x \in {0, 1}}
    \cup {O("EXIT", 0, 0, 0, 0, n) : n \in {-2, 1}}
    \cup {O("NONE", 0, 0, 0, 0, 0)}
=============================================================================
