------------------------------ MODULE KernelFs ------------------------------
(***************************************************************************)
(* The read-only in-memory filesystem of the mini kernel (kernel/fs.c).    *)
(*                                                                         *)
(* A mount table is a sequence of nodes owned by the caller of kfs_mount;  *)
(* the filesystem only remembers where it is and how long it is.  A node   *)
(* names its bytes, and nothing in the kernel ever writes them, so this    *)
(* module has no variable of its own: it is the functions of fs.c over a   *)
(* table.  The table in force is the variable `mounted' of Syscall.        *)
(***************************************************************************)
EXTENDS Naturals, Sequences

CONSTANTS
    Cell,       \* what one cell of memory can hold: a byte, or a field of kfs_stat
    Node,       \* the nodes any table of the system is made of
    Null,       \* the NULL pointer: a missing path, missing data, no node
    FileMode    \* KFS_MODE_FILE, as the cell sys_stat stores

(***************************************************************************)
(* A node points at `size' bytes of data, or at none.  The C type allows   *)
(* every combination of fields, node_is_valid sorts them out.              *)
(***************************************************************************)
ASSUME NodeAssumption ==
    /\ Null \notin Node
    /\ {1, FileMode} \subseteq Cell
    /\ \A n \in Node :
          /\ n.size \in Nat \cap Cell
          /\ n.path # Null => n.path \in Seq(Cell)
          /\ n.data # Null => n.data \in [1..n.size -> Cell]

NodeIsValid(n) ==
    /\ n # Null
    /\ n.path # Null
    /\ n.mode = FileMode
    /\ n.size > 0 => n.data # Null

(* Mutant of Matches: node_is_valid forgotten.                             *)
MatchesByPath(table, path) == {i \in DOMAIN table : table[i].path = path}

(* The indices of a table whose node kfs_lookup would accept for a path.   *)
Matches(table, path) ==
    {i \in DOMAIN table : NodeIsValid(table[i]) /\ table[i].path = path}

(* kfs_lookup returns the first match; the empty path matches nothing.     *)
KfsLookup(table, path) ==
    IF path = << >> \/ Matches(table, path) = {}
    THEN Null
    ELSE table[CHOOSE i \in Matches(table, path) :
                  \A j \in Matches(table, path) : i <= j]

(* kfs_read_node: how many bytes a read of `len' at `offset' copies ...    *)
ReadCount(n, offset, len) ==
    IF ~NodeIsValid(n) \/ offset >= n.size THEN 0
    ELSE IF len < n.size - offset THEN len ELSE n.size - offset

(* ... and which ones.                                                     *)
KfsReadNode(n, offset, len) ==
    [i \in 1..ReadCount(n, offset, len) |-> n.data[offset + i]]

(* kfs_stat_node: the three fields of struct kfs_stat, one cell for each.  *)
KfsStatNode(n) == <<n.size, n.mode, 1>>
=============================================================================
