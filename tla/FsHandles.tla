------------------------------ MODULE FsHandles -----------------------------
(***************************************************************************)
(* The other interface of kernel/fs.c: a caller inside the kernel opens a  *)
(* struct kfs_handle by path, reads it piece by piece and asks for the     *)
(* size of files, while tasks make system calls and tables are mounted.    *)
(* (So far only tests/test_fs.c is such a caller.)                         *)
(***************************************************************************)
EXTENDS SyscallTasks

CONSTANTS
    Path,       \* the paths files are named by, NULL included
    MaxRead     \* bound: the greatest length a handle is read with

VARIABLES
    handle,     \* a struct kfs_handle
    reply,      \* error, bytes read and status of the latest call
    got         \* history: what was read from the handle since it was opened

handleVars == <<handle, reply, got>>

NoStat == <<0, 0, 0>>
Reply(error, bytes, stat) == [error |-> error, bytes |-> bytes, stat |-> stat]
Refuse(error) == reply' = Reply(error, << >>, NoStat)

KfsOpen(path) ==
    \/ /\ path = Null
       /\ Refuse("EINVAL")
       /\ UNCHANGED <<handle, got>>
    \/ /\ path # Null
       /\ LET node == KfsLookup(mounted, path) IN
          /\ handle' = [node |-> node, offset |-> 0]
          /\ Refuse(IF node = Null THEN "ENOENT" ELSE "OK")
       /\ got' = << >>

(* kfs_read of `len' bytes to `dst', which may be NULL                     *)
KfsRead(len, dst) ==
    \/ /\ ~NodeIsValid(handle.node) \/ (len > 0 /\ dst = Null)
       /\ Refuse("EINVAL")
       /\ UNCHANGED <<handle, got>>
    \/ /\ NodeIsValid(handle.node)
       /\ len > 0 => dst # Null
       /\ LET n     == ReadCount(handle.node, handle.offset, len)
              bytes == KfsReadNode(handle.node, handle.offset, len)
          IN  /\ handle' = [handle EXCEPT !.offset = @ + n]
              /\ reply' = Reply("OK", bytes, NoStat)
              /\ got' = got \o bytes

(* kfs_stat to `out', which may be NULL                                    *)
KfsStat(path, out) ==
    /\ LET node == KfsLookup(mounted, path) IN
       \/ /\ path = Null \/ out = Null
          /\ Refuse("EINVAL")
       \/ /\ path # Null /\ out # Null
          /\ node = Null
          /\ Refuse("ENOENT")
       \/ /\ path # Null /\ out # Null
          /\ node # Null
          /\ reply' = Reply("OK", << >>, KfsStatNode(node))
    /\ UNCHANGED <<handle, got>>

HandleCall ==
    \/ \E path \in Path : KfsOpen(path)
    \/ \E len \in 0..MaxRead, dst \in {Null, 1} : KfsRead(len, dst)
    \/ \E path \in Path, out \in {Null, 1} : KfsStat(path, out)

HandleInit ==
    /\ Init
    /\ handle = [node |-> Null, offset |-> 0]
    /\ reply = Reply("OK", << >>, NoStat)
    /\ got = << >>

HandleNext ==
    \/ Next /\ UNCHANGED handleVars
    \/ HandleCall /\ UNCHANGED vars

HandleSpec == HandleInit /\ [][HandleNext]_<<vars, handleVars>>

-----------------------------------------------------------------------------
(* However it is read, and whatever is mounted meanwhile, a handle has     *)
(* delivered exactly the bytes of the file it was opened on that lie       *)
(* before its offset, and a handle whose open failed delivers none.        *)
HandleDelivers ==
    /\ handle.node # Null =>
          /\ NodeIsValid(handle.node)
          /\ Len(got) = handle.offset /\ handle.offset <= handle.node.size
          /\ \A i \in 1..Len(got) : got[i] = handle.node.data[i]
    /\ handle.node = Null => got = << >>
=============================================================================
