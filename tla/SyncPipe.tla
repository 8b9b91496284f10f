------------------------------ MODULE SyncPipe ------------------------------
(***************************************************************************)
(* The pipe a parent and its child synchronise on, as pipe(2), clone(2)    *)
(* without CLONE_FILES, read(2) and write(2) define it.  It is part of the *)
(* host kernel; mini_container.c and userns_map.c use it the same way.     *)
(*                                                                         *)
(* A pipe is the bytes in it and, for each end, the processes that have a  *)
(* descriptor for it.                                                      *)
(***************************************************************************)
EXTENDS Naturals

(* pipe(2) in process p                                                    *)
NewPipe(p) == [bytes |-> 0, readers |-> {p}, writers |-> {p}]

(* clone(2) gives the child a copy of every descriptor of the parent.      *)
Inherit(pipe, p, c) ==
    [pipe EXCEPT !.readers = IF p \in @ THEN @ \cup {c} ELSE @,
                 !.writers = IF p \in @ THEN @ \cup {c} ELSE @]

CloseReadEnd(pipe, p)  == [pipe EXCEPT !.readers = @ \ {p}]
CloseWriteEnd(pipe, p) == [pipe EXCEPT !.writers = @ \ {p}]

(* The end of a process closes its descriptors.                            *)
CloseBoth(pipe, p) == CloseReadEnd(CloseWriteEnd(pipe, p), p)

(* read(2) blocks unless there is a byte, or no writer is left: end of     *)
(* file.                                                                   *)
HasByte(pipe)   == pipe.bytes > 0
AtEof(pipe)     == pipe.bytes = 0 /\ pipe.writers = {}
TakeByte(pipe)  == [pipe EXCEPT !.bytes = @ - 1]

(* write(2) raises SIGPIPE when no reader is left.                         *)
IsBroken(pipe) == pipe.readers = {}
PutByte(pipe)  == [pipe EXCEPT !.bytes = @ + 1]
=============================================================================
