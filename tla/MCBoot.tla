------------------------------- MODULE MCBoot -------------------------------
(***************************************************************************)
(* The shipped init program with shorter texts, and programs that end in   *)
(* every other way.  The texts of klog are one cell each.                  *)
(***************************************************************************)
EXTENDS KernelBoot

CONSTANTS k, p

MCPid      == [t \in Task |-> IF t = k THEN 1 ELSE 2]
MCUserBase == [t \in Task |-> IF t = k THEN 1 ELSE 5]
MCUserLen  == [t \in Task |-> IF t = k THEN Len(Banner) ELSE MemorySize]
MCCell     == 0..9
MCFileMode == 3
MCBanner   == <<1, 2>>
MCOnline   == <<3>>
MCClean    == <<4>>
MCFailed   == <<5>>
MCCopyFailed  == <<6>>
MCWriteFailed == <<7>>
MCInitMsg  == <<8, NewLine>>
MCInitPath == <<2>>
MCInitMotd == <<6, 7, 1, NewLine>>

MCNode   == {InitImage.nodes[1]}
MCTables == {InitImage.nodes, << >>}
MCImages == {InitImage, [InitImage EXCEPT !.nodes = << >>],
             [InitImage EXCEPT !.memory = @ \o InitImage.memory]}

Exits(status) == [InitOps[6] EXCEPT !.status = status]
OutOfRange    == [InitOps[1] EXCEPT !.offset = MemorySize]
MCOp == {InitOps[i] : i \in DOMAIN InitOps} \cup {Exits(1), OutOfRange}

Program(image, ops, prints, clean) ==
    [image |-> image, ops |-> ops, prints |-> prints, clean |-> clean]

(* The first is the one kuser_init_program returns.                        *)
MCPrograms ==
    LET noFile   == [InitImage EXCEPT !.nodes = << >>]
        tooLarge == [InitImage EXCEPT !.memory = @ \o InitImage.memory]
    IN  {Program(InitImage, InitOps, InitMsg \o InitShown, TRUE),
         Program(noFile, InitOps, InitMsg, FALSE),
         Program(tooLarge, InitOps, << >>, FALSE),
         Program(InitImage, SubSeq(InitOps, 1, 5), InitMsg \o InitShown, FALSE),
         Program(InitImage, <<InitOps[1], Exits(1)>>, InitMsg, FALSE),
         Program(InitImage, <<InitOps[1], OutOfRange, Exits(0)>>, InitMsg, FALSE),
         Program(InitImage, <<InitOps[2], Exits(0), InitOps[1]>>, << >>, TRUE)}

ASSUME InitSizesAssumption == InitSizes
=============================================================================
