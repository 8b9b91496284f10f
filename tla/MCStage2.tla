-------------------------------- MODULE MCStage2 ----------------------------
(***************************************************************************)
(* A buffer of four cells, and commands of one to three characters, some   *)
(* of which begin with another.                                            *)
(***************************************************************************)
EXTENDS Stage2Monitor

CONSTANTS h, b

MCPrompt == <<h, Blank>>
MCName   == [help |-> <<h>>, about |-> <<h, b>>, clear |-> <<b, h, h>>,
             halt |-> <<b>>, reboot |-> <<b, b>>]
=============================================================================
