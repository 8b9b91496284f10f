------------------------------ MODULE MCMicroVm -----------------------------
(***************************************************************************)
(* MiniFirecracker with the message of the program, byte by byte.          *)
(***************************************************************************)
EXTENDS MiniFirecracker

(* "hello from a tiny microVM\n"                                           *)
MCMessage ==
    <<104, 101, 108, 108, 111, 32,
      102, 114, 111, 109, 32,
      97, 32, 116, 105, 110, 121, 32,
      109, 105, 99, 114, 111, 86, 77, 10>>
=============================================================================
