----------------------------- MODULE MCFifoSync -----------------------------
(***************************************************************************)
(* Two slaves, as in master_process.c; the master and each slave can be    *)
(* started twice.                                                          *)
(***************************************************************************)
EXTENDS FifoSync
=============================================================================
