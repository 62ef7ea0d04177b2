----------------------------- MODULE MCSysQueue -----------------------------
(* Two lists and four elements for SysQueue.                               *)
EXTENDS SysQueue
=============================================================================
