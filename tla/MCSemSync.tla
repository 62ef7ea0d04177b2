----------------------------- MODULE MCSemSync -----------------------------
(***************************************************************************)
(* processB and processC, in the order processA signals them, or the one   *)
(* daemon.  No more than three semaphores are ever open at a time.         *)
(***************************************************************************)
EXTENDS SemSync

CONSTANTS B, C

MCProcs == <<B, C>>

=============================================================================
