--------------------------- MODULE MCFileStorage ---------------------------
(* Two callers of two calls each, two names and three nodes.               *)
EXTENDS FileStorage
=============================================================================
