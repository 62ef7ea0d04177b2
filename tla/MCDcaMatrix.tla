---------------------------- MODULE MCDcaMatrix -----------------------------
(* Three access points and a few changes of the list, so that nodes come   *)
(* and go between calculations and, within one, after the matrix was set   *)
(* up.                                                                     *)
EXTENDS DcaMatrix

Alike == Permutations(AP)
=============================================================================
