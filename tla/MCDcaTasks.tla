----------------------------- MODULE MCDcaTasks -----------------------------
(* Two access points: one to scan after another, and one to come or go     *)
(* while the other is being scanned.                                       *)
EXTENDS DcaTasks, TLC

Alike == Permutations(AP)
=============================================================================
