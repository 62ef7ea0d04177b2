--------------------------- MODULE MCDcaThreshold ---------------------------
(* The search with the code's own constants, for every limit up to 150.    *)
EXTENDS DcaThreshold

MCLimits == 0..150
=============================================================================
