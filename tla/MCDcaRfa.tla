------------------------------ MODULE MCDcaRfa ------------------------------
(* A scan hears nothing, or up to two stations on any channels at one of   *)
(* two levels; up to two earlier vertices have one of the three channels, *)
(* or a channel of their own (0).                                          *)
EXTENDS DcaRfa

Pairs(S) == {{}} \cup {{s, t} : s \in S, t \in S}

MCScans    == Pairs([ch : {1, 6, 10}, rssi : {30, 80}])
MCAssigned == Pairs([ch : {0, 1, 6, 11}, rssi : {50}])
=============================================================================
