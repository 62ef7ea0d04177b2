----------------------------- MODULE MCDcaColor -----------------------------
(* Four access points are enough for a neighbour graph that three channels *)
(* cannot colour, with each kind of access point among the others.  An     *)
(* access point hears each later one at one of two levels (below the       *)
(* minimum and inside the bisected range, or there and above the maximum)  *)
(* and is heard by it at none: tMatrix2Symmetric closes the gap.           *)
EXTENDS DcaColor

CONSTANT LevelSets

MCRssi ==
  {[v \in Vertices |-> [u \in Vertices |-> IF v < u THEN f[v][u] ELSE 0]] :
     f \in UNION {[0..N-2 -> [1..N-1 -> levels]] : levels \in LevelSets}}

\* Everybody takes part; two fixed; one jumped over between two others.
SomeKinds ==
  {[v \in Vertices |-> "auto"],
   [v \in Vertices |-> IF v \in {1, 3} THEN "fixed" ELSE "auto"],
   [v \in Vertices |-> IF v = 1 THEN "skipped" ELSE "auto"]}

AllOrders == {f \in [Slots -> Channels] : Permutation(f)}
TwoOrders == {f \in AllOrders : f[1] = 6}
=============================================================================
