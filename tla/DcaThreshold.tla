---------------------------- MODULE DcaThreshold ----------------------------
(***************************************************************************)
(* The search for an RSSI threshold in calculateChannelTask (src/DCS/      *)
(* dcs.c).  Two access points are neighbours when one hears the other      *)
(* above the threshold; a round colours the neighbour graph with three     *)
(* channels and the search looks for a low threshold that still has a      *)
(* colouring: first the minimum, then the maximum, then by bisection       *)
(* below the maximum or in fixed steps above it.                           *)
(*                                                                         *)
(* This module is what the search promises, with a round taken as one      *)
(* step whose verdict is Solvable: raising the threshold only removes      *)
(* edges, so the solvable thresholds are those from some limit on.         *)
(* DcaColor runs the rounds themselves and implements this module.         *)
(***************************************************************************)
EXTENDS Integers

CONSTANTS
  Mini,          \* RSSI_THRESHOLD_MINI
  Max,           \* RSSI_THRESHOLD_MAX
  Delta,         \* RSSI_THRESHOLD_DELTA
  StopInterval,  \* RSSI_STOP_INTERVAL
  Limits         \* the least solvable thresholds considered

\* StopInterval >= 4 is what the code needs of its 5: with 3 the bisection
\* may come back to Mini, and the first branch of a round then sends it to
\* Max again, for ever.
ASSUME ThresholdAssumption ==
  /\ Mini \in Nat /\ Max \in Nat /\ Delta \in Nat /\ StopInterval \in Nat
  /\ StopInterval >= 4
  /\ Max >= Mini + StopInterval
  /\ Delta >= 1
  /\ Limits \subseteq Nat

VARIABLES
  limit,      \* the least solvable threshold of this calculation
  rssiStart, rssiEnd,
  threshold,  \* headDCA.m_rssiCurThreshold
  done        \* the loop has been left by a break

vars == <<limit, rssiStart, rssiEnd, threshold, done>>

Solvable(t) == t >= limit

Init ==
  /\ limit \in Limits
  /\ rssiStart = Mini
  /\ rssiEnd = Max
  /\ threshold = Mini
  /\ done = FALSE
-----------------------------------------------------------------------------
(* The branches of a round, as functions of the verdict on it.             *)

\* No solution at the minimum: try the maximum.
TryMax(solved) ==
  /\ ~solved
  /\ threshold = Mini
  /\ threshold' = Max
  /\ UNCHANGED <<rssiStart, rssiEnd, done>>

\* No solution at the maximum or above it: a fixed step up.
StepAboveMax(solved) ==
  /\ ~solved
  /\ threshold # Mini /\ threshold >= Max
  /\ rssiStart' = threshold
  /\ threshold' = threshold + Delta
  /\ UNCHANGED <<rssiEnd, done>>

\* No solution and the bracket cannot be halved any more: take its upper end.
MoveToEnd(solved) ==
  /\ ~solved
  /\ threshold > Mini /\ threshold < Max
  /\ rssiStart = threshold
  /\ threshold' = rssiEnd
  /\ UNCHANGED <<rssiStart, rssiEnd, done>>

\* No solution inside the bracket: keep its upper half.
BisectUp(solved) ==
  /\ ~solved
  /\ threshold > Mini /\ threshold < Max
  /\ rssiStart # threshold
  /\ rssiStart' = threshold
  /\ threshold' = (threshold + rssiEnd) \div 2
  /\ UNCHANGED <<rssiEnd, done>>

\* Mutation: any solution is good enough.
AcceptAny(solved) ==
  /\ solved
  /\ done' = TRUE
  /\ UNCHANGED <<rssiStart, rssiEnd, threshold>>

\* A solution at the minimum, or in a bracket that is narrow enough.
Accept(solved) ==
  /\ solved
  /\ threshold = Mini \/ rssiEnd - rssiStart < StopInterval
  /\ done' = TRUE
  /\ UNCHANGED <<rssiStart, rssiEnd, threshold>>

\* Mutation: the upper end is not moved.
BisectDownKeepsEnd(solved) ==
  /\ solved
  /\ threshold # Mini
  /\ rssiEnd - rssiStart >= StopInterval
  /\ threshold' = (rssiStart + threshold) \div 2
  /\ UNCHANGED <<rssiStart, rssiEnd, done>>

\* A solution in a wide bracket: keep its lower half.
BisectDown(solved) ==
  /\ solved
  /\ threshold # Mini
  /\ rssiEnd - rssiStart >= StopInterval
  /\ rssiEnd' = threshold
  /\ threshold' = (rssiStart + threshold) \div 2
  /\ UNCHANGED <<rssiStart, done>>

\* The end of a round: the code after giveOneAssign has returned.
Decide(solved) ==
  \/ TryMax(solved)
  \/ StepAboveMax(solved)
  \/ MoveToEnd(solved)
  \/ BisectUp(solved)
  \/ Accept(solved)
  \/ BisectDown(solved)

Round ==
  /\ ~done
  /\ Decide(Solvable(threshold))
  /\ UNCHANGED limit

\* The loop has been left; the rest of the calculation is not this module's.
Finished == done /\ UNCHANGED vars

Next == Round \/ Finished

Spec == Init /\ [][Next]_vars
-----------------------------------------------------------------------------
TypeOK ==
  /\ limit \in Nat
  /\ rssiStart \in Nat /\ rssiEnd \in Nat /\ threshold \in Nat
  /\ done \in BOOLEAN

\* Where the search stands: at the minimum, at the maximum, above it, or in
\* a bracket whose lower end is known unsolvable and upper end solvable.
AtMini == threshold = Mini /\ rssiStart = Mini /\ rssiEnd = Max
AtMax  == threshold = Max /\ rssiStart = Mini /\ rssiEnd = Max
AboveMax ==
  /\ rssiEnd = Max /\ rssiStart >= Max
  /\ threshold = rssiStart + Delta
  /\ ~Solvable(rssiStart)
InBracket ==
  /\ Mini <= rssiStart /\ rssiStart < rssiEnd /\ rssiEnd <= Max
  /\ ~Solvable(rssiStart) /\ Solvable(rssiEnd)
  /\ threshold > Mini
  /\ \/ threshold = (rssiStart + rssiEnd) \div 2
     \/ threshold = rssiEnd /\ rssiEnd - rssiStart < StopInterval

\* The inductive invariant of the search.
SearchInv ==
  /\ TypeOK
  /\ AtMini \/ AtMax \/ AboveMax \/ InBracket
  /\ AtMax => ~Solvable(Mini)
  /\ done => Solvable(threshold)
             /\ (threshold = Mini \/ rssiEnd - rssiStart < StopInterval)

\* What the calculation goes on to use: when the loop is left the threshold
\* in force has a colouring, and no threshold that is lower by the stop
\* interval has one (by Delta, when even the maximum has none).
ThresholdIsTight ==
  done => /\ Solvable(threshold)
          /\ threshold # Mini =>
               ~Solvable(threshold - (IF Solvable(Max) THEN StopInterval
                                                       ELSE Delta))

\* How much is left to do.  Every round makes it smaller, which is why "the
\* program enter into dead loop" (comment at dcs.c:4647) does not happen.
Bracket ==
  3 * (rssiEnd - rssiStart)
    + (IF threshold # rssiEnd THEN 2
       ELSE IF rssiEnd - rssiStart >= StopInterval THEN 3 ELSE 1)

Rank ==
  IF done THEN 0
  ELSE IF threshold = Mini THEN 3 * (Max - Mini) + limit + 4
  ELSE IF rssiStart >= Max
       THEN IF Solvable(threshold) THEN 1 ELSE limit - threshold + 1
  ELSE Bracket + limit

\* Every round of the loop brings its end nearer: no threshold is tried for
\* ever, whatever the graph is.
EveryRoundProgresses == [][Rank' < Rank /\ Rank' \in Nat]_vars

=============================================================================
