------------------------- MODULE DcaThreshold_proofs -------------------------
(***************************************************************************)
(* The threshold search is correct for every value of its constants that   *)
(* satisfies ThresholdAssumption and for every graph (every limit).        *)
(***************************************************************************)
EXTENDS DcaThreshold, TLAPS

\* The search starts at the minimum with the whole range as its bracket.
LEMMA InitSearchInv == Init => SearchInv
<1> SUFFICES ASSUME Init PROVE SearchInv
  OBVIOUS
<1>1. ~done
  BY DEF Init
<1>2. TypeOK
  BY ThresholdAssumption DEF Init, TypeOK
<1>3. AtMini /\ ~AtMax
  BY ThresholdAssumption DEF Init, AtMini, AtMax
<1> QED
  BY <1>1, <1>2, <1>3 DEF SearchInv

\* Halving a bracket of at least two stays strictly inside it.
LEMMA Midpoint ==
  ASSUME NEW a \in Nat, NEW b \in Nat, a < b
  PROVE  /\ (a + b) \div 2 \in Nat
         /\ a <= (a + b) \div 2
         /\ (a + b) \div 2 < b
         /\ b - a >= 2 => a < (a + b) \div 2
         /\ b - a >= 4 => a + 1 < (a + b) \div 2
  OBVIOUS

\* One step per branch of a round.
LEMMA StepSearchInv == SearchInv /\ [Next]_vars => SearchInv'
<1> SUFFICES ASSUME SearchInv, [Next]_vars
             PROVE  SearchInv'
  OBVIOUS
<1> USE ThresholdAssumption
<1> USE DEF SearchInv, TypeOK, AtMini, AtMax, AboveMax, InBracket, Solvable
<1>1. ASSUME ~done, UNCHANGED limit, TryMax(Solvable(threshold))
      PROVE  SearchInv'
  BY <1>1 DEF TryMax
<1>2. ASSUME ~done, UNCHANGED limit, StepAboveMax(Solvable(threshold))
      PROVE  SearchInv'
  BY <1>2 DEF StepAboveMax
<1>3. ASSUME ~done, UNCHANGED limit, MoveToEnd(Solvable(threshold))
      PROVE  SearchInv'
  <2>1. InBracket /\ threshold = (rssiStart + rssiEnd) \div 2
    BY <1>3 DEF MoveToEnd
  <2>2. rssiEnd - rssiStart < 2
    BY <1>3, <2>1, Midpoint DEF MoveToEnd
  <2> QED
    BY <1>3, <2>1, <2>2 DEF MoveToEnd
<1>4. ASSUME ~done, UNCHANGED limit, BisectUp(Solvable(threshold))
      PROVE  SearchInv'
  <2>1. InBracket /\ threshold = (rssiStart + rssiEnd) \div 2
    BY <1>4 DEF BisectUp
  <2>2. threshold < rssiEnd
    BY <2>1, Midpoint
  <2>3. threshold' \in Nat /\ threshold <= threshold' /\ threshold' <= rssiEnd
    BY <1>4, <2>1, <2>2, Midpoint DEF BisectUp
  <2> QED
    BY <1>4, <2>1, <2>2, <2>3 DEF BisectUp
<1>5. ASSUME ~done, UNCHANGED limit, Accept(Solvable(threshold))
      PROVE  SearchInv'
  BY <1>5 DEF Accept
<1>6. ASSUME ~done, UNCHANGED limit, BisectDown(Solvable(threshold))
      PROVE  SearchInv'
  <2>1. CASE AtMax
    <3>1. rssiStart + 1 < (rssiStart + threshold) \div 2
      BY <1>6, <2>1, Midpoint DEF BisectDown
    <3> QED
      BY <1>6, <2>1, <3>1 DEF BisectDown
  <2>2. CASE InBracket /\ threshold = (rssiStart + rssiEnd) \div 2
    <3>1. rssiStart + 1 < threshold /\ threshold < rssiEnd
      BY <1>6, <2>2, Midpoint DEF BisectDown
    <3>2. rssiStart < (rssiStart + threshold) \div 2
           /\ (rssiStart + threshold) \div 2 \in Nat
      BY <3>1, Midpoint
    <3> QED
      BY <1>6, <2>2, <3>1, <3>2 DEF BisectDown
  <2> QED
    BY <1>6, <2>1, <2>2 DEF BisectDown
<1>7. CASE UNCHANGED vars
  BY <1>7 DEF vars
<1> QED
  BY <1>1, <1>2, <1>3, <1>4, <1>5, <1>6, <1>7
  DEF Next, Round, Decide, Finished

\* The search always stands at the minimum, at the maximum, above it, or in
\* a bracket with an unsolvable lower and a solvable upper end (the loop at
\* dcs.c:4609-4753).
THEOREM SearchInvariant == Spec => []SearchInv
  BY InitSearchInv, StepSearchInv, PTL DEF Spec

\* The threshold the loop is left with has a colouring, and one lower by the
\* stop interval has none.
THEOREM TightThreshold == Spec => []ThresholdIsTight
<1>1. SearchInv => ThresholdIsTight
  BY ThresholdAssumption
  DEF SearchInv, TypeOK, AtMini, AtMax, AboveMax, InBracket, Solvable,
      ThresholdIsTight
<1> QED
  BY <1>1, SearchInvariant, PTL

\* Every round lowers Rank, a natural number, so no behaviour has infinitely
\* many rounds: the loop has no "dead loop" (comment at dcs.c:4647).
THEOREM NoDeadLoop == Spec => EveryRoundProgresses
<1>1. SearchInv /\ SearchInv' /\ [Next]_vars
        => [Rank' < Rank /\ Rank' \in Nat]_vars
  <2> SUFFICES ASSUME SearchInv, SearchInv', Round
               PROVE  Rank' < Rank /\ Rank' \in Nat
    BY DEF Next, Finished
  <2> USE ThresholdAssumption
  <2> USE DEF Round, SearchInv, TypeOK, AtMini, AtMax, AboveMax, InBracket,
              Solvable, Rank, Bracket
  <2>1. CASE TryMax(Solvable(threshold))
    BY <2>1 DEF TryMax
  <2>2. CASE StepAboveMax(Solvable(threshold))
    BY <2>2 DEF StepAboveMax
  <2>3. CASE MoveToEnd(Solvable(threshold))
    BY <2>3, Midpoint DEF MoveToEnd
  <2>4. CASE BisectUp(Solvable(threshold))
    BY <2>4, Midpoint DEF BisectUp
  <2>5. CASE Accept(Solvable(threshold))
    BY <2>5, Midpoint DEF Accept
  <2>6. CASE BisectDown(Solvable(threshold))
    BY <2>6, Midpoint DEF BisectDown
  <2> QED
    BY <2>1, <2>2, <2>3, <2>4, <2>5, <2>6 DEF Decide
<1> QED
  BY <1>1, SearchInvariant, PTL DEF Spec, EveryRoundProgresses
=============================================================================
