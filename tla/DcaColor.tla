------------------------------ MODULE DcaColor ------------------------------
(***************************************************************************)
(* A calculation of calculateChannelTask (src/DCS/dcs.c) once the scan is  *)
(* over: rounds that derive the neighbour matrix from the RSSI matrix and  *)
(* the current threshold, colour it by backtracking (giveOneAssign) and    *)
(* move the threshold, until the loop is left.                             *)
(*                                                                         *)
(* The recursion of giveOneAssign is the pair (vertex, colorIndex): vertex *)
(* is its depth and colorIndex[v] the loop counter of the frame at depth   *)
(* v.  doRfa, which orders the three channels of a vertex by their         *)
(* interference score each time a frame is entered, is any of Orders.      *)
(***************************************************************************)
EXTENDS Integers

CONSTANTS
  N,                             \* headDCA.slList.count
  Mini, Max, Delta, StopInterval,
  RssiMatrices,                  \* the RSSI matrices considered
  Kinds,                         \* the assignments of a kind to each vertex
  Orders                         \* the channel orders considered

Vertices == 0 .. N-1
Slots    == 0 .. 2               \* OPTIONAL_CHANNEL_NUM is 3
Channels == {1, 6, 11}
FixedColor == 0                  \* optionalCh of a vertex on a fixed channel
NoColor    == 255                \* 0xff: the vertex is jumped over

\* A vertex takes part with its three channels ("auto"), takes part on the
\* channel its user fixed ("fixed"), or is jumped over: DCA disabled, not
\* operational, or no scan result ("skipped").
Kind == {"auto", "fixed", "skipped"}

Permutation(f) == f \in [Slots -> Channels] /\ \A c \in Channels : \E i \in Slots : f[i] = c

ASSUME ColorAssumption ==
  /\ N \in Nat \ {0}
  /\ Mini \in Nat /\ Max \in Nat /\ Delta \in Nat /\ StopInterval \in Nat
  /\ StopInterval >= 4 /\ Max >= Mini + StopInterval /\ Delta >= 1
  /\ RssiMatrices \subseteq [Vertices -> [Vertices -> Nat]]
  /\ Kinds \subseteq [Vertices -> Kind]
  /\ Orders # {}
  /\ \A f \in Orders : Permutation(f)

VARIABLES
  rssi,        \* headDCA.pRSSIMatrix after the scan
  kind,
  limit,       \* history: the least threshold that has a colouring
  rssiStart, rssiEnd, threshold, done,
  pc,          \* "setup", "assign" or "decide": the part of the round
  adjacent,    \* headDCA.pAdjacentMatrix
  vertex, colorIndex,
  optionalCh,  \* the channels of each vertex in the order they are tried
  color,       \* pVertexColor
  schemeCnt

search == <<rssiStart, rssiEnd, threshold, done>>
frames == <<vertex, colorIndex, optionalCh, color, schemeCnt>>
vars   == <<rssi, kind, limit, search, pc, adjacent, frames>>

\* The search this module implements.
T == INSTANCE DcaThreshold WITH Limits <- Nat
-----------------------------------------------------------------------------
\* Mutation: tMatrix2Symmetric is not called.
OneSidedNeighbours(t) ==
  [v \in Vertices |-> [u \in Vertices |-> rssi[v][u] > t]]

\* The matrix comparison at dcs.c:4623 followed by tMatrix2Symmetric.
Neighbours(t) ==
  [v \in Vertices |-> [u \in Vertices |-> rssi[v][u] > t \/ rssi[u][v] > t]]

(* What a colouring is, independently of the backtracking.                 *)
Allowed(v) ==
  IF kind[v] = "auto" THEN Channels
  ELSE IF kind[v] = "fixed" THEN {FixedColor} ELSE {NoColor}

Colors == Channels \cup {FixedColor, NoColor}

Proper(c, adj) ==
  /\ \A v \in Vertices : c[v] \in Allowed(v)
  /\ \A v \in Vertices : \A u \in 0 .. v-1 :
        kind[v] # "skipped" /\ adj[v][u] => c[u] # c[v]

Colourable(t) == \E c \in [Vertices -> Colors] : Proper(c, Neighbours(t))

\* The thresholds from the least colourable one on are the colourable ones,
\* and only a value of the matrix can be the first that removes an edge.
LeastColourable ==
  {t \in {0} \cup {rssi[v][u] : v \in Vertices, u \in Vertices} :
     Colourable(t) /\ (t = 0 \/ ~Colourable(t - 1))}
-----------------------------------------------------------------------------
Init ==
  /\ rssi \in RssiMatrices
  /\ kind \in Kinds
  /\ limit \in LeastColourable
  /\ rssiStart = Mini /\ rssiEnd = Max /\ threshold = Mini /\ done = FALSE
  /\ pc = "setup"
  /\ adjacent = [v \in Vertices |-> [u \in Vertices |-> FALSE]]
  /\ vertex = 0
  /\ colorIndex = [v \in Vertices |-> 0]
  \* the scan has left each vertex its channels (dcs.c:4545-4573)
  /\ \E f \in Orders :
       optionalCh = [v \in Vertices |->
                       IF kind[v] = "fixed" THEN [i \in Slots |-> FixedColor] ELSE f]
  /\ color = [v \in Vertices |-> 0]
  /\ schemeCnt = 0

\* memsetAdjacentMatrix, the comparison with the threshold, tMatrix2Symmetric,
\* memsetColorScheme, and the call of giveOneAssign for vertex 0.
StartRound ==
  /\ pc = "setup" /\ ~done
  /\ adjacent' = Neighbours(threshold)
  /\ color' = [v \in Vertices |-> 0]
  /\ schemeCnt' = 0
  /\ vertex' = 0
  /\ colorIndex' = [colorIndex EXCEPT ![0] = 0]
  /\ pc' = "assign"
  /\ UNCHANGED <<rssi, kind, limit, search, optionalCh>>

\* Mutation: the vertex just before is not looked at.
isColorOkButLast(v, c) == \A u \in 0 .. v-2 : ~(adjacent[v][u] /\ c = color[u])

isColorOk(v, c) == \A u \in 0 .. v-1 : ~(adjacent[v][u] /\ c = color[u])

\* The recursive call for v+1: its frame starts its loop at 0, after doRfa
\* has ordered the channels of a vertex that takes part.
Descend(v) ==
  /\ vertex' = v + 1
  /\ IF v + 1 < N
     THEN /\ colorIndex' = [colorIndex EXCEPT ![v+1] = 0]
          /\ IF kind[v+1] = "auto"
             THEN \E f \in Orders : optionalCh' = [optionalCh EXCEPT ![v+1] = f]
             ELSE UNCHANGED optionalCh
     ELSE UNCHANGED <<colorIndex, optionalCh>>

\* The vertex takes the channel of this iteration and its frame recurses.
TakeColor ==
  LET v == vertex
      c == optionalCh[v][colorIndex[v]]
  IN /\ pc = "assign" /\ v < N
     /\ kind[v] # "skipped"
     /\ colorIndex[v] \in Slots
     /\ isColorOk(v, c)
     /\ color' = [color EXCEPT ![v] = c]
     /\ Descend(v)
     /\ UNCHANGED <<rssi, kind, limit, search, pc, adjacent, schemeCnt>>

\* A neighbour before it has the channel: the next iteration.
RejectColor ==
  LET v == vertex
  IN /\ pc = "assign" /\ v < N
     /\ kind[v] # "skipped"
     /\ colorIndex[v] \in Slots
     /\ ~isColorOk(v, optionalCh[v][colorIndex[v]])
     /\ colorIndex' = [colorIndex EXCEPT ![v] = @ + 1]
     /\ UNCHANGED <<rssi, kind, limit, search, pc, adjacent, vertex, optionalCh,
                    color, schemeCnt>>

\* A vertex that does not take part is marked and jumped over.
JumpOver ==
  LET v == vertex
  IN /\ pc = "assign" /\ v < N
     /\ kind[v] = "skipped"
     /\ colorIndex[v] = 0
     /\ color' = [color EXCEPT ![v] = NoColor]
     /\ Descend(v)
     /\ UNCHANGED <<rssi, kind, limit, search, pc, adjacent, schemeCnt>>

\* Mutation: the caller gives up as well.
BacktrackToRoot ==
  LET v == vertex - 1
  IN /\ pc = "assign"
     /\ vertex > 0 /\ vertex < N
     /\ colorIndex[vertex] = 3
     /\ vertex' = v
     /\ colorIndex' = [colorIndex EXCEPT ![v] = 3]
     /\ UNCHANGED <<rssi, kind, limit, search, pc, adjacent, optionalCh, color, schemeCnt>>

\* Mutation: the caller repeats its iteration.
BacktrackRepeats ==
  LET v == vertex - 1
  IN /\ pc = "assign"
     /\ vertex > 0 /\ vertex < N
     /\ colorIndex[vertex] = 3
     /\ vertex' = v
     /\ UNCHANGED <<rssi, kind, limit, search, pc, adjacent, colorIndex, optionalCh, color, schemeCnt>>

\* The frame's loop is over without a solution: back in the caller's frame,
\* whose loop goes on, or is left by the break of a vertex jumped over.
Backtrack ==
  LET v == vertex - 1
  IN /\ pc = "assign"
     /\ vertex > 0 /\ vertex < N
     /\ colorIndex[vertex] = 3
     /\ vertex' = v
     /\ colorIndex' = [colorIndex EXCEPT ![v] = IF kind[v] = "skipped" THEN 3 ELSE @ + 1]
     /\ UNCHANGED <<rssi, kind, limit, search, pc, adjacent, optionalCh, color, schemeCnt>>

\* All vertices have a colour: schemeCnt ends the loop of every frame.
Found ==
  /\ pc = "assign" /\ vertex = N
  /\ schemeCnt' = schemeCnt + 1
  /\ pc' = "decide"
  /\ UNCHANGED <<rssi, kind, limit, search, adjacent, vertex, colorIndex, optionalCh, color>>

\* The outermost frame returns with schemeCnt still 0.
Exhausted ==
  /\ pc = "assign" /\ vertex = 0
  /\ colorIndex[0] = 3
  /\ pc' = "decide"
  /\ UNCHANGED <<rssi, kind, limit, search, adjacent, frames>>

\* The rest of the round: leave the loop or try another threshold.
Decide ==
  /\ pc = "decide" /\ ~done
  /\ T!Decide(schemeCnt > 0)
  /\ pc' = IF done' THEN "end" ELSE "setup"
  /\ UNCHANGED <<rssi, kind, limit, adjacent, frames>>

Finished == pc = "end" /\ UNCHANGED vars

Step == StartRound \/ TakeColor \/ RejectColor \/ JumpOver \/ Backtrack
          \/ Found \/ Exhausted \/ Decide

Next == Step \/ Finished

Spec == Init /\ [][Next]_vars

\* One task, no call that waits.
FairSpec == Spec /\ WF_vars(Step)
-----------------------------------------------------------------------------
TypeOK ==
  /\ rssi \in [Vertices -> [Vertices -> Nat]]
  /\ kind \in [Vertices -> Kind]
  /\ rssiStart \in Nat /\ rssiEnd \in Nat /\ threshold \in Nat
  /\ done \in BOOLEAN
  /\ pc \in {"setup", "assign", "decide", "end"}
  /\ adjacent \in [Vertices -> [Vertices -> BOOLEAN]]
  /\ vertex \in 0 .. N
  /\ colorIndex \in [Vertices -> 0..3]
  /\ optionalCh \in [Vertices -> [Slots -> Channels \cup {FixedColor}]]
  /\ color \in [Vertices -> Colors]
  /\ schemeCnt \in 0..1

\* The channels a frame offers its vertex are all it may have.
OrdersInv ==
  \A v \in Vertices :
    /\ kind[v] = "auto" => Permutation(optionalCh[v])
    /\ kind[v] = "fixed" => optionalCh[v] = [i \in Slots |-> FixedColor]

\* The frames below the current one hold the colour of their iteration, and
\* it fits the vertices before them.
PrefixInv ==
  \A v \in 0 .. vertex-1 :
    /\ color[v] \in Allowed(v)
    /\ kind[v] # "skipped" =>
         /\ colorIndex[v] \in Slots
         /\ color[v] = optionalCh[v][colorIndex[v]]
         /\ isColorOk(v, color[v])

\* Colouring c is still ahead of the backtracking: it leaves the current
\* branch in frame v, for an iteration that frame has not made yet.
Ahead(c, v) ==
  /\ \A u \in 0 .. v-1 : c[u] = color[u]
  /\ v < N =>
       IF kind[v] = "skipped"
       THEN v = vertex /\ colorIndex[v] = 0
       ELSE \E i \in Slots :
              /\ c[v] = optionalCh[v][i]
              /\ IF v = vertex THEN i >= colorIndex[v] ELSE i > colorIndex[v]

NothingMissed ==
  \A c \in [Vertices -> Colors] :
    Proper(c, adjacent) => \E v \in 0 .. vertex : Ahead(c, v)

\* The inductive invariant of the backtracking.
AssignInv ==
  /\ OrdersInv
  /\ pc = "assign" =>
       /\ adjacent = Neighbours(threshold)
       /\ schemeCnt = 0
       /\ ~done
       /\ PrefixInv
       /\ NothingMissed

\* giveOneAssign is sound and complete (dcs.c:3333-3475): when a round is
\* over it has found a scheme exactly if the neighbour graph of the threshold
\* has a colouring, whatever orders doRfa has put the channels in; and what
\* it has found is a colouring.
VerdictIsExact ==
  /\ pc = "decide" => (schemeCnt > 0 <=> Colourable(threshold))
  /\ (pc = "decide" /\ schemeCnt > 0) \/ pc = "end" =>
       Proper(color, Neighbours(threshold))

\* The channels that setPowerOrCh then sends (dcs.c:4759): no two access
\* points of which one hears the other above the threshold share one.
NeighboursDiffer ==
  pc = "end" => \A u, v \in Vertices :
            u # v /\ (rssi[u][v] > threshold \/ rssi[v][u] > threshold)
              /\ {color[u], color[v]} \subseteq Channels
            => color[u] # color[v]

\* The threshold that decides who is a neighbour is low: the graph of one
\* that is lower by the stop interval has no colouring (by Delta, when even
\* the graph of the maximum has none).
TightColouring ==
  pc = "end" => /\ Colourable(threshold)
                /\ threshold # Mini =>
                     ~Colourable(threshold - (IF Colourable(Max) THEN StopInterval
                                                                 ELSE Delta))

\* The rounds implement the threshold search of DcaThreshold.
ImplementsSearch == T!Spec

\* The whole calculation ends.
CalculationEnds == <>(pc = "end")
=============================================================================
