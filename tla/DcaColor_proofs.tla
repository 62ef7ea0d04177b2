--------------------------- MODULE DcaColor_proofs ---------------------------
(***************************************************************************)
(* The backtracking of giveOneAssign is sound and complete, and the rounds *)
(* implement the threshold search, for every number of access points,      *)
(* every RSSI matrix and every order of the channels.                      *)
(***************************************************************************)
EXTENDS DcaColor, TLAPS

\* What the invariant of the backtracking needs around it: the search has
\* been left exactly when the calculation is over.
RoundInv ==
  /\ TypeOK
  /\ AssignInv
  /\ VerdictIsExact
  /\ pc = "decide" => ~done
  /\ pc = "setup" => ~done
  /\ pc = "end" => done

-----------------------------------------------------------------------------
(* Facts about single definitions.                                         *)

\* A frame offers its vertex exactly the colours the vertex may have.
Offers(v) ==
  /\ \A i \in Slots : optionalCh[v][i] \in Allowed(v)
  /\ \A x \in Allowed(v) : \E i \in Slots : x = optionalCh[v][i]

AllOffered == \A v \in Vertices : kind[v] # "skipped" => Offers(v)

\* The frames of the vertices that take part offer what they may have.
LEMMA OfferedIsAllowed == TypeOK /\ OrdersInv => AllOffered
<1> SUFFICES ASSUME TypeOK, OrdersInv, NEW v \in Vertices, kind[v] # "skipped"
             PROVE  Offers(v)
  BY DEF AllOffered
<1>1. kind[v] \in Kind
  BY DEF TypeOK
<1>2. CASE kind[v] = "auto"
  <2>1. Permutation(optionalCh[v])
    BY <1>2 DEF OrdersInv
  <2>2. Allowed(v) = Channels
    BY <1>2 DEF Allowed
  <2> QED
    BY <2>1, <2>2 DEF Permutation, Offers
<1>3. CASE kind[v] = "fixed"
  <2>1. optionalCh[v] = [i \in Slots |-> FixedColor]
    BY <1>3 DEF OrdersInv
  <2>2. Allowed(v) = {FixedColor}
    BY <1>3 DEF Allowed
  <2>3. 0 \in Slots
    BY DEF Slots
  <2> QED
    BY <2>1, <2>2, <2>3 DEF Offers
<1> QED
  BY <1>1, <1>2, <1>3 DEF Kind

\* The same in the next state.
LEMMA OfferedIsAllowedNext == TypeOK' /\ OrdersInv' => AllOffered'
  BY OfferedIsAllowed, PTL

\* A colour that a vertex may have is a colour.
LEMMA AllowedIsColor ==
  ASSUME TypeOK, NEW v \in Vertices
  PROVE  Allowed(v) \subseteq Colors
  BY DEF TypeOK, Kind, Allowed, Colors

\* A higher threshold has no neighbours that a lower one does not have.
LEMMA ColourableMonotone ==
  ASSUME TypeOK, NEW s \in Int, NEW t \in Int, s <= t, Colourable(s)
  PROVE  Colourable(t)
<1>1. PICK c \in [Vertices -> Colors] : Proper(c, Neighbours(s))
  BY DEF Colourable
<1>2. ASSUME NEW v \in Vertices, NEW u \in Vertices, Neighbours(t)[v][u]
      PROVE  Neighbours(s)[v][u]
  <2>1. rssi[v][u] > t \/ rssi[u][v] > t
    BY <1>2 DEF Neighbours
  <2>2. rssi[v][u] \in Nat /\ rssi[u][v] \in Nat
    BY DEF TypeOK
  <2>3. rssi[v][u] > s \/ rssi[u][v] > s
    BY <2>1, <2>2
  <2>. QED
    BY <2>3 DEF Neighbours
<1>3. \A v \in Vertices : 0 .. v-1 \subseteq Vertices
  BY ColorAssumption DEF Vertices
<1>4. Proper(c, Neighbours(t))
  BY <1>1, <1>2, <1>3 DEF Proper
<1> QED
  BY <1>1, <1>4 DEF Colourable
-----------------------------------------------------------------------------
(* One lemma per action.                                                   *)

\* The initial states satisfy the invariant.
LEMMA InitRoundInv == Init => RoundInv
<1> SUFFICES ASSUME Init PROVE RoundInv
  OBVIOUS
<1>1. PICK f \in Orders :
        optionalCh = [v \in Vertices |->
                        IF kind[v] = "fixed" THEN [i \in Slots |-> FixedColor] ELSE f]
  BY DEF Init
<1>2. Permutation(f)
  BY ColorAssumption
<1>3. TypeOK
  <2>1. optionalCh \in [Vertices -> [Slots -> Channels \cup {FixedColor}]]
    BY <1>1, <1>2 DEF Permutation
  <2>2. rssi \in [Vertices -> [Vertices -> Nat]] /\ kind \in [Vertices -> Kind]
    BY ColorAssumption DEF Init
  <2>3. rssiStart \in Nat /\ rssiEnd \in Nat /\ threshold \in Nat /\ vertex \in 0 .. N
    BY ColorAssumption DEF Init
  <2>4. color \in [Vertices -> Colors] /\ colorIndex \in [Vertices -> 0..3]
    BY DEF Init, Colors, FixedColor
  <2>5. adjacent \in [Vertices -> [Vertices -> BOOLEAN]]
    BY Zenon DEF Init
  <2>6. done \in BOOLEAN /\ pc \in {"setup", "assign", "decide", "end"}
    BY Zenon DEF Init
  <2>7. schemeCnt \in 0 .. 1
    BY DEF Init
  <2> QED
    BY <2>1, <2>2, <2>3, <2>4, <2>5, <2>6, <2>7 DEF TypeOK
<1>4. OrdersInv
  BY <1>1, <1>2 DEF OrdersInv
<1> QED
  BY <1>3, <1>4 DEF Init, RoundInv, AssignInv, VerdictIsExact

\* The first vertex exists, and those before a depth are vertices.
LEMMA VertexFacts ==
  /\ 0 \in Vertices
  /\ \A v \in 0 .. N : 0 .. v-1 \subseteq Vertices
  /\ \A v \in 0 .. N : v < N <=> v \in Vertices
  /\ Vertices \subseteq 0 .. N
  BY ColorAssumption DEF Vertices

\* A matrix of neighbours is a matrix of Booleans.
LEMMA NeighboursType ==
  ASSUME NEW t
  PROVE  Neighbours(t) \in [Vertices -> [Vertices -> BOOLEAN]]
  BY Zenon DEF Neighbours

\* What a colouring is depends on the matrix, the kinds and the threshold.
LEMMA SameColourings ==
  ASSUME rssi' = rssi, kind' = kind, threshold' = threshold
  PROVE  /\ Neighbours(threshold)' = Neighbours(threshold)
         /\ \A v : Allowed(v)' = Allowed(v)
         /\ \A c, adj : Proper(c, adj)' <=> Proper(c, adj)
         /\ Colourable(threshold)' <=> Colourable(threshold)
         /\ color' = color => (Proper(color, Neighbours(threshold))'
                                 <=> Proper(color, Neighbours(threshold)))
<1>1. Neighbours(threshold)' = Neighbours(threshold)
  BY Zenon DEF Neighbours
<1>2. \A v : Allowed(v)' = Allowed(v)
  BY DEF Allowed
<1>3. \A c, adj : Proper(c, adj)' <=> Proper(c, adj)
  BY <1>2 DEF Proper
<1>4. Colourable(threshold)' <=> Colourable(threshold)
  BY <1>1, <1>2 DEF Colourable, Proper
<1>5. color' = color => (Proper(color, Neighbours(threshold))'
                           <=> Proper(color, Neighbours(threshold)))
  BY <1>1, <1>2 DEF Proper
<1> QED
  BY <1>1, <1>2, <1>3, <1>4, <1>5

\* A round starts with every colouring ahead: the frame of vertex 0 has made
\* no iteration.
LEMMA StartRoundInv ==
  ASSUME RoundInv, StartRound
  PROVE  RoundInv'
<1>1. TypeOK'
  <2>1. adjacent' \in [Vertices -> [Vertices -> BOOLEAN]]
    <3>1. adjacent' = Neighbours(threshold)
      BY DEF StartRound
    <3> QED
      BY <3>1, NeighboursType, Zenon
  <2>2. vertex' \in 0 .. N /\ schemeCnt' \in 0 .. 1
    BY ColorAssumption DEF StartRound
  <2>3. colorIndex' \in [Vertices -> 0 .. 3]
    <3>1. colorIndex' = [colorIndex EXCEPT ![0] = 0] /\ colorIndex \in [Vertices -> 0 .. 3]
      BY DEF StartRound, RoundInv, TypeOK
    <3>2. \A v \in Vertices : colorIndex'[v] \in 0 .. 3
      BY <3>1
    <3> QED
      BY <3>1, <3>2
  <2>4. color' \in [Vertices -> Colors]
    BY DEF StartRound, Colors, FixedColor
  <2>5. pc' \in {"setup", "assign", "decide", "end"}
    BY DEF StartRound
  <2> QED
    BY <2>1, <2>2, <2>3, <2>4, <2>5 DEF StartRound, RoundInv, TypeOK, search
<1>2. OrdersInv'
  BY DEF StartRound, RoundInv, AssignInv, OrdersInv
<1>3. AllOffered'
  BY <1>1, <1>2, OfferedIsAllowedNext
<1>4. NothingMissed'
  <2> SUFFICES ASSUME NEW c \in [Vertices -> Colors], Proper(c, adjacent)'
               PROVE  Ahead(c, 0)'
    BY ColorAssumption DEF NothingMissed, StartRound
  <2>1. c[0] \in Allowed(0)'
    BY VertexFacts DEF Proper
  <2>2. colorIndex'[0] = 0 /\ vertex' = 0
    BY VertexFacts DEF StartRound, RoundInv, TypeOK
  <2>3. \A i \in Slots : i >= 0
    BY DEF Slots
  <2>4. CASE kind'[0] = "skipped"
    BY <2>2, <2>4 DEF Ahead
  <2>5. CASE kind'[0] # "skipped"
    <3>1. \E i \in Slots : c[0] = optionalCh'[0][i]
      BY <1>3, <2>1, <2>5, VertexFacts DEF AllOffered, Offers
    <3> QED
      BY <2>2, <2>3, <2>5, <3>1 DEF Ahead
  <2> QED
    BY <2>4, <2>5
<1>5. PrefixInv'
  BY DEF PrefixInv, StartRound
<1>6. adjacent' = Neighbours(threshold)'
  BY DEF StartRound, Neighbours, search
<1>7. AssignInv'
  BY <1>2, <1>4, <1>5, <1>6 DEF AssignInv, StartRound, search
<1>8. VerdictIsExact'
  BY DEF VerdictIsExact, StartRound
<1> QED
  BY <1>1, <1>7, <1>8 DEF RoundInv, StartRound

\* What the frames know when all vertices have a colour: it is a colouring.
LEMMA FoundInv ==
  ASSUME RoundInv, Found
  PROVE  RoundInv'
<1>1. TypeOK'
  <2>1. schemeCnt' \in 0 .. 1 /\ pc' \in {"setup", "assign", "decide", "end"}
    BY DEF Found, RoundInv, AssignInv
  <2> QED
    BY <2>1 DEF Found, RoundInv, TypeOK, search
<1>2. AssignInv'
  BY DEF Found, RoundInv, AssignInv, OrdersInv
<1>3. Proper(color, Neighbours(threshold))
  <2>1. PrefixInv /\ vertex = N /\ adjacent = Neighbours(threshold)
    BY DEF Found, RoundInv, AssignInv
  <2>2. 0 .. vertex-1 = Vertices
    BY <2>1 DEF Vertices
  <2>3. \A v \in Vertices : color[v] \in Allowed(v)
    BY <2>1, <2>2 DEF PrefixInv
  <2>4. \A v \in Vertices : kind[v] # "skipped" => isColorOk(v, color[v])
    BY <2>1, <2>2 DEF PrefixInv
  <2> QED
    BY <2>1, <2>3, <2>4 DEF Proper, isColorOk
<1>4. Colourable(threshold)
  BY <1>3 DEF Colourable, RoundInv, TypeOK
<1>5. schemeCnt' > 0
  BY DEF Found, RoundInv, AssignInv
<1>6. Proper(color, Neighbours(threshold))' /\ Colourable(threshold)'
  <2>1. UNCHANGED <<rssi, kind, threshold, color>>
    BY DEF Found, search
  <2> QED
    BY <1>3, <1>4, <2>1, SameColourings
<1>7. VerdictIsExact'
  BY <1>5, <1>6 DEF VerdictIsExact, Found
<1> QED
  BY <1>1, <1>2, <1>7 DEF RoundInv, Found, AssignInv, search

\* A frame of vertex 0 that has made its three iterations has no colouring
\* ahead, so there is none.
LEMMA ExhaustedInv ==
  ASSUME RoundInv, Exhausted
  PROVE  RoundInv'
<1>1. TypeOK'
  BY DEF Exhausted, RoundInv, TypeOK, search, frames
<1>2. AssignInv'
  BY DEF Exhausted, RoundInv, AssignInv, OrdersInv, frames
<1>3. ASSUME NEW c \in [Vertices -> Colors], Proper(c, Neighbours(threshold))
      PROVE  FALSE
  <2>1. PICK v \in 0 .. vertex : Ahead(c, v)
    BY <1>3 DEF Exhausted, RoundInv, AssignInv, NothingMissed
  <2>2. v = 0 /\ v < N /\ colorIndex[v] = 3 /\ v = vertex
    BY ColorAssumption DEF Exhausted
  <2>3. \A i \in Slots : ~(i >= 3)
    BY DEF Slots
  <2> QED
    BY <2>1, <2>2, <2>3 DEF Ahead
<1>4. ~Colourable(threshold)
  BY <1>3 DEF Colourable
<1>5. schemeCnt' = 0 /\ pc' = "decide"
  BY DEF Exhausted, RoundInv, AssignInv, frames
<1>6. ~Colourable(threshold)'
  <2>1. UNCHANGED <<rssi, kind, threshold>>
    BY DEF Exhausted, search
  <2> QED
    BY <1>4, <2>1, SameColourings
<1>7. VerdictIsExact'
  BY <1>5, <1>6 DEF VerdictIsExact
<1> QED
  BY <1>1, <1>2, <1>7 DEF RoundInv, Exhausted, AssignInv, search

\* A function keeps its type when one of its values is replaced.
LEMMA IndexType ==
  ASSUME NEW f \in [Vertices -> 0 .. 3], NEW v, NEW x \in 0 .. 3
  PROVE  [f EXCEPT ![v] = x] \in [Vertices -> 0 .. 3]
<1>1. \A u \in Vertices : [f EXCEPT ![v] = x][u] \in 0 .. 3
  OBVIOUS
<1> QED
  BY <1>1

\* What every step inside a round leaves alone, and what is left to show.
LEMMA InsideRound ==
  ASSUME RoundInv, pc = "assign", TypeOK', OrdersInv', PrefixInv', NothingMissed',
         UNCHANGED <<rssi, kind, limit, search, pc, adjacent, schemeCnt>>
  PROVE  RoundInv'
<1>1. adjacent' = Neighbours(threshold)' /\ schemeCnt' = 0 /\ ~done'
  <2>1. rssi' = rssi /\ kind' = kind /\ threshold' = threshold
    BY DEF search
  <2>2. Neighbours(threshold)' = Neighbours(threshold)
    BY <2>1, SameColourings
  <2> QED
    BY <2>2 DEF RoundInv, AssignInv, search
<1>2. AssignInv'
  BY <1>1 DEF AssignInv
<1>3. VerdictIsExact'
  BY DEF VerdictIsExact
<1> QED
  BY <1>2, <1>3 DEF RoundInv

\* The colourings that take the rejected channel are not proper.
LEMMA RejectColorInv ==
  ASSUME RoundInv, RejectColor
  PROVE  RoundInv'
<1> DEFINE v == vertex
<1>1. v \in Vertices /\ colorIndex[v] \in Slots /\ kind[v] # "skipped" /\ v \in 0 .. N
  BY VertexFacts DEF RejectColor, RoundInv, TypeOK
<1>2. colorIndex' = [colorIndex EXCEPT ![v] = colorIndex[v] + 1]
  BY DEF RejectColor
<1>3. colorIndex \in [Vertices -> 0 .. 3] /\ colorIndex[v] + 1 \in 0 .. 3
  BY <1>1 DEF RoundInv, TypeOK, Slots
<1>4. UNCHANGED <<rssi, kind, limit, search, pc, adjacent, vertex, optionalCh, color, schemeCnt>>
  BY DEF RejectColor
<1>5. colorIndex'[v] = colorIndex[v] + 1 /\ \A u \in Vertices \ {v} : colorIndex'[u] = colorIndex[u]
  BY <1>1, <1>2, <1>3
<1>6. TypeOK'
  <2>1. colorIndex' \in [Vertices -> 0 .. 3]
    BY <1>2, <1>3, IndexType
  <2> QED
    BY <1>4, <2>1 DEF RoundInv, TypeOK, search
<1>7. OrdersInv'
  BY <1>4 DEF RoundInv, AssignInv, OrdersInv
<1>8. 0 .. v-1 \subseteq Vertices \ {v}
  BY <1>1, VertexFacts
<1>9. PrefixInv'
  <2>1. PrefixInv
    BY DEF RejectColor, RoundInv, AssignInv
  <2>2. \A u \in 0 .. v-1 : colorIndex'[u] = colorIndex[u]
    BY <1>5, <1>8
  <2> QED
    BY <1>4, <2>1, <2>2 DEF PrefixInv, Allowed, isColorOk
<1>10. NothingMissed'
  <2> SUFFICES ASSUME NEW c \in [Vertices -> Colors], Proper(c, adjacent)
               PROVE  \E w \in 0 .. v : Ahead(c, w)'
    BY <1>4 DEF NothingMissed, Proper, Allowed
  <2>1. PICK w \in 0 .. v : Ahead(c, w)
    BY DEF RejectColor, RoundInv, AssignInv, NothingMissed
  <2>2. CASE w # v
    <3>1. colorIndex'[w] = colorIndex[w]
      BY <1>1, <1>5, <1>8, <2>2
    <3> QED
      BY <1>4, <2>1, <2>2, <3>1 DEF Ahead
  <2>3. CASE w = v
    <3>1. PICK i \in Slots : c[v] = optionalCh[v][i] /\ i >= colorIndex[v]
      BY <1>1, <2>1, <2>3 DEF Ahead, RejectColor
    <3>2. i # colorIndex[v]
      <4>1. SUFFICES ASSUME i = colorIndex[v] PROVE FALSE
        OBVIOUS
      <4>2. PICK u \in 0 .. v-1 : adjacent[v][u] /\ c[v] = color[u]
        BY <3>1, <4>1 DEF RejectColor, isColorOk
      <4>3. c[u] = color[u]
        BY <2>1, <2>3 DEF Ahead
      <4> QED
        BY <1>1, <4>2, <4>3 DEF Proper
    <3>3. i >= colorIndex'[v]
      BY <1>1, <1>5, <3>1, <3>2 DEF Slots
    <3> QED
      BY <1>1, <1>4, <2>1, <2>3, <3>1, <3>3 DEF Ahead
  <2> QED
    BY <2>2, <2>3
<1> QED
  BY <1>4, <1>6, <1>7, <1>9, <1>10, InsideRound DEF RejectColor

\* Nothing is ahead in a frame that has made its three iterations, and what
\* was ahead in the frame of the caller is not before its next iteration.
LEMMA BacktrackInv ==
  ASSUME RoundInv, Backtrack
  PROVE  RoundInv'
<1> DEFINE v == vertex - 1
           x == IF kind[v] = "skipped" THEN 3 ELSE colorIndex[v] + 1
<1>1. v \in Vertices /\ vertex \in Vertices /\ v \in 0 .. N /\ v = vertex - 1 /\ vertex \in Nat
  BY VertexFacts DEF Backtrack, RoundInv, TypeOK, Vertices
<1>2. /\ colorIndex' = [colorIndex EXCEPT ![v] = x]
      /\ vertex' = v /\ colorIndex[vertex] = 3
  BY DEF Backtrack
<1>3. PrefixInv /\ NothingMissed
  BY DEF Backtrack, RoundInv, AssignInv
<1>4. UNCHANGED <<rssi, kind, limit, search, pc, adjacent, optionalCh, color, schemeCnt>>
  BY DEF Backtrack
<1>5. colorIndex \in [Vertices -> 0 .. 3] /\ x \in 0 .. 3
  <2>1. kind[v] # "skipped" => colorIndex[v] \in Slots
    BY <1>1, <1>3 DEF PrefixInv
  <2>2. kind[v] # "skipped" => colorIndex[v] + 1 \in 0 .. 3
    BY <2>1 DEF Slots
  <2> QED
    BY <2>2 DEF RoundInv, TypeOK
<1> HIDE DEF v, x
<1>6. colorIndex'[v] = x /\ \A u \in Vertices \ {v} : colorIndex'[u] = colorIndex[u]
  BY <1>1, <1>2, <1>5
<1>7. TypeOK'
  <2>1. colorIndex' \in [Vertices -> 0 .. 3]
    BY <1>2, <1>5, IndexType
  <2>2. vertex' \in 0 .. N
    BY <1>1, <1>2
  <2> QED
    BY <1>4, <2>1, <2>2 DEF RoundInv, TypeOK, search
<1>8. OrdersInv'
  BY <1>4 DEF RoundInv, AssignInv, OrdersInv
<1>9. 0 .. v-1 \subseteq Vertices \ {v} /\ 0 .. v-1 \subseteq 0 .. vertex-1
  BY <1>1, VertexFacts
<1>10. PrefixInv'
  <2>1. \A u \in 0 .. v-1 : colorIndex'[u] = colorIndex[u]
    BY <1>6, <1>9
  <2>2. ASSUME NEW u \in 0 .. v-1
        PROVE  /\ Allowed(u)' = Allowed(u) /\ color'[u] = color[u]
               /\ kind'[u] = kind[u] /\ optionalCh'[u] = optionalCh[u]
               /\ isColorOk(u, color[u]) => isColorOk(u, color[u])'
    BY <1>4 DEF Allowed, isColorOk
  <2>3. ASSUME NEW u \in 0 .. v-1
        PROVE  /\ color[u] \in Allowed(u)
               /\ kind[u] # "skipped" =>
                    /\ colorIndex[u] \in Slots
                    /\ color[u] = optionalCh[u][colorIndex[u]]
                    /\ isColorOk(u, color[u])
    BY <1>3, <1>9 DEF PrefixInv
  <2>4. color' = color
    BY <1>4
  <2> QED
    BY <1>2, <2>1, <2>2, <2>3, <2>4 DEF PrefixInv
<1>11. NothingMissed'
  <2> SUFFICES ASSUME NEW c \in [Vertices -> Colors], Proper(c, adjacent)
               PROVE  \E w \in 0 .. v : Ahead(c, w)'
    BY <1>2, <1>4 DEF NothingMissed, Proper, Allowed
  <2>1. PICK w \in 0 .. vertex : Ahead(c, w)
    BY <1>3 DEF NothingMissed
  <2>2. ASSUME w = vertex PROVE FALSE
    <3>1. \A i \in Slots : ~(i >= 3)
      BY DEF Slots
    <3> QED
      BY <1>2, <2>1, <2>2, <3>1 DEF Ahead, Backtrack
  <2>3. CASE w = v
    <3>1. w < N /\ w # vertex
      BY <1>1, <2>3, ColorAssumption DEF Vertices
    <3>2. kind[v] # "skipped" /\ \E i \in Slots : c[v] = optionalCh[v][i] /\ i > colorIndex[v]
      BY <2>1, <2>3, <3>1 DEF Ahead
    <3>3. PICK i \in Slots : c[v] = optionalCh[v][i] /\ i > colorIndex[v]
      BY <3>2
    <3>4. colorIndex[v] \in 0 .. 3 /\ colorIndex'[v] = colorIndex[v] + 1
      BY <1>1, <1>5, <1>6, <3>2 DEF x
    <3>5. i >= colorIndex'[v]
      BY <3>3, <3>4 DEF Slots
    <3> QED
      BY <1>2, <1>4, <2>1, <2>3, <3>2, <3>3, <3>5 DEF Ahead
  <2>4. CASE w \in 0 .. v-1
    <3>1. w # vertex /\ w # vertex' /\ w < N
      BY <1>1, <1>2, <2>4, ColorAssumption DEF Vertices
    <3>2. colorIndex'[w] = colorIndex[w]
      BY <1>6, <1>9, <2>4
    <3>3. Ahead(c, w)'
      BY <1>4, <2>1, <3>1, <3>2 DEF Ahead
    <3> QED
      BY <1>1, <2>4, <3>3
  <2>5. w = vertex \/ w = v \/ w \in 0 .. v-1
    BY <1>1
  <2>6. v \in 0 .. v
    BY <1>1
  <2> QED
    BY <2>2, <2>3, <2>4, <2>5, <2>6
<1> QED
  BY <1>4, <1>7, <1>8, <1>10, <1>11, InsideRound DEF Backtrack

\* A vertex gets colour x and its frame recurses: the frames stay well formed,
\* what was ahead below stays ahead, and the colourings that agree with the
\* frames so far are ahead in the new frame.
LEMMA Descends ==
  ASSUME RoundInv, pc = "assign", NEW v \in Vertices, vertex = v, NEW x \in Allowed(v),
         kind[v] # "skipped" => /\ colorIndex[v] \in Slots
                                /\ x = optionalCh[v][colorIndex[v]]
                                /\ isColorOk(v, x),
         color' = [color EXCEPT ![v] = x], Descend(v),
         UNCHANGED <<rssi, kind, limit, search, pc, adjacent, schemeCnt>>
  PROVE  RoundInv'
<1>1. v \in 0 .. N /\ v \in Nat /\ 0 .. v-1 \subseteq Vertices
        /\ v \notin 0 .. v-1 /\ v + 1 \in 0 .. N /\ v < N
  BY VertexFacts, ColorAssumption
<1>2. x \in Colors
  BY <1>1, AllowedIsColor DEF RoundInv
<1>3. PrefixInv /\ TypeOK /\ OrdersInv
  BY DEF RoundInv, AssignInv
<1>4. vertex' = v + 1
  BY DEF Descend
<1>5. color' \in [Vertices -> Colors] /\ color'[v] = x
        /\ \A u \in 0 .. v-1 : color'[u] = color[u]
  BY <1>1, <1>2, <1>3 DEF TypeOK
<1>6. colorIndex' \in [Vertices -> 0 .. 3] /\ (v + 1 < N => colorIndex'[v+1] = 0)
        /\ \A u \in 0 .. v : colorIndex'[u] = colorIndex[u]
  <2>1. CASE v + 1 < N
    <3>1. colorIndex' = [colorIndex EXCEPT ![v+1] = 0] /\ colorIndex \in [Vertices -> 0 .. 3]
      BY <1>3, <2>1 DEF Descend, TypeOK
    <3>2. v + 1 \in Vertices /\ 0 .. v \subseteq Vertices /\ v + 1 \notin 0 .. v /\ 0 \in 0 .. 3
      BY <1>1, <2>1, ColorAssumption DEF Vertices
    <3>3. colorIndex' \in [Vertices -> 0 .. 3]
      BY <3>1, <3>2, IndexType
    <3> QED
      BY <3>1, <3>2, <3>3
  <2>2. CASE ~(v + 1 < N)
    BY <1>3, <2>2 DEF Descend, TypeOK
  <2> QED
    BY <2>1, <2>2
<1>7. /\ optionalCh' \in [Vertices -> [Slots -> Channels \cup {FixedColor}]]
      /\ \A u \in 0 .. v : optionalCh'[u] = optionalCh[u]
      /\ OrdersInv'
  <2>1. CASE v + 1 < N /\ kind[v+1] = "auto"
    <3>1. PICK f \in Orders : optionalCh' = [optionalCh EXCEPT ![v+1] = f]
      BY <2>1 DEF Descend
    <3>2. Permutation(f)
      BY ColorAssumption
    <3>3. f \in [Slots -> Channels \cup {FixedColor}]
      BY <3>2 DEF Permutation
    <3>4. v + 1 \in Vertices /\ 0 .. v \subseteq Vertices /\ v + 1 \notin 0 .. v
      BY <1>1, <2>1, ColorAssumption DEF Vertices
    <3>5. optionalCh \in [Vertices -> [Slots -> Channels \cup {FixedColor}]]
      BY <1>3 DEF TypeOK
    <3>6. optionalCh'[v+1] = f /\ \A u \in Vertices \ {v+1} : optionalCh'[u] = optionalCh[u]
      BY <3>1, <3>4, <3>5
    <3>7. optionalCh' \in [Vertices -> [Slots -> Channels \cup {FixedColor}]]
      BY <3>1, <3>3, <3>5
    <3>8. OrdersInv'
      <4> SUFFICES ASSUME NEW u \in Vertices
                   PROVE  /\ kind[u] = "auto" => Permutation(optionalCh'[u])
                          /\ kind[u] = "fixed" => optionalCh'[u] = [i \in Slots |-> FixedColor]
        BY Zenon DEF OrdersInv, Permutation
      <4>1. CASE u = v + 1
        BY <2>1, <3>2, <3>6, <4>1
      <4>2. CASE u # v + 1
        BY <1>3, <3>6, <4>2 DEF OrdersInv
      <4> QED
        BY <4>1, <4>2
    <3> QED
      BY <3>4, <3>6, <3>7, <3>8
  <2>2. CASE ~(v + 1 < N /\ kind[v+1] = "auto")
    <3>1. optionalCh' = optionalCh
      BY <2>2 DEF Descend
    <3> QED
      BY <1>3, <3>1 DEF OrdersInv, TypeOK
  <2> QED
    BY <2>1, <2>2
<1>8. TypeOK'
  BY <1>1, <1>3, <1>4, <1>5, <1>6, <1>7 DEF TypeOK, search
<1>9. AllOffered'
  BY <1>7, <1>8, OfferedIsAllowedNext
<1>10. PrefixInv'
  <2>1. ASSUME NEW u \in 0 .. v
        PROVE  /\ color'[u] \in Allowed(u)
               /\ kind[u] # "skipped" =>
                    /\ colorIndex[u] \in Slots
                    /\ color'[u] = optionalCh[u][colorIndex[u]]
                    /\ \A t \in 0 .. u-1 : ~(adjacent[u][t] /\ color'[u] = color'[t])
    <3>1. CASE u = v
      BY <1>5, <3>1 DEF isColorOk
    <3>2. CASE u # v
      <4>1. u \in 0 .. v-1 /\ 0 .. u-1 \subseteq 0 .. v-1
        BY <1>1, <3>2
      <4> QED
        BY <1>3, <1>5, <4>1 DEF PrefixInv, isColorOk
    <3> QED
      BY <3>1, <3>2
  <2>2. 0 .. vertex'-1 = 0 .. v
    BY <1>1, <1>4
  <2>3. ASSUME NEW u \in 0 .. v
        PROVE  /\ (color[u] \in Allowed(u))'
               /\ kind'[u] # "skipped" =>
                    /\ colorIndex'[u] \in Slots
                    /\ color'[u] = optionalCh'[u][colorIndex'[u]]
                    /\ isColorOk(u, color[u])'
    <3>1. colorIndex'[u] = colorIndex[u] /\ optionalCh'[u] = optionalCh[u]
      BY <1>6, <1>7
    <3> QED
      BY <2>1, <3>1 DEF Allowed, isColorOk
  <2> QED
    BY <2>2, <2>3 DEF PrefixInv
<1>11. ASSUME NEW c \in [Vertices -> Colors], Proper(c, adjacent), c[v] = x, Ahead(c, v)
       PROVE  Ahead(c, v + 1)'
  <2>1. \A u \in 0 .. v : c[u] = color'[u]
    BY <1>1, <1>5, <1>11 DEF Ahead
  <2>2. ASSUME v + 1 < N, kind'[v+1] # "skipped"
        PROVE  \E i \in Slots : c[v+1] = optionalCh'[v+1][i] /\ i >= colorIndex'[v+1]
    <3>1. v + 1 \in Vertices
      BY <1>1, <2>2, ColorAssumption DEF Vertices
    <3>2. c[v+1] \in Allowed(v+1)'
      BY <1>11, <3>1 DEF Proper, Allowed
    <3>3. Offers(v+1)'
      BY <1>9, <2>2, <3>1 DEF AllOffered
    <3>4. PICK i \in Slots : c[v+1] = optionalCh'[v+1][i]
      BY <3>2, <3>3 DEF Offers
    <3>5. i >= colorIndex'[v+1]
      BY <1>6, <2>2 DEF Slots
    <3> QED
      BY <3>4, <3>5
  <2>3. v + 1 < N => colorIndex'[v+1] = 0
    BY <1>6
  <2>4. 0 .. (v+1)-1 = 0 .. v
    BY <1>1
  <2> QED
    BY <1>4, <2>1, <2>2, <2>3, <2>4 DEF Ahead
<1>12. ASSUME NEW c \in [Vertices -> Colors], NEW w \in 0 .. v-1, Ahead(c, w)
       PROVE  Ahead(c, w)'
  <2>1. w # v /\ w # vertex' /\ w < N /\ w \in 0 .. v /\ 0 .. w-1 \subseteq 0 .. v-1
    BY <1>1, <1>4, ColorAssumption
  <2>2. colorIndex'[w] = colorIndex[w] /\ optionalCh'[w] = optionalCh[w]
    BY <1>6, <1>7, <2>1
  <2>3. kind[w] # "skipped" /\ \E i \in Slots : c[w] = optionalCh[w][i] /\ i > colorIndex[w]
    BY <1>12, <2>1 DEF Ahead
  <2>4. \A u \in 0 .. w-1 : c[u] = color'[u]
    BY <1>5, <1>12, <2>1 DEF Ahead
  <2> QED
    BY <2>1, <2>2, <2>3, <2>4 DEF Ahead
<1>13. ASSUME NEW c \in [Vertices -> Colors], c[v] # x, c[v] \in Allowed(v), Ahead(c, v)
       PROVE  Ahead(c, v)'
  <2>1. kind[v] # "skipped"
    BY <1>13 DEF Allowed
  <2>2. PICK i \in Slots : c[v] = optionalCh[v][i] /\ i >= colorIndex[v]
    BY <1>1, <1>13, <2>1 DEF Ahead
  <2>3. i > colorIndex[v]
    <3>1. i # colorIndex[v]
      BY <1>13, <2>1, <2>2
    <3>2. i \in Nat /\ colorIndex[v] \in Nat
      BY <1>1, <1>3, <2>2, ColorAssumption DEF TypeOK, Slots
    <3> QED
      BY <2>2, <3>1, <3>2
  <2>4. v # vertex' /\ colorIndex'[v] = colorIndex[v] /\ optionalCh'[v] = optionalCh[v]
    BY <1>1, <1>4, <1>6, <1>7
  <2>5. \A u \in 0 .. v-1 : c[u] = color'[u]
    BY <1>5, <1>13 DEF Ahead
  <2> QED
    BY <2>1, <2>2, <2>3, <2>4, <2>5 DEF Ahead
<1>14. NothingMissed'
  <2> SUFFICES ASSUME NEW c \in [Vertices -> Colors], Proper(c, adjacent)
               PROVE  \E w \in 0 .. v+1 : Ahead(c, w)'
    BY <1>4 DEF NothingMissed, Proper, Allowed
  <2>1. PICK w \in 0 .. v : Ahead(c, w)
    BY DEF RoundInv, AssignInv, NothingMissed
  <2>2. c[v] \in Allowed(v)
    BY DEF Proper
  <2>3. v \in 0 .. v+1 /\ v+1 \in 0 .. v+1 /\ w \in 0 .. v+1 /\ (w = v \/ w \in 0 .. v-1)
    BY <1>1
  <2> QED
    BY <1>11, <1>12, <1>13, <2>1, <2>2, <2>3
<1> QED
  BY <1>7, <1>8, <1>10, <1>14, InsideRound

\* The vertex takes the channel of the iteration.
LEMMA TakeColorInv ==
  ASSUME RoundInv, TakeColor
  PROVE  RoundInv'
<1>1. PICK v \in Vertices : vertex = v
  BY VertexFacts DEF TakeColor, RoundInv, TypeOK
<1>2. PICK x : x = optionalCh[v][colorIndex[v]]
  OBVIOUS
<1>3. kind[v] # "skipped" /\ colorIndex[v] \in Slots /\ isColorOk(v, x)
  BY <1>1, <1>2 DEF TakeColor
<1>4. x \in Allowed(v)
  <2>1. AllOffered
    BY OfferedIsAllowed DEF RoundInv, AssignInv
  <2> QED
    BY <1>2, <1>3, <2>1 DEF AllOffered, Offers
<1>5. color' = [color EXCEPT ![v] = x] /\ Descend(v)
  BY <1>1, <1>2 DEF TakeColor
<1> QED
  BY <1>1, <1>2, <1>3, <1>4, <1>5, Descends DEF TakeColor

\* A vertex that is jumped over can only have the mark of one.
LEMMA JumpOverInv ==
  ASSUME RoundInv, JumpOver
  PROVE  RoundInv'
<1>1. PICK v \in Vertices : vertex = v
  BY VertexFacts DEF JumpOver, RoundInv, TypeOK
<1>2. kind[v] = "skipped" /\ NoColor \in Allowed(v)
  BY <1>1 DEF JumpOver, Allowed
<1>3. color' = [color EXCEPT ![v] = NoColor] /\ Descend(v)
  BY <1>1 DEF JumpOver
<1> QED
  BY <1>1, <1>2, <1>3, Descends DEF JumpOver

\* The loop is left only by a round that has found a colouring, with its
\* threshold; any other round is followed by another.
LEMMA DecideInv ==
  ASSUME RoundInv, Decide
  PROVE  RoundInv'
<1>1. pc = "decide" /\ done = FALSE /\ T!Decide(schemeCnt > 0)
        /\ pc' = (IF done' THEN "end" ELSE "setup")
        /\ UNCHANGED <<rssi, kind, limit, adjacent, frames>>
  BY DEF Decide, RoundInv, TypeOK
<1>2. rssiStart \in Nat /\ rssiEnd \in Nat /\ threshold \in Nat
  BY DEF RoundInv, TypeOK
<1>3. rssiStart' \in Nat /\ rssiEnd' \in Nat /\ threshold' \in Nat
  BY <1>1, <1>2, ColorAssumption
     DEF T!Decide, T!TryMax, T!StepAboveMax, T!MoveToEnd, T!BisectUp, T!Accept, T!BisectDown
<1>4. \/ done' = TRUE /\ threshold' = threshold /\ schemeCnt > 0
      \/ done' = FALSE
  BY <1>1
     DEF T!Decide, T!TryMax, T!StepAboveMax, T!MoveToEnd, T!BisectUp, T!Accept, T!BisectDown
<1>5. pc' \in {"end", "setup"} /\ (pc' = "setup" => ~done') /\ (pc' = "end" => done')
        /\ done' \in BOOLEAN
  BY <1>1, <1>4
<1>6. TypeOK'
  BY <1>1, <1>3, <1>5 DEF RoundInv, TypeOK, frames
<1>7. AssignInv'
  BY <1>1, <1>5 DEF RoundInv, AssignInv, OrdersInv, frames
<1>8. VerdictIsExact'
  <2>1. CASE pc' = "setup"
    BY <2>1 DEF VerdictIsExact
  <2>2. CASE pc' = "end"
    <3>1. threshold' = threshold /\ schemeCnt > 0
      BY <1>4, <1>5, <2>2
    <3>2. Proper(color, Neighbours(threshold))
      BY <1>1, <3>1 DEF RoundInv, VerdictIsExact
    <3>3. rssi' = rssi /\ kind' = kind /\ color' = color
      BY <1>1 DEF frames
    <3>4. Proper(color, Neighbours(threshold))'
      BY <3>1, <3>2, <3>3, SameColourings
    <3> QED
      BY <2>2, <3>4 DEF VerdictIsExact
  <2> QED
    BY <1>5, <2>1, <2>2
<1> QED
  BY <1>5, <1>6, <1>7, <1>8 DEF RoundInv

\* A step that changes nothing keeps the invariant.
LEMMA StutterInv ==
  ASSUME RoundInv, UNCHANGED vars
  PROVE  RoundInv'
<1>1. rssi' = rssi /\ kind' = kind /\ threshold' = threshold /\ color' = color
  BY DEF vars, search, frames
<1>2. TypeOK' /\ (pc' = "decide" => ~done') /\ (pc' = "setup" => ~done')
        /\ (pc' = "end" => done')
  BY DEF RoundInv, TypeOK, vars, search, frames
<1>3. VerdictIsExact'
  BY <1>1, SameColourings DEF RoundInv, VerdictIsExact, vars, frames
<1>4. OrdersInv'
  BY DEF RoundInv, AssignInv, OrdersInv, vars, frames
<1>5. pc = "assign" => PrefixInv' /\ NothingMissed'
  <2>1. pc = "assign" => PrefixInv'
    BY DEF RoundInv, AssignInv, PrefixInv, isColorOk, Allowed, vars, frames
  <2>2. pc = "assign" => NothingMissed'
    <3>1. \A c, v : Ahead(c, v)' <=> Ahead(c, v)
      BY DEF Ahead, vars, frames
    <3>2. \A c : Proper(c, adjacent)' <=> Proper(c, adjacent)
      BY DEF Proper, Allowed, vars
    <3> QED
      BY <3>1, <3>2 DEF RoundInv, AssignInv, NothingMissed, vars, frames
  <2> QED
    BY <2>1, <2>2
<1>6. AssignInv'
  BY <1>1, <1>4, <1>5, SameColourings DEF RoundInv, AssignInv, vars, search, frames
<1> QED
  BY <1>2, <1>3, <1>6 DEF RoundInv

\* RoundInv is an invariant of the calculation (dcs.c:3333-3475, 4609-4753).
THEOREM RoundInvariant == Spec => []RoundInv
<1>1. RoundInv /\ [Next]_vars => RoundInv'
  <2> SUFFICES ASSUME RoundInv, [Next]_vars PROVE RoundInv'
    OBVIOUS
  <2> QED
    BY StartRoundInv, TakeColorInv, RejectColorInv, JumpOverInv, BacktrackInv, FoundInv,
       ExhaustedInv, DecideInv, StutterInv DEF Next, Step, Finished
<1> QED
  BY <1>1, InitRoundInv, PTL DEF Spec

\* giveOneAssign is sound and complete on every graph: VerdictIsExact.
THEOREM ExactVerdict == Spec => []VerdictIsExact
  BY RoundInvariant, PTL DEF RoundInv

\* The backtracking loses no colouring and keeps its frames consistent.
THEOREM AssignInvariant == Spec => []AssignInv
  BY RoundInvariant, PTL DEF RoundInv

\* Every variable keeps to its type.
THEOREM TypeCorrect == Spec => []TypeOK
  BY RoundInvariant, PTL DEF RoundInv

\* The colouring in force at the end separates access points that hear each
\* other, in whichever direction: the matrix of neighbours is symmetric.
THEOREM NeighboursGetDifferentChannels == Spec => []NeighboursDiffer
<1>1. RoundInv => NeighboursDiffer
  <2> SUFFICES ASSUME RoundInv, pc = "end", NEW u \in Vertices, NEW v \in Vertices, u # v,
                      rssi[u][v] > threshold \/ rssi[v][u] > threshold,
                      {color[u], color[v]} \subseteq Channels
               PROVE  color[u] # color[v]
    BY DEF NeighboursDiffer
  <2>1. Proper(color, Neighbours(threshold))
    BY DEF RoundInv, VerdictIsExact
  <2>2. Neighbours(threshold)[u][v] /\ Neighbours(threshold)[v][u]
    BY DEF Neighbours
  <2>3. kind[u] # "skipped" /\ kind[v] # "skipped"
    <3>1. NoColor \notin Channels
      BY DEF NoColor, Channels
    <3> QED
      BY <2>1, <3>1 DEF Proper, Allowed
  <2>4. u \in 0 .. v-1 \/ v \in 0 .. u-1
    BY ColorAssumption DEF Vertices
  <2> QED
    BY <2>1, <2>2, <2>3, <2>4 DEF Proper
<1> QED
  BY <1>1, RoundInvariant, PTL
-----------------------------------------------------------------------------
(* The rounds implement the threshold search.                              *)

\* limit is the threshold from which on there are colourings.
LimitInv ==
  /\ limit \in Nat
  /\ Colourable(limit)
  /\ limit = 0 \/ ~Colourable(limit - 1)

\* A round finds a scheme exactly from limit on.
LEMMA ColourableFromLimit ==
  ASSUME TypeOK, LimitInv
  PROVE  \A t \in Int : t >= 0 \/ limit > 0 => (Colourable(t) <=> t >= limit)
<1> SUFFICES ASSUME NEW t \in Int, t >= 0 \/ limit > 0 PROVE Colourable(t) <=> t >= limit
  OBVIOUS
<1>1. ASSUME t >= limit PROVE Colourable(t)
  BY <1>1, ColourableMonotone DEF LimitInv
<1>2. ASSUME Colourable(t), ~(t >= limit) PROVE FALSE
  <2>1. limit \in Nat /\ limit - 1 \in Nat /\ t <= limit - 1
    BY <1>2 DEF LimitInv
  <2>2. Colourable(limit - 1)
    BY <1>2, <2>1, ColourableMonotone
  <2> QED
    BY <2>1, <2>2 DEF LimitInv
<1> QED
  BY <1>1, <1>2

\* The matrix, the kinds and the limit are those of the start.
LEMMA LimitInvariant == Spec => []LimitInv
<1>1. Init => LimitInv
  <2> SUFFICES ASSUME Init PROVE LimitInv
    OBVIOUS
  <2>1. limit \in LeastColourable /\ rssi \in [Vertices -> [Vertices -> Nat]]
    BY ColorAssumption DEF Init
  <2> QED
    BY <2>1 DEF LeastColourable, LimitInv
<1>2. LimitInv /\ [Next]_vars => LimitInv'
  <2> SUFFICES ASSUME LimitInv, [Next]_vars PROVE LimitInv'
    OBVIOUS
  <2>1. rssi' = rssi /\ kind' = kind /\ limit' = limit
    BY DEF Next, Step, StartRound, TakeColor, RejectColor, JumpOver, Backtrack, Found,
           Exhausted, Decide, Finished, vars
  <2>2. \A t : Neighbours(t)' = Neighbours(t)
    BY <2>1, Zenon DEF Neighbours
  <2>3. \A c, adj : Proper(c, adj)' <=> Proper(c, adj)
    BY <2>1 DEF Proper, Allowed
  <2>4. \A t : Colourable(t)' <=> Colourable(t)
    BY <2>2, <2>3 DEF Colourable
  <2> QED
    BY <2>1, <2>4 DEF LimitInv
<1> QED
  BY <1>1, <1>2, PTL DEF Spec

\* The rounds implement the threshold search: the steps inside a round leave
\* the search alone and its end is a Round of DcaThreshold, since the verdict
\* is exact.
THEOREM RoundsImplementSearch == Spec => ImplementsSearch
<1>1. Init /\ LimitInv => T!Init
  BY DEF Init, T!Init, LimitInv
<1>2. RoundInv /\ LimitInv /\ [Next]_vars => [T!Next]_(T!vars)
  <2> SUFFICES ASSUME RoundInv, LimitInv, [Next]_vars PROVE [T!Next]_(T!vars)
    OBVIOUS
  <2>1. CASE Decide
    <3>1. (schemeCnt > 0) = (threshold >= limit)
      BY <2>1, ColourableFromLimit DEF Decide, RoundInv, VerdictIsExact, TypeOK
    <3>2. T!Decide(threshold >= limit)
      BY <2>1, <3>1 DEF Decide
    <3> QED
      BY <2>1, <3>2 DEF Decide, T!Next, T!Round, T!Solvable
  <2>2. CASE UNCHANGED <<limit, search>>
    BY <2>2 DEF search, T!vars
  <2> QED
    BY <2>1, <2>2 DEF Next, Step, StartRound, TakeColor, RejectColor, JumpOver, Backtrack,
                      Found, Exhausted, Finished, vars
<1> QED
  BY <1>1, <1>2, RoundInvariant, LimitInvariant, PTL DEF Spec, ImplementsSearch, T!Spec

\* The theorems about the search, for the search that the rounds implement.
TP == INSTANCE DcaThreshold_proofs WITH Limits <- Nat

\* Where the search stands, of the rounds: what is proved of DcaThreshold
\* holds of its implementation.
LEMMA RoundsKeepSearchInv == Spec => [](TP!SearchInv /\ TP!ThresholdIsTight)
<1>1. TP!ThresholdAssumption
  BY ColorAssumption DEF TP!ThresholdAssumption
<1>2. TP!Spec => [](TP!SearchInv /\ TP!ThresholdIsTight)
  BY <1>1, TP!SearchInvariant, TP!TightThreshold, PTL
<1>3. T!Init => TP!Init
  BY DEF T!Init, TP!Init
<1>4. [T!Next]_(T!vars) => [TP!Next]_(TP!vars)
  BY DEF T!Next, T!Round, T!Finished, T!vars, T!Decide, T!Solvable, T!TryMax, T!StepAboveMax,
         T!MoveToEnd, T!BisectUp, T!Accept, T!BisectDown,
         TP!Next, TP!Round, TP!Finished, TP!vars, TP!Decide, TP!Solvable, TP!TryMax,
         TP!StepAboveMax, TP!MoveToEnd, TP!BisectUp, TP!Accept, TP!BisectDown
<1> QED
  BY <1>2, <1>3, <1>4, RoundsImplementSearch, PTL DEF ImplementsSearch, T!Spec, TP!Spec

\* The threshold in force at the end is low for the graph itself: from the
\* search, and the limit being where the colourings begin.
THEOREM ColouringIsTight == Spec => []TightColouring
<1>1. /\ RoundInv /\ LimitInv /\ TP!SearchInv /\ TP!ThresholdIsTight
      /\ (pc = "end" => done)
      => TightColouring
  <2> SUFFICES ASSUME RoundInv, LimitInv, TP!SearchInv, TP!ThresholdIsTight, pc = "end", done
               PROVE  TightColouring
    BY DEF TightColouring
  <2>1. threshold \in Nat /\ Max \in Nat /\ StopInterval \in Nat /\ Delta \in Nat /\ Mini \in Nat
          /\ limit \in Nat /\ TypeOK
    BY ColorAssumption DEF RoundInv, TypeOK, LimitInv
  <2>2. \A t \in Int : t >= 0 \/ limit > 0 => (Colourable(t) <=> t >= limit)
    BY <2>1, ColourableFromLimit
  <2>3. Colourable(threshold)
    BY <2>1, <2>2 DEF TP!ThresholdIsTight, TP!Solvable
  <2>4. ASSUME threshold # Mini PROVE limit > 0
    BY <2>1, <2>4, ColorAssumption
       DEF TP!SearchInv, TP!TypeOK, TP!AtMini, TP!AtMax, TP!AboveMax, TP!InBracket, TP!Solvable
  <2>5. ASSUME threshold # Mini, Colourable(Max)
        PROVE  ~Colourable(threshold - StopInterval)
    BY <2>1, <2>2, <2>4, <2>5 DEF TP!ThresholdIsTight, TP!Solvable
  <2>6. ASSUME threshold # Mini, ~Colourable(Max)
        PROVE  ~Colourable(threshold - Delta)
    BY <2>1, <2>2, <2>4, <2>6 DEF TP!ThresholdIsTight, TP!Solvable
  <2> QED
    BY <2>3, <2>5, <2>6 DEF TightColouring
<1> QED
  BY <1>1, RoundInvariant, LimitInvariant, RoundsKeepSearchInv, PTL DEF RoundInv
=============================================================================
