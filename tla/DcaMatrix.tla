----------------------------- MODULE DcaMatrix ------------------------------
(***************************************************************************)
(* The RSSI matrix of src/DCS/dcs.c and the node list that indexes it.     *)
(*                                                                         *)
(* Row and column k of the matrix belong to the k-th node of the list.     *)
(* The list changes between calculations, new nodes at its head, and       *)
(* updateAdjacentAndRSSIMatrix moves the rows and columns that stay to     *)
(* their new places.  A cell holds the pair of access points it was        *)
(* measured for in place of the measured value, so that a value in the     *)
(* wrong place can be told.  The adjacency matrix is recomputed in every   *)
(* round of a calculation (DcaColor) and left out.                         *)
(*                                                                         *)
(* headDCA.semMutex makes each action here one step (DcaTasks).            *)
(***************************************************************************)
EXTENDS Integers, Sequences, FiniteSets, SequencesExt

CONSTANTS
  AP,
  DelIndexMax,     \* the length of delIndexArray
  WordSize,        \* sizeof(unsigned long)
  LowByteFirst,    \* whether the target is little-endian
  MaxChanges       \* bound on the changes of the list in a behaviour

ASSUME MatrixAssumption ==
  /\ IsFiniteSet(AP)
  /\ DelIndexMax \in Nat \ {0} /\ WordSize \in Nat \ {0}
  /\ LowByteFirst \in BOOLEAN
  /\ MaxChanges \in Nat

Index == 0 .. Cardinality(AP) - 1
Clear == <<>>

VARIABLES
  list,            \* headDCA.slList, the head first
  rows,            \* history: the list that the rows stood for after the last update
  rssi,            \* pRSSIMatrix
  matrixLen, oldListCount,
  delIndexArray, validIndex, delCount,   \* s_InfoUpdateMatrix
  forced,          \* the scan mode of the head is SCANMOED_FORCE_ALL_SP_SCAN
  left,            \* history: a node has been deleted
  phase,           \* "quiet", "prepared" or "scan": how far a calculation is
  changes

updateInfo == <<delIndexArray, validIndex, delCount>>
vars == <<list, rows, rssi, matrixLen, oldListCount, updateInfo, forced, left, phase, changes>>

count == Len(list)
Node(k) == list[k+1]
Nodes == {list[i] : i \in 1..count}

ZeroMatrix == [r \in Index |-> [c \in Index |-> Clear]]
NoIndexes  == [i \in 0 .. DelIndexMax-1 |-> 0]

Init ==
  /\ list = <<>> /\ rows = <<>>
  /\ rssi = ZeroMatrix
  /\ matrixLen = 0 /\ oldListCount = 0
  /\ delIndexArray = NoIndexes /\ validIndex = 0 /\ delCount = 0
  /\ forced = FALSE /\ left = FALSE /\ phase = "quiet" /\ changes = 0
-----------------------------------------------------------------------------
Change == changes < MaxChanges /\ changes' = changes + 1

\* SP_ADD_NEW_ONE in updateSPInfo.
AddNode(a) ==
  /\ phase # "scan" /\ Change
  /\ a \notin Nodes
  /\ list' = <<a>> \o list
  /\ UNCHANGED <<rows, rssi, matrixLen, oldListCount, updateInfo, forced, left, phase>>

\* SP_DEL_OLD_ONE: findSpByMAC stores the index the node has now, if it is
\* there; the slot is used up in any case.
DelNode(a) ==
  /\ phase # "scan" /\ Change
  /\ validIndex' = (validIndex + 1) % DelIndexMax
  /\ IF a \in Nodes
     THEN /\ \E k \in 0 .. count-1 :
               Node(k) = a /\ delIndexArray' = [delIndexArray EXCEPT ![validIndex] = k]
          /\ delCount' = delCount + 1
          /\ list' = SelectSeq(list, LAMBDA b : b # a)
     ELSE UNCHANGED <<delIndexArray, delCount, list>>
  /\ left' = (left \/ a \in Nodes)
  /\ UNCHANGED <<rows, rssi, matrixLen, oldListCount, forced, phase>>

\* setupAdjacentAndRSSIMatrix, called before the list is locked.
Setup ==
  /\ phase = "quiet" /\ count > 0
  /\ IF matrixLen = 0
     THEN matrixLen' = count /\ oldListCount' = count /\ rssi' = ZeroMatrix /\ rows' = list
     ELSE UNCHANGED <<matrixLen, oldListCount, rssi, rows>>
  /\ phase' = "prepared" /\ forced' \in BOOLEAN
  /\ UNCHANGED <<list, updateInfo, left, changes>>

\* It fails on an empty list: freeAdjacentAndRSSIMatrix.
SetupFails ==
  /\ phase = "quiet" /\ count = 0
  /\ matrixLen' = 0 /\ rssi' = ZeroMatrix
  /\ UNCHANGED <<list, rows, oldListCount, updateInfo, forced, left, phase, changes>>
-----------------------------------------------------------------------------
(* moveBackwardMatrix.                                                     *)

\* The rows and columns taken for deleted: the first delCount slots.
Deleted == {delIndexArray[i] : i \in 0 .. delCount-1}

\* Mutation: forward, as before nodes were inserted at the head of the list.
SamePlace(k, oldLen, newLen) ==
  k - Cardinality({j \in 0 .. k-1 : j \in Deleted})

\* rowNew (colNew) when the loop is at row (column) k.
NewPlace(k, oldLen, newLen) ==
  newLen - 1 - Cardinality({j \in k+1 .. oldLen-1 : j \notin Deleted})

\* memset clears as many bytes as there are cells.
memsetCells(len) ==
  IF LowByteFirst THEN (len + WordSize - 1) \div WordSize ELSE len \div WordSize

\* The body of the loops at one cell; old is the matrix before a new one was
\* allocated, or the matrix itself when there is room in it.
MoveCell(m, old, inPlace, row, col, oldLen, newLen) ==
  LET rowNew == NewPlace(row, oldLen, newLen)
      colNew == NewPlace(col, oldLen, newLen)
      value  == IF inPlace THEN m[row][col] ELSE old[row][col]
  IN CASE rowNew < 0 -> m
       [] rowNew >= 0 /\ row \in Deleted ->
            IF col < memsetCells(oldLen) THEN [m EXCEPT ![row][col] = Clear] ELSE m
       [] rowNew >= 0 /\ row \notin Deleted /\ colNew < 0 -> m
       [] rowNew >= 0 /\ row \notin Deleted /\ colNew >= 0 /\ col \in Deleted ->
            [m EXCEPT ![row][col] = Clear]
       [] OTHER ->
            IF inPlace THEN [m EXCEPT ![rowNew][colNew] = value, ![row][col] = Clear]
                       ELSE [m EXCEPT ![rowNew][colNew] = value]

\* Both loops run backwards.
moveBackwardMatrix(m, old, inPlace, oldLen, newLen) ==
  FoldLeft(LAMBDA acc, k : MoveCell(acc, old, inPlace, (k-1) \div oldLen, (k-1) % oldLen,
                                    oldLen, newLen),
           m,
           Reverse([k \in 1 .. oldLen * oldLen |-> k]))

\* Mutation: the old cells stay when the matrix grows.
UpdateReallocs ==
  /\ phase = "prepared"
  /\ matrixLen' = IF count <= matrixLen THEN matrixLen ELSE count
  /\ rssi' = IF forced THEN ZeroMatrix
             ELSE IF count = 0 THEN rssi
             ELSE IF count <= matrixLen
             THEN moveBackwardMatrix(rssi, rssi, TRUE, oldListCount, count)
             ELSE moveBackwardMatrix(rssi, rssi, FALSE, oldListCount, count)
  /\ oldListCount' = count
  /\ delIndexArray' = NoIndexes /\ validIndex' = 0 /\ delCount' = 0
  /\ rows' = list
  /\ phase' = "scan" /\ forced' = FALSE
  /\ UNCHANGED <<list, left, changes>>

\* updateAdjacentAndRSSIMatrix and, when all nodes are to be scanned,
\* memsetRSSIMatrix.
Update ==
  /\ phase = "prepared"
  /\ matrixLen' = IF count <= matrixLen THEN matrixLen ELSE count
  /\ rssi' = IF forced THEN ZeroMatrix
             ELSE IF count = 0 THEN rssi
             ELSE IF count <= matrixLen
             THEN moveBackwardMatrix(rssi, rssi, TRUE, oldListCount, count)
             ELSE moveBackwardMatrix(ZeroMatrix, rssi, FALSE, oldListCount, count)
  /\ oldListCount' = count
  /\ delIndexArray' = NoIndexes /\ validIndex' = 0 /\ delCount' = 0
  /\ rows' = list
  /\ phase' = "scan" /\ forced' = FALSE
  /\ UNCHANGED <<list, left, changes>>

\* The answer of the node at row r: the RSSI of the nodes it has heard.
ScanNode(r, heard) ==
  /\ phase = "scan" /\ r < count
  /\ rssi' = [rssi EXCEPT ![r] = [c \in Index |->
                IF c \in heard THEN <<Node(r), Node(c)>> ELSE @[c]]]
  /\ UNCHANGED <<list, rows, matrixLen, oldListCount, updateInfo, forced, left, phase, changes>>

\* CALC_RESTART, after any number of answers.
EndCalculation ==
  /\ phase = "scan"
  /\ phase' = "quiet"
  /\ UNCHANGED <<list, rows, rssi, matrixLen, oldListCount, updateInfo, forced, left, changes>>

Next ==
  \/ \E a \in AP : AddNode(a) \/ DelNode(a)
  \/ Setup \/ SetupFails \/ Update
  \/ \E r \in 0 .. count-1 : \E heard \in SUBSET ((0 .. count-1) \ {r}) : ScanNode(r, heard)
  \/ EndCalculation

Spec == Init /\ [][Next]_vars
-----------------------------------------------------------------------------
TypeOK ==
  /\ list \in Seq(AP) /\ rows \in Seq(AP)
  /\ rssi \in [Index -> [Index -> {Clear} \cup (AP \X AP)]]
  /\ matrixLen \in 0 .. Cardinality(AP) /\ oldListCount \in 0 .. Cardinality(AP)
  /\ delIndexArray \in [0 .. DelIndexMax-1 -> Index]
  /\ validIndex \in 0 .. DelIndexMax-1 /\ delCount \in Nat
  /\ forced \in BOOLEAN /\ left \in BOOLEAN
  /\ phase \in {"quiet", "prepared", "scan"} /\ changes \in 0 .. MaxChanges

\* "m_matrixLen == length of memory. valid length = headDCA.slList.count."
\* (dcs.c:2329): while rows are filled in there is one for every node, however
\* the list has changed since the matrix was set up.
RoomForEveryRow == phase = "scan" => count <= matrixLen /\ oldListCount = count

\* The indexes of the nodes that have gone since the last update.
Gone == {k \in 0 .. Len(rows)-1 : rows[k+1] \notin Nodes}

\* The k-th row belongs to the i-th node now.
MovesTo(k, i) == rows[k+1] = Node(i)

\* When the list has grown, and the indexes recorded are those of the nodes
\* that have gone, the update loses nothing: what was measured for two nodes
\* that stay is found in their new place (dcs.c:2179-2319).
GrowthKeepsData ==
  [][phase = "prepared" /\ phase' = "scan" /\ ~forced
       /\ count > oldListCount /\ oldListCount = Len(rows) /\ Deleted = Gone
     => \A k, l \in 0 .. Len(rows)-1 : \A i, j \in 0 .. count-1 :
          MovesTo(k, i) /\ MovesTo(l, j) => rssi'[i][j] = rssi[k][l]]_vars
\* "clear data cell after moving matrix data backward.(it's important as old
\* value may result in bad channel assignment.)" (dcs.c:105): a cell in use
\* holds nothing or what was measured for its own pair of nodes, however the
\* list grows and whenever it does.  Once a node has been deleted, the index
\* it is recorded by may be of a list that the matrix was not laid out for,
\* and this is true no more.
CellsAreOwn ==
  phase = "scan" /\ ~left =>
    \A i, j \in 0 .. count-1 : rssi[i][j] \in {Clear, <<Node(i), Node(j)>>}

\* What a calculation finds in the matrix it fills in: a row for every node,
\* and in each cell nothing or the measurement that belongs there.
MatrixInv == TypeOK /\ RoomForEveryRow /\ CellsAreOwn
=============================================================================
