------------------------------ MODULE SysQueue ------------------------------
(***************************************************************************)
(* The list macros of src/sys_queue_h_test/queue.h at the level of their   *)
(* pointers: LIST, SLIST, STAILQ, SIMPLEQ, TAILQ and CIRCLEQ.              *)
(*                                                                         *)
(* A cell is a head or an element.  next[h] is the first-pointer of a      *)
(* head, next[e] the next-pointer of an element; prev[h] is the last-field *)
(* of a head and prev[e] the prev-field of an element.  The last- and      *)
(* prev-fields of all kinds but CIRCLEQ hold the address of a next-        *)
(* pointer: that address is written as the cell the pointer is in, so      *)
(* *(head)->tqh_last is next[prev[h]].  A CIRCLEQ ends at its own head,    *)
(* the others at NULL, and a pointer never written is Garbage.             *)
(*                                                                         *)
(* chain[h] is what the list stands for: h, then its elements in order.    *)
(* A macro runs under its caller's lock, so it is one step; only the       *)
(* search loop of the singly-linked REMOVE is a step for each turn.        *)
(***************************************************************************)
EXTENDS Integers, Sequences, FiniteSets

CONSTANTS Heads, Elements, NULL, Garbage

ASSUME QueueAssumption ==
  /\ Heads \cap Elements = {}
  /\ NULL \notin Heads \cup Elements
  /\ Garbage \notin Heads \cup Elements \cup {NULL}

Cells == Heads \cup Elements

Double     == {"LIST", "TAILQ", "CIRCLEQ"}                \* elements know their predecessor
Tailed     == {"STAILQ", "SIMPLEQ", "TAILQ", "CIRCLEQ"}   \* heads know their last element
Searching  == {"SLIST", "STAILQ", "SIMPLEQ"}              \* REMOVE looks for the predecessor
SimpleTail == {"STAILQ", "SIMPLEQ"}
Kinds      == Double \cup Tailed \cup Searching

VARIABLES
  kind,                  \* which family of macros the lists are used with
  next, prev,
  chain,                 \* history: the list each head stands for
  head, elm, curelm      \* the REMOVE in progress, curelm = NULL when there is none

vars == <<kind, next, prev, chain, head, elm, curelm>>
loop == <<head, elm, curelm>>

End(h)   == IF kind = "CIRCLEQ" THEN h ELSE NULL
EMPTY(h) == next[h] = End(h)
At(h, k) == chain[h][k]

InsertAfter(c, k, e) ==
  [i \in 1 .. Len(c) + 1 |-> IF i <= k THEN c[i] ELSE IF i = k + 1 THEN e ELSE c[i-1]]
Without(c, k) == [i \in 1 .. Len(c) - 1 |-> IF i < k THEN c[i] ELSE c[i+1]]
Join(c, d) ==
  [i \in 1 .. Len(c) + Len(d) - 1 |-> IF i <= Len(c) THEN c[i] ELSE d[i - Len(c) + 1]]

Linked(x) == \E h \in Heads : \E i \in 1 .. Len(chain[h]) : At(h, i) = x

Init ==
  /\ kind \in Kinds
  /\ next = [x \in Cells |-> IF x \in Heads THEN End(x) ELSE Garbage]
  /\ prev = [x \in Cells |-> IF x \in Heads /\ kind \in Tailed THEN x ELSE Garbage]
  /\ chain = [h \in Heads |-> <<h>>]
  /\ head = NULL /\ elm = NULL /\ curelm = NULL
-----------------------------------------------------------------------------
(* What the caller of a macro must see to, and what the macro means.       *)

Insert(h, k, e) ==
  /\ curelm = NULL /\ ~Linked(e)
  /\ chain' = [chain EXCEPT ![h] = InsertAfter(@, k, e)]
  /\ UNCHANGED <<kind, loop>>

Delete(h, k) ==
  /\ curelm = NULL
  /\ chain' = [chain EXCEPT ![h] = Without(@, k)]
  /\ UNCHANGED <<kind, loop>>

Positions(h) == 2 .. Len(chain[h])
-----------------------------------------------------------------------------
LIST_INSERT_AFTER(h, k, e) ==
  LET l == At(h, k) IN
  /\ kind = "LIST" /\ Insert(h, k, e)
  /\ next' = [next EXCEPT ![e] = next[l], ![l] = e]
  /\ prev' = IF next[l] # NULL THEN [prev EXCEPT ![next[l]] = e, ![e] = l]
                               ELSE [prev EXCEPT ![e] = l]

LIST_INSERT_BEFORE(h, k, e) ==
  LET l == At(h, k) IN
  /\ kind = "LIST" /\ Insert(h, k-1, e)
  /\ next' = [next EXCEPT ![e] = l, ![prev[l]] = e]
  /\ prev' = [prev EXCEPT ![e] = prev[l], ![l] = e]

LIST_INSERT_HEAD(h, e) ==
  /\ kind = "LIST" /\ Insert(h, 1, e)
  /\ next' = [next EXCEPT ![e] = next[h], ![h] = e]
  /\ prev' = IF next[h] # NULL THEN [prev EXCEPT ![next[h]] = e, ![e] = h]
                               ELSE [prev EXCEPT ![e] = h]

LIST_REMOVE(h, k) ==
  LET e == At(h, k) IN
  /\ kind = "LIST" /\ Delete(h, k)
  /\ next' = [next EXCEPT ![prev[e]] = next[e]]
  /\ prev' = IF next[e] # NULL THEN [prev EXCEPT ![next[e]] = prev[e]] ELSE prev
-----------------------------------------------------------------------------
SLIST_INSERT_AFTER(h, k, e) ==
  LET l == At(h, k) IN
  /\ kind = "SLIST" /\ Insert(h, k, e)
  /\ next' = [next EXCEPT ![e] = next[l], ![l] = e]
  /\ UNCHANGED prev

SLIST_INSERT_HEAD(h, e) ==
  /\ kind = "SLIST" /\ Insert(h, 1, e)
  /\ next' = [next EXCEPT ![e] = next[h], ![h] = e]
  /\ UNCHANGED prev

SLIST_REMOVE_HEAD(h) ==
  /\ kind = "SLIST" /\ Delete(h, 2)
  /\ next' = [next EXCEPT ![h] = next[next[h]]]
  /\ UNCHANGED prev

(* The else-branch of the REMOVE of a singly-linked list: the search from  *)
(* the first element for the one before elm.                               *)
StartSearch(h, k) ==
  /\ curelm = NULL /\ next[h] # At(h, k)
  /\ head' = h /\ elm' = At(h, k) /\ curelm' = next[h]
  /\ UNCHANGED <<kind, next, prev, chain>>

SLIST_REMOVE(h, k) ==
  /\ kind = "SLIST"
  /\ \/ next[h] = At(h, k) /\ SLIST_REMOVE_HEAD(h)
     \/ StartSearch(h, k)

\* Mutation: each turn starts again from the first element.
SearchRestarts ==
  /\ curelm # NULL /\ next[curelm] # elm
  /\ curelm' = next[head]
  /\ UNCHANGED <<kind, next, prev, chain, head, elm>>

Search ==
  /\ curelm # NULL /\ next[curelm] # elm
  /\ curelm' = next[curelm]
  /\ UNCHANGED <<kind, next, prev, chain, head, elm>>

\* Mutation: the last-field is left alone when the last element goes.
UnlinkKeepsLast ==
  /\ curelm # NULL /\ next[curelm] = elm
  /\ next' = [next EXCEPT ![curelm] = next[elm]]
  /\ \E k \in Positions(head) :
        At(head, k) = elm /\ chain' = [chain EXCEPT ![head] = Without(@, k)]
  /\ head' = NULL /\ elm' = NULL /\ curelm' = NULL
  /\ UNCHANGED <<kind, prev>>

Unlink ==
  /\ curelm # NULL /\ next[curelm] = elm
  /\ next' = [next EXCEPT ![curelm] = next[elm]]
  /\ prev' = IF kind \in SimpleTail /\ next[elm] = NULL
             THEN [prev EXCEPT ![head] = curelm] ELSE prev
  /\ \E k \in Positions(head) :
        At(head, k) = elm /\ chain' = [chain EXCEPT ![head] = Without(@, k)]
  /\ head' = NULL /\ elm' = NULL /\ curelm' = NULL
  /\ UNCHANGED kind
-----------------------------------------------------------------------------
(* STAILQ and SIMPLEQ are the same macros over differently named fields.   *)

TailInsertHead(h, e) ==
  /\ Insert(h, 1, e)
  /\ next' = [next EXCEPT ![e] = next[h], ![h] = e]
  /\ prev' = IF next[h] = NULL THEN [prev EXCEPT ![h] = e] ELSE prev

TailInsertTail(h, e) ==
  /\ Insert(h, Len(chain[h]), e)
  /\ next' = [next EXCEPT ![e] = NULL, ![prev[h]] = e]
  /\ prev' = [prev EXCEPT ![h] = e]

TailInsertAfter(h, k, e) ==
  LET l == At(h, k) IN
  /\ Insert(h, k, e)
  /\ next' = [next EXCEPT ![e] = next[l], ![l] = e]
  /\ prev' = IF next[l] = NULL THEN [prev EXCEPT ![h] = e] ELSE prev

TailRemoveHead(h) ==
  /\ Delete(h, 2)
  /\ next' = [next EXCEPT ![h] = next[next[h]]]
  /\ prev' = IF next[next[h]] = NULL THEN [prev EXCEPT ![h] = h] ELSE prev

TailRemove(h, k) ==
  \/ next[h] = At(h, k) /\ TailRemoveHead(h)
  \/ StartSearch(h, k)

STAILQ_INSERT_HEAD(h, e)      == kind = "STAILQ" /\ TailInsertHead(h, e)
STAILQ_INSERT_TAIL(h, e)      == kind = "STAILQ" /\ TailInsertTail(h, e)
STAILQ_INSERT_AFTER(h, k, e)  == kind = "STAILQ" /\ TailInsertAfter(h, k, e)
STAILQ_REMOVE_HEAD(h)         == kind = "STAILQ" /\ TailRemoveHead(h)
STAILQ_REMOVE(h, k)           == kind = "STAILQ" /\ TailRemove(h, k)

SIMPLEQ_INSERT_HEAD(h, e)     == kind = "SIMPLEQ" /\ TailInsertHead(h, e)
SIMPLEQ_INSERT_TAIL(h, e)     == kind = "SIMPLEQ" /\ TailInsertTail(h, e)
SIMPLEQ_INSERT_AFTER(h, k, e) == kind = "SIMPLEQ" /\ TailInsertAfter(h, k, e)
SIMPLEQ_REMOVE_HEAD(h)        == kind = "SIMPLEQ" /\ TailRemoveHead(h)
SIMPLEQ_REMOVE(h, k)          == kind = "SIMPLEQ" /\ TailRemove(h, k)

(* A CONCAT with an empty second list does nothing.                        *)
Concat(h1, h2) ==
  /\ curelm = NULL /\ h1 # h2 /\ ~EMPTY(h2)
  /\ chain' = [chain EXCEPT ![h1] = Join(@, chain[h2]), ![h2] = <<h2>>]
  /\ next' = [next EXCEPT ![prev[h1]] = next[h2], ![h2] = NULL]
  /\ UNCHANGED <<kind, loop>>

STAILQ_CONCAT(h1, h2) ==
  /\ kind = "STAILQ" /\ Concat(h1, h2)
  /\ prev' = [prev EXCEPT ![h1] = prev[h2], ![h2] = h2]
-----------------------------------------------------------------------------
TAILQ_INSERT_HEAD(h, e) ==
  /\ kind = "TAILQ" /\ Insert(h, 1, e)
  /\ next' = [next EXCEPT ![e] = next[h], ![h] = e]
  /\ prev' = [prev EXCEPT ![IF next[h] # NULL THEN next[h] ELSE h] = e, ![e] = h]

TAILQ_INSERT_TAIL(h, e) ==
  /\ kind = "TAILQ" /\ Insert(h, Len(chain[h]), e)
  /\ next' = [next EXCEPT ![e] = NULL, ![prev[h]] = e]
  /\ prev' = [prev EXCEPT ![e] = prev[h], ![h] = e]

TAILQ_INSERT_AFTER(h, k, e) ==
  LET l == At(h, k) IN
  /\ kind = "TAILQ" /\ Insert(h, k, e)
  /\ next' = [next EXCEPT ![e] = next[l], ![l] = e]
  /\ prev' = [prev EXCEPT ![IF next[l] # NULL THEN next[l] ELSE h] = e, ![e] = l]

TAILQ_INSERT_BEFORE(h, k, e) ==
  LET l == At(h, k) IN
  /\ kind = "TAILQ" /\ Insert(h, k-1, e)
  /\ next' = [next EXCEPT ![e] = l, ![prev[l]] = e]
  /\ prev' = [prev EXCEPT ![e] = prev[l], ![l] = e]

TAILQ_REMOVE(h, k) ==
  LET e == At(h, k) IN
  /\ kind = "TAILQ" /\ Delete(h, k)
  /\ next' = [next EXCEPT ![prev[e]] = next[e]]
  /\ prev' = [prev EXCEPT ![IF next[e] # NULL THEN next[e] ELSE h] = prev[e]]

TAILQ_CONCAT(h1, h2) ==
  /\ kind = "TAILQ" /\ Concat(h1, h2)
  /\ prev' = [prev EXCEPT ![next[h2]] = prev[h1], ![h1] = prev[h2], ![h2] = h2]

TAILQ_LAST(h) == next[prev[prev[h]]]
TAILQ_PREV(e) == next[prev[prev[e]]]
-----------------------------------------------------------------------------
(* cqh_last is prev of the head and cqh_first is next of it, so the two    *)
(* branches of each macro write prev[next[..]] or next[prev[..]] alike.    *)

CIRCLEQ_INSERT_AFTER(h, k, e) ==
  LET l == At(h, k) IN
  /\ kind = "CIRCLEQ" /\ Insert(h, k, e)
  /\ next' = [next EXCEPT ![e] = next[l], ![l] = e]
  /\ prev' = [prev EXCEPT ![e] = l, ![next[l]] = e]

CIRCLEQ_INSERT_BEFORE(h, k, e) ==
  LET l == At(h, k) IN
  /\ kind = "CIRCLEQ" /\ Insert(h, k-1, e)
  /\ next' = [next EXCEPT ![e] = l, ![prev[l]] = e]
  /\ prev' = [prev EXCEPT ![e] = prev[l], ![l] = e]

CIRCLEQ_INSERT_HEAD(h, e) ==
  /\ kind = "CIRCLEQ" /\ Insert(h, 1, e)
  /\ next' = [next EXCEPT ![e] = next[h], ![h] = e]
  /\ prev' = [prev EXCEPT ![e] = h, ![IF prev[h] = h THEN h ELSE next[h]] = e]

CIRCLEQ_INSERT_TAIL(h, e) ==
  /\ kind = "CIRCLEQ" /\ Insert(h, Len(chain[h]), e)
  /\ next' = [next EXCEPT ![e] = h, ![IF next[h] = h THEN h ELSE prev[h]] = e]
  /\ prev' = [prev EXCEPT ![e] = prev[h], ![h] = e]

CIRCLEQ_REMOVE(h, k) ==
  LET e == At(h, k) IN
  /\ kind = "CIRCLEQ" /\ Delete(h, k)
  /\ next' = [next EXCEPT ![prev[e]] = next[e]]
  /\ prev' = [prev EXCEPT ![next[e]] = prev[e]]

\* Mutation: no wrap at the end of the list.
CIRCLEQ_LOOP_NEXTNoWrap(h, e) == next[e]

CIRCLEQ_LOOP_NEXT(h, e) == IF next[e] = h THEN next[h] ELSE next[e]
CIRCLEQ_LOOP_PREV(h, e) == IF prev[e] = h THEN prev[h] ELSE prev[e]
-----------------------------------------------------------------------------
Put(h, e) ==
  \/ LIST_INSERT_HEAD(h, e)   \/ SLIST_INSERT_HEAD(h, e)   \/ TAILQ_INSERT_HEAD(h, e)
  \/ STAILQ_INSERT_HEAD(h, e) \/ SIMPLEQ_INSERT_HEAD(h, e) \/ CIRCLEQ_INSERT_HEAD(h, e)
  \/ STAILQ_INSERT_TAIL(h, e) \/ SIMPLEQ_INSERT_TAIL(h, e) \/ CIRCLEQ_INSERT_TAIL(h, e)
  \/ TAILQ_INSERT_TAIL(h, e)

PutAt(h, k, e) ==
  \/ LIST_INSERT_AFTER(h, k, e)    \/ LIST_INSERT_BEFORE(h, k, e)
  \/ TAILQ_INSERT_AFTER(h, k, e)   \/ TAILQ_INSERT_BEFORE(h, k, e)
  \/ CIRCLEQ_INSERT_AFTER(h, k, e) \/ CIRCLEQ_INSERT_BEFORE(h, k, e)
  \/ SLIST_INSERT_AFTER(h, k, e)   \/ STAILQ_INSERT_AFTER(h, k, e)
  \/ SIMPLEQ_INSERT_AFTER(h, k, e)

Take(h, k) ==
  \/ LIST_REMOVE(h, k)   \/ TAILQ_REMOVE(h, k)   \/ CIRCLEQ_REMOVE(h, k)
  \/ SLIST_REMOVE(h, k)  \/ STAILQ_REMOVE(h, k)  \/ SIMPLEQ_REMOVE(h, k)

TakeFirst(h) ==
  /\ Positions(h) # {}
  /\ SLIST_REMOVE_HEAD(h) \/ STAILQ_REMOVE_HEAD(h) \/ SIMPLEQ_REMOVE_HEAD(h)

Next ==
  \/ \E h \in Heads, e \in Elements : Put(h, e)
  \/ \E h \in Heads, e \in Elements : \E k \in Positions(h) : PutAt(h, k, e)
  \/ \E h \in Heads : \E k \in Positions(h) : Take(h, k)
  \/ \E h \in Heads : TakeFirst(h)
  \/ \E h1, h2 \in Heads : STAILQ_CONCAT(h1, h2) \/ TAILQ_CONCAT(h1, h2)
  \/ Search
  \/ Unlink

(* The loop of a REMOVE is straight-line code of the thread that runs it.  *)
Spec == Init /\ [][Next]_vars /\ WF_vars(Search \/ Unlink)
-----------------------------------------------------------------------------
(* The elements FOREACH visits, and those FOREACH_REVERSE visits.          *)

Steps == 1 .. Cardinality(Elements) + 1

Forward(h) ==
  LET var[i \in Steps] ==
        IF i = 1 THEN next[h]
        ELSE IF var[i-1] = End(h) THEN End(h) ELSE next[var[i-1]]
  IN SelectSeq(var, LAMBDA x : x # End(h))

Backward(h) ==
  LET Previous(x) == IF kind = "TAILQ" THEN TAILQ_PREV(x) ELSE prev[x]
      var[i \in Steps] ==
        IF i = 1 THEN Previous(h)
        ELSE IF var[i-1] = End(h) THEN End(h) ELSE Previous(var[i-1])
  IN SelectSeq(var, LAMBDA x : x # End(h))
-----------------------------------------------------------------------------
(* The type invariant.                                                     *)
TypeOK ==
  /\ kind \in Kinds
  /\ next \in [Cells -> Cells \cup {NULL, Garbage}]
  /\ prev \in [Cells -> Cells \cup {NULL, Garbage}]
  /\ chain \in [Heads -> Seq(Cells)]
  /\ head \in Heads \cup {NULL}
  /\ elm \in Elements \cup {NULL} /\ curelm \in Elements \cup {NULL}

(* The pointers of every kind of list are those of the sequence the list   *)
(* stands for: each next-pointer leads to the following element and the    *)
(* last one to the end, each prev-field to the element before, the last-   *)
(* field of the head to the last element.  What every macro relies on and  *)
(* must keep.                                                              *)
Represents ==
  \A h \in Heads :
    LET n == Len(chain[h]) IN
    /\ n >= 1 /\ At(h, 1) = h
    /\ \A i \in 1 .. n-1 : next[At(h, i)] = At(h, i+1)
    /\ next[At(h, n)] = End(h)
    /\ kind \in Double => \A i \in 2 .. n : prev[At(h, i)] = At(h, i-1)
    /\ kind \in Tailed => prev[h] = At(h, n)

(* No element is in two lists, or twice in one.                            *)
Disjoint ==
  \A h, g \in Heads : \A i \in 1 .. Len(chain[h]), j \in 1 .. Len(chain[g]) :
    At(h, i) = At(g, j) => h = g /\ i = j

(* The search of a REMOVE is at an element of the list that stands before  *)
(* the one to be removed, so it cannot run past the end of the list.       *)
SearchBeforeElm ==
  curelm # NULL =>
    /\ kind \in Searching /\ head \in Heads
    /\ \E i, k \in 1 .. Len(chain[head]) :
          1 < i /\ i < k /\ At(head, i) = curelm /\ At(head, k) = elm

(* FOREACH visits the elements of the list in order, FOREACH_REVERSE those *)
(* of a TAILQ or CIRCLEQ in the opposite order, through the casts of       *)
(* TAILQ_LAST and TAILQ_PREV; CIRCLEQ_LOOP_NEXT and CIRCLEQ_LOOP_PREV go   *)
(* round the list in opposite directions.                                  *)
TraversalIsTheList ==
  \A h \in Heads :
    LET list == Tail(chain[h]) n == Len(list) IN
    /\ Forward(h) = list
    /\ kind \in {"TAILQ", "CIRCLEQ"} => Backward(h) = [i \in 1 .. n |-> list[n + 1 - i]]
    /\ kind = "CIRCLEQ" =>
         \A i \in 1 .. n : /\ CIRCLEQ_LOOP_NEXT(h, list[i]) = list[(i % n) + 1]
                           /\ CIRCLEQ_LOOP_PREV(h, CIRCLEQ_LOOP_NEXT(h, list[i])) = list[i]

(* Every REMOVE ends.                                                      *)
RemoveEnds == (curelm # NULL) ~> (curelm = NULL)
=============================================================================
