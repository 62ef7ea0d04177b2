-------------------------- MODULE SysQueue_proofs ---------------------------
(***************************************************************************)
(* Every macro of queue.h keeps the pointers of the lists those of the     *)
(* sequences they stand for, for any number of lists and elements.         *)
(*                                                                         *)
(* All insertions link an element in after some cell and all removals take *)
(* one out: LinksIn and TakesOut say what that does to the pointers, the   *)
(* two lemmas LinkInKeeps and TakeOutKeeps that it keeps the invariant, and *)
(* each macro is then shown to do just that.                               *)
(***************************************************************************)
EXTENDS SysQueue, TLAPS

Pointer == Cells \cup {NULL, Garbage}

(* TypeOK without the search variables, with what the macros keep.         *)
Shape == /\ kind \in Kinds
         /\ next \in [Cells -> Pointer] /\ prev \in [Cells -> Pointer]
         /\ chain \in [Heads -> Seq(Cells)]
         /\ Represents /\ Disjoint

LinksIn(h, k, e) ==
  /\ chain' = [chain EXCEPT ![h] = InsertAfter(chain[h], k, e)]
  /\ next' = [next EXCEPT ![e] = next[At(h, k)], ![At(h, k)] = e]
  /\ prev' \in [Cells -> Pointer]
  /\ kind \in Double => /\ prev'[e] = At(h, k)
                        /\ k < Len(chain[h]) => prev'[At(h, k+1)] = e
  /\ kind \in Tailed => prev'[h] = IF k = Len(chain[h]) THEN e ELSE prev[h]
  /\ \A x \in Cells : x # e /\ x # h /\ (k < Len(chain[h]) => x # At(h, k+1))
                        => prev'[x] = prev[x]
  /\ kind' = kind

(* A place of a list is a cell, and only the first one is a head.          *)
LEMMA PlaceIsCell ==
  ASSUME Shape, NEW h \in Heads, NEW i \in 1 .. Len(chain[h])
  PROVE  /\ At(h, i) \in Cells
         /\ i # 1 => At(h, i) \in Elements
         /\ Len(chain[h]) \in Nat /\ Len(chain[h]) >= 1 /\ At(h, 1) = h
<1>1. chain[h] \in Seq(Cells) /\ Len(chain[h]) \in Nat
  BY DEF Shape
<1>2. At(h, i) \in Cells
  BY <1>1 DEF At
<1>3. Len(chain[h]) >= 1 /\ At(h, 1) = h
  BY DEF Shape, Represents
<1>4. ASSUME i # 1, At(h, i) \in Heads PROVE FALSE
  <2>. DEFINE g == At(h, i)
  <2>1. g \in Heads /\ Len(chain[g]) >= 1 /\ At(g, 1) = g
    BY <1>4 DEF Shape, Represents
  <2>2. chain[g] \in Seq(Cells) /\ Len(chain[g]) \in Nat
    BY <2>1 DEF Shape
  <2>3. 1 \in 1 .. Len(chain[g])
    BY <2>1, <2>2
  <2>. HIDE DEF g
  <2>4. i = 1
    BY <2>1, <2>3 DEF Shape, Disjoint, g
  <2>. QED BY <2>4, <1>4
<1>. QED BY <1>1, <1>2, <1>3, <1>4 DEF Cells

(* Linking an element that is in no list in after the k-th place of a list *)
(* keeps the shape of all lists.                                           *)
LEMMA LinkInKeeps ==
  ASSUME Shape, NEW h \in Heads, NEW k \in 1 .. Len(chain[h]), NEW e \in Elements,
         ~Linked(e), LinksIn(h, k, e)
  PROVE  Shape'
<1>. DEFINE n == Len(chain[h])
            l == At(h, k)
<1>1. /\ chain \in [Heads -> Seq(Cells)] /\ chain[h] \in Seq(Cells) /\ n \in Nat /\ n >= 1
      /\ l \in Cells /\ e \in Cells /\ h \in Cells /\ k \in Nat /\ k >= 1 /\ k <= n
  BY PlaceIsCell DEF Shape, Cells
<1>2. \A g \in Heads : \A i \in 1 .. Len(chain[g]) :
         /\ At(g, i) \in Cells /\ At(g, i) # e /\ (i # 1 => At(g, i) \in Elements)
         /\ Len(chain[g]) \in Nat
  BY PlaceIsCell DEF Linked
<1>3. \A g \in Heads : Len(chain[g]) \in Nat /\ Len(chain[g]) >= 1 /\ At(g, 1) = g
  <2>. TAKE g \in Heads
  <2>1. Len(chain[g]) >= 1 /\ At(g, 1) = g
    BY DEF Shape, Represents
  <2>. QED BY <1>1, <2>1
<1>4. /\ chain'[h] = InsertAfter(chain[h], k, e) /\ Len(chain'[h]) = n + 1
      /\ \A i \in 1 .. n + 1 : At(h, i)' = IF i <= k THEN At(h, i)
                                           ELSE IF i = k + 1 THEN e ELSE At(h, i-1)
      /\ \A g \in Heads : g # h => chain'[g] = chain[g]
      /\ chain' \in [Heads -> Seq(Cells)]
  <2>1. \A i \in 1 .. n + 1 :
           (IF i <= k THEN chain[h][i] ELSE IF i = k + 1 THEN e ELSE chain[h][i-1]) \in Cells
    BY <1>1
  <2>2. InsertAfter(chain[h], k, e) \in Seq(Cells) /\ Len(InsertAfter(chain[h], k, e)) = n + 1
    BY <1>1, <2>1 DEF InsertAfter
  <2>3. chain'[h] = InsertAfter(chain[h], k, e) /\ \A g \in Heads : g # h => chain'[g] = chain[g]
    BY <1>1 DEF LinksIn
  <2>4. chain' \in [Heads -> Seq(Cells)]
    BY <1>1, <2>2 DEF LinksIn
  <2>5. \A i \in 1 .. n + 1 : chain'[h][i] = IF i <= k THEN chain[h][i]
                                             ELSE IF i = k + 1 THEN e ELSE chain[h][i-1]
    BY <2>3, <1>1 DEF InsertAfter
  <2>. QED BY <2>2, <2>3, <2>4, <2>5 DEF At
<1>. HIDE DEF n, l
<1>5. /\ next' \in [Cells -> Pointer] /\ next'[e] = next[l] /\ next'[l] = e
      /\ \A x \in Cells : x # e /\ x # l => next'[x] = next[x]
  <2>1. l # e /\ next \in [Cells -> Pointer]
    BY <1>1, <1>2 DEF l, n, Shape
  <2>. QED BY <1>1, <2>1 DEF LinksIn, l, Pointer
<1>6. Disjoint'
  <2>. SUFFICES ASSUME NEW f \in Heads, NEW g \in Heads, NEW i \in 1 .. Len(chain'[f]),
                       NEW j \in 1 .. Len(chain'[g]), At(f, i)' = At(g, j)'
                PROVE  f = g /\ i = j
    BY DEF Disjoint
  <2>1. \A x, y \in Heads : \A a \in 1 .. Len(chain[x]), b \in 1 .. Len(chain[y]) :
          At(x, a) = At(y, b) => x = y /\ a = b
    BY DEF Shape, Disjoint
  <2>2. CASE f = h /\ g = h
    <3>1. i \in 1 .. n + 1 /\ j \in 1 .. n + 1
      BY <2>2, <1>4
    <3>2. \A a \in 1 .. n : At(h, a) # e
      BY <1>2 DEF n
    <3>3. \A a, b \in 1 .. n : At(h, a) = At(h, b) => a = b
      BY <2>1 DEF n
    <3>4. i = j
      BY <3>1, <3>2, <3>3, <1>1, <1>4, <2>2
    <3>. QED BY <3>4, <2>2
  <2>3. CASE f = h /\ g # h
    <3>1. i \in 1 .. n + 1 /\ j \in 1 .. Len(chain[g]) /\ At(g, j)' = At(g, j) /\ At(g, j) # e
      BY <2>3, <1>4, <1>2 DEF At
    <3>2. \A a \in 1 .. n : At(h, a) # At(g, j)
      BY <2>1, <2>3, <3>1 DEF n
    <3>3. At(h, i)' = e \/ \E a \in 1 .. n : At(h, i)' = At(h, a)
      BY <3>1, <1>1, <1>4
    <3>. QED BY <3>1, <3>2, <3>3, <2>3
  <2>4. CASE f # h /\ g = h
    <3>1. j \in 1 .. n + 1 /\ i \in 1 .. Len(chain[f]) /\ At(f, i)' = At(f, i) /\ At(f, i) # e
      BY <2>4, <1>4, <1>2 DEF At
    <3>2. \A a \in 1 .. n : At(h, a) # At(f, i)
      BY <2>1, <2>4, <3>1 DEF n
    <3>3. At(h, j)' = e \/ \E a \in 1 .. n : At(h, j)' = At(h, a)
      BY <3>1, <1>1, <1>4
    <3>. QED BY <3>1, <3>2, <3>3, <2>4
  <2>5. CASE f # h /\ g # h
    BY SMTT(30), <2>5, <2>1, <1>4 DEF At
  <2>. QED BY <2>2, <2>3, <2>4, <2>5
<1>7. Represents'
  <2>. SUFFICES ASSUME NEW g \in Heads
                PROVE  /\ Len(chain'[g]) >= 1 /\ At(g, 1)' = g
                       /\ \A i \in 1 .. Len(chain'[g])-1 : next'[At(g, i)'] = At(g, i+1)'
                       /\ next'[At(g, Len(chain[g]))'] = End(g)'
                       /\ kind \in Double =>
                            \A i \in 2 .. Len(chain'[g]) : prev'[At(g, i)'] = At(g, i-1)'
                       /\ kind \in Tailed => prev'[g] = At(g, Len(chain[g]))'
    BY DEF Represents, LinksIn
  <2>0. /\ Len(chain[g]) >= 1 /\ At(g, 1) = g /\ Len(chain[g]) \in Nat
        /\ \A i \in 1 .. Len(chain[g])-1 : next[At(g, i)] = At(g, i+1)
        /\ next[At(g, Len(chain[g]))] = End(g)
        /\ kind \in Double => \A i \in 2 .. Len(chain[g]) : prev[At(g, i)] = At(g, i-1)
        /\ kind \in Tailed => prev[g] = At(g, Len(chain[g]))
        /\ End(g)' = End(g)
    BY <1>3 DEF Shape, Represents, End, LinksIn
  <2>1. CASE g # h
    <3>1. /\ chain'[g] = chain[g]
          /\ \A i \in 1 .. Len(chain[g]) : At(g, i)' = At(g, i)
          /\ At(g, Len(chain[g]))' = At(g, Len(chain[g]))
      BY <2>1, <1>4 DEF At
    <3>2. \A i \in 1 .. Len(chain[g]) : /\ At(g, i) \in Cells /\ At(g, i) # e /\ At(g, i) # h
                                        /\ \A j \in 1 .. n : At(g, i) # At(h, j)
      <4>1. \A i \in 1 .. Len(chain[g]) : \A j \in 1 .. n : At(g, i) # At(h, j)
        BY <2>1 DEF Shape, Disjoint, n
      <4>2. h = At(h, 1) /\ 1 \in 1 .. n
        BY <1>3, <1>1 DEF n
      <4>. QED BY <4>1, <4>2, <1>2
    <3>3. \A i \in 1 .. Len(chain[g]) : next'[At(g, i)] = next[At(g, i)]
      BY <3>2, <1>5, <1>1 DEF l
    <3>4. \A i \in 1 .. Len(chain[g]) : prev'[At(g, i)] = prev[At(g, i)]
      <4>. TAKE i \in 1 .. Len(chain[g])
      <4>1. k < n => k + 1 \in 1 .. n
        BY <1>1
      <4>. QED BY <3>2, <4>1 DEF LinksIn, n
    <3>. QED BY <2>0, <3>1, <3>3, <3>4
  <2>2. CASE g = h
    <3>. USE <2>2
    <3>1. \A i \in 1 .. n : At(h, i) \in Cells /\ At(h, i) # e
      BY <1>2 DEF n
    <3>2. \A i, j \in 1 .. n : At(h, i) = At(h, j) => i = j
      BY DEF Shape, Disjoint, n
    <3>3. Len(chain'[h]) >= 1 /\ At(h, 1)' = h
      BY <2>0, <1>1, <1>4
    <3>4. \A i \in 1 .. n : next'[At(h, i)'] = At(h, i+1)'
      <4>. TAKE i \in 1 .. n
      <4>1. CASE i < k
        <5>1. At(h, i)' = At(h, i) /\ At(h, i+1)' = At(h, i+1) /\ At(h, i) # l
          BY <4>1, <1>1, <1>4, <3>2 DEF l
        <5>. QED BY <4>1, <5>1, <1>1, <1>5, <2>0, <3>1 DEF n
      <4>2. CASE i = k
        BY SMTT(30), <4>2, <1>1, <1>4, <1>5 DEF l
      <4>3. CASE i = k + 1
        <5>1. At(h, i)' = e /\ At(h, i+1)' = At(h, k+1)
          BY <4>3, <1>1, <1>4
        <5>. QED BY <4>3, <5>1, <1>1, <1>5, <2>0 DEF l, n
      <4>4. CASE i > k + 1
        <5>1. At(h, i)' = At(h, i-1) /\ At(h, i+1)' = At(h, i) /\ At(h, i-1) # l
          BY <4>4, <1>1, <1>4, <3>2 DEF l
        <5>. QED BY <4>4, <5>1, <1>1, <1>5, <2>0, <3>1 DEF n
      <4>. QED BY <4>1, <4>2, <4>3, <4>4, <1>1
    <3>5. next'[At(h, Len(chain[h]))'] = End(h)'
      <4>1. At(h, Len(chain[h]))' = IF k = n THEN e ELSE At(h, n)
        BY <1>1, <1>4 DEF At
      <4>2. CASE k = n
        BY <4>1, <4>2, <1>5, <2>0 DEF l, n
      <4>3. CASE k # n
        <5>1. At(h, n) # l /\ n \in 1 .. n
          BY <4>3, <1>1, <3>2 DEF l
        <5>. QED BY <4>1, <4>3, <5>1, <1>5, <2>0, <3>1 DEF n
      <4>. QED BY <4>2, <4>3
    <3>6. ASSUME kind \in Double
          PROVE  \A i \in 2 .. n + 1 : prev'[At(h, i)'] = At(h, i-1)'
      <4>. TAKE i \in 2 .. n + 1
      <4>0. prev'[e] = l /\ (k < n => prev'[At(h, k+1)] = e)
        BY <3>6 DEF LinksIn, l, n
      <4>1. \A j \in 2 .. n : j # k + 1 => prev'[At(h, j)] = At(h, j-1)
        <5>. TAKE j \in 2 .. n
        <5>. HAVE j # k + 1
        <5>1. At(h, j) # h /\ At(h, j) # e /\ At(h, j) \in Cells
          BY <3>1, <3>2, <2>0, <1>1
        <5>2. k < n => At(h, j) # At(h, k+1)
          BY <3>2, <1>1
        <5>3. prev'[At(h, j)] = prev[At(h, j)]
          BY <5>1, <5>2 DEF LinksIn, n
        <5>. QED BY <5>3, <3>6, <2>0 DEF n
      <4>2. CASE i <= k
        <5>1. At(h, i)' = At(h, i) /\ At(h, i-1)' = At(h, i-1) /\ i \in 2 .. n /\ i # k+1
          BY <4>2, <1>1, <1>4
        <5>. QED BY <5>1, <4>1
      <4>3. CASE i = k + 1
        BY <4>0, <4>3, <1>1, <1>4 DEF l
      <4>4. CASE i = k + 2
        <5>1. k < n /\ At(h, i)' = At(h, k+1) /\ At(h, i-1)' = e
          BY <4>4, <1>1, <1>4
        <5>. QED BY <5>1, <4>0
      <4>5. CASE i > k + 2
        <5>1. At(h, i)' = At(h, i-1) /\ At(h, i-1)' = At(h, i-2) /\ i-1 \in 2 .. n /\ i-1 # k+1
          BY <4>5, <1>1, <1>4
        <5>2. prev'[At(h, i-1)] = At(h, (i-1)-1)
          BY <5>1, <4>1
        <5>. QED BY <5>1, <5>2
      <4>. QED BY <4>2, <4>3, <4>4, <4>5, <1>1
    <3>7. kind \in Tailed => prev'[h] = At(h, Len(chain[h]))'
      <4>1. At(h, Len(chain[h]))' = IF k = n THEN e ELSE At(h, n)
        BY <1>1, <1>4 DEF At
      <4>. QED BY <4>1, <2>0 DEF LinksIn, n
    <3>. QED BY <3>3, <3>4, <3>5, <3>6, <3>7, <1>4, <1>1
  <2>. QED BY <2>1, <2>2
<1>. QED BY <1>4, <1>5, <1>6, <1>7 DEF Shape, LinksIn
-----------------------------------------------------------------------------
TakesOut(h, k) ==
  /\ chain' = [chain EXCEPT ![h] = Without(chain[h], k)]
  /\ next' = [next EXCEPT ![At(h, k-1)] = next[At(h, k)]]
  /\ prev' \in [Cells -> Pointer]
  /\ kind \in Double /\ k < Len(chain[h]) => prev'[At(h, k+1)] = At(h, k-1)
  /\ kind \in Tailed => prev'[h] = IF k = Len(chain[h]) THEN At(h, k-1) ELSE prev[h]
  /\ \A x \in Cells : x # h /\ (k < Len(chain[h]) => x # At(h, k+1)) => prev'[x] = prev[x]
  /\ kind' = kind

(* Taking the element at the k-th place out of a list keeps the shape of   *)
(* all lists.                                                              *)
LEMMA TakeOutKeeps ==
  ASSUME Shape, NEW h \in Heads, NEW k \in 2 .. Len(chain[h]), TakesOut(h, k)
  PROVE  Shape'
<1>. DEFINE n == Len(chain[h])
            p == At(h, k-1)
            e == At(h, k)
<1>1. /\ chain \in [Heads -> Seq(Cells)] /\ chain[h] \in Seq(Cells) /\ n \in Nat /\ n >= 2
      /\ h \in Cells /\ k \in Nat /\ k >= 2 /\ k <= n
  BY DEF Shape, Cells
<1>2. \A g \in Heads : \A i \in 1 .. Len(chain[g]) : At(g, i) \in Cells
  BY PlaceIsCell
<1>3. \A g \in Heads : Len(chain[g]) \in Nat /\ Len(chain[g]) >= 1 /\ At(g, 1) = g
  <2>. TAKE g \in Heads
  <2>1. Len(chain[g]) >= 1 /\ At(g, 1) = g
    BY DEF Shape, Represents
  <2>. QED BY <1>1, <2>1
<1>4. /\ chain'[h] = Without(chain[h], k) /\ Len(chain'[h]) = n - 1
      /\ \A i \in 1 .. n - 1 : At(h, i)' = IF i < k THEN At(h, i) ELSE At(h, i+1)
      /\ \A g \in Heads : g # h => chain'[g] = chain[g]
      /\ chain' \in [Heads -> Seq(Cells)]
  <2>1. \A i \in 1 .. n - 1 : (IF i < k THEN chain[h][i] ELSE chain[h][i+1]) \in Cells
    BY <1>1
  <2>2. Without(chain[h], k) \in Seq(Cells) /\ Len(Without(chain[h], k)) = n - 1
    BY <1>1, <2>1 DEF Without
  <2>3. chain'[h] = Without(chain[h], k) /\ \A g \in Heads : g # h => chain'[g] = chain[g]
    BY <1>1 DEF TakesOut
  <2>4. chain' \in [Heads -> Seq(Cells)]
    BY <1>1, <2>2 DEF TakesOut
  <2>5. \A i \in 1 .. n - 1 : chain'[h][i] = IF i < k THEN chain[h][i] ELSE chain[h][i+1]
    BY <2>3, <1>1 DEF Without
  <2>. QED BY <2>2, <2>3, <2>4, <2>5 DEF At
<1>. HIDE DEF n, p, e
<1>5. /\ p \in Cells /\ e \in Cells /\ next' \in [Cells -> Pointer] /\ next'[p] = next[e]
      /\ \A x \in Cells : x # p => next'[x] = next[x]
  <2>1. p \in Cells /\ e \in Cells /\ next \in [Cells -> Pointer]
    BY <1>1, <1>2 DEF p, e, n, Shape
  <2>2. next[e] \in Pointer
    BY <2>1
  <2>. QED BY <1>1, <2>1, <2>2 DEF TakesOut, p, e
<1>6. Disjoint'
  <2>. SUFFICES ASSUME NEW f \in Heads, NEW g \in Heads, NEW i \in 1 .. Len(chain'[f]),
                       NEW j \in 1 .. Len(chain'[g]), At(f, i)' = At(g, j)'
                PROVE  f = g /\ i = j
    BY DEF Disjoint
  <2>1. \A x, y \in Heads : \A a \in 1 .. Len(chain[x]), b \in 1 .. Len(chain[y]) :
          At(x, a) = At(y, b) => x = y /\ a = b
    BY DEF Shape, Disjoint
  <2>2. CASE f = h /\ g = h
    <3>1. i \in 1 .. n - 1 /\ j \in 1 .. n - 1
      BY <2>2, <1>4
    <3>2. \A a, b \in 1 .. n : At(h, a) = At(h, b) => a = b
      BY <2>1 DEF n
    <3>3. (IF i < k THEN i ELSE i+1) = (IF j < k THEN j ELSE j+1)
      BY <3>1, <3>2, <1>1, <1>4, <2>2
    <3>. QED BY <3>1, <3>3, <1>1, <2>2
  <2>3. ASSUME NEW x \in Heads, NEW a \in 1 .. Len(chain'[x])
        PROVE  \E b \in 1 .. Len(chain[x]) : At(x, a)' = At(x, b)
    <3>1. CASE x = h
      BY <3>1, <1>1, <1>4 DEF n
    <3>2. CASE x # h
      BY <3>2, <1>4 DEF At
    <3>. QED BY <3>1, <3>2
  <2>4. f = g
    BY <2>1, <2>3
  <2>5. CASE f # h
    BY <2>5, <2>4, <2>1, <1>4 DEF At
  <2>. QED BY <2>2, <2>4, <2>5
<1>7. Represents'
  <2>. SUFFICES ASSUME NEW g \in Heads
                PROVE  /\ Len(chain'[g]) >= 1 /\ At(g, 1)' = g
                       /\ \A i \in 1 .. Len(chain'[g])-1 : next'[At(g, i)'] = At(g, i+1)'
                       /\ next'[At(g, Len(chain[g]))'] = End(g)'
                       /\ kind \in Double =>
                            \A i \in 2 .. Len(chain'[g]) : prev'[At(g, i)'] = At(g, i-1)'
                       /\ kind \in Tailed => prev'[g] = At(g, Len(chain[g]))'
    BY DEF Represents, TakesOut
  <2>0. /\ Len(chain[g]) >= 1 /\ At(g, 1) = g /\ Len(chain[g]) \in Nat
        /\ \A i \in 1 .. Len(chain[g])-1 : next[At(g, i)] = At(g, i+1)
        /\ next[At(g, Len(chain[g]))] = End(g)
        /\ kind \in Double => \A i \in 2 .. Len(chain[g]) : prev[At(g, i)] = At(g, i-1)
        /\ kind \in Tailed => prev[g] = At(g, Len(chain[g]))
        /\ End(g)' = End(g)
    BY <1>3 DEF Shape, Represents, End, TakesOut
  <2>1. CASE g # h
    <3>1. /\ chain'[g] = chain[g]
          /\ \A i \in 1 .. Len(chain[g]) : At(g, i)' = At(g, i)
          /\ At(g, Len(chain[g]))' = At(g, Len(chain[g]))
      BY <2>1, <1>4 DEF At
    <3>2. \A i \in 1 .. Len(chain[g]) : /\ At(g, i) \in Cells /\ At(g, i) # h
                                        /\ \A j \in 1 .. n : At(g, i) # At(h, j)
      <4>1. \A i \in 1 .. Len(chain[g]) : \A j \in 1 .. n : At(g, i) # At(h, j)
        BY <2>1 DEF Shape, Disjoint, n
      <4>2. h = At(h, 1) /\ 1 \in 1 .. n
        BY <1>3, <1>1 DEF n
      <4>. QED BY <4>1, <4>2, <1>2
    <3>3. \A i \in 1 .. Len(chain[g]) : next'[At(g, i)] = next[At(g, i)]
      BY <3>2, <1>5, <1>1 DEF p
    <3>4. \A i \in 1 .. Len(chain[g]) : prev'[At(g, i)] = prev[At(g, i)]
      <4>. TAKE i \in 1 .. Len(chain[g])
      <4>1. k < n => k + 1 \in 1 .. n
        BY <1>1
      <4>. QED BY <3>2, <4>1 DEF TakesOut, n
    <3>. QED BY <2>0, <3>1, <3>3, <3>4
  <2>2. CASE g = h
    <3>. USE <2>2
    <3>1. \A i \in 1 .. n : At(h, i) \in Cells
      BY <1>2 DEF n
    <3>2. \A i, j \in 1 .. n : At(h, i) = At(h, j) => i = j
      BY DEF Shape, Disjoint, n
    <3>3. Len(chain'[h]) >= 1 /\ At(h, 1)' = h
      BY <2>0, <1>1, <1>4
    <3>4. \A i \in 1 .. n-2 : next'[At(h, i)'] = At(h, i+1)'
      <4>. TAKE i \in 1 .. n-2
      <4>1. CASE i < k-1
        <5>1. At(h, i)' = At(h, i) /\ At(h, i+1)' = At(h, i+1) /\ At(h, i) # p
          BY <4>1, <1>1, <1>4, <3>2 DEF p
        <5>2. i \in 1 .. n /\ next[At(h, i)] = At(h, i+1)
          BY <4>1, <1>1, <2>0 DEF n
        <5>. QED BY <5>1, <5>2, <1>5, <3>1
      <4>2. CASE i = k-1
        <5>1. At(h, i)' = p /\ At(h, i+1)' = At(h, k+1)
          BY <4>2, <1>1, <1>4 DEF p
        <5>. QED BY <4>2, <5>1, <1>1, <1>5, <2>0 DEF e, n
      <4>3. CASE i > k-1
        <5>1. At(h, i)' = At(h, i+1) /\ At(h, i+1)' = At(h, (i+1)+1) /\ At(h, i+1) # p
          BY <4>3, <1>1, <1>4, <3>2 DEF p
        <5>. QED BY <4>3, <5>1, <1>1, <1>5, <2>0, <3>1 DEF n
      <4>. QED BY <4>1, <4>2, <4>3, <1>1
    <3>l. At(h, Len(chain[h]))' = IF k = n THEN p ELSE At(h, n)
      BY <1>1, <1>4 DEF At, p
    <3>5. next'[At(h, Len(chain[h]))'] = End(h)'
      <4>1. CASE k = n
        BY <3>l, <4>1, <1>5, <2>0 DEF e, n
      <4>2. CASE k # n
        <5>1. At(h, n) # p /\ n \in 1 .. n
          BY <4>2, <1>1, <3>2 DEF p
        <5>. QED BY <3>l, <4>2, <5>1, <1>5, <2>0, <3>1 DEF n
      <4>. QED BY <4>1, <4>2
    <3>6. ASSUME kind \in Double
          PROVE  \A i \in 2 .. n-1 : prev'[At(h, i)'] = At(h, i-1)'
      <4>. TAKE i \in 2 .. n-1
      <4>1. \A j \in 2 .. n : j # k + 1 => prev'[At(h, j)] = At(h, j-1)
        <5>. TAKE j \in 2 .. n
        <5>. HAVE j # k + 1
        <5>1. At(h, j) # h /\ At(h, j) \in Cells
          BY <3>1, <3>2, <2>0, <1>1
        <5>2. k < n => At(h, j) # At(h, k+1)
          BY <3>2, <1>1
        <5>3. prev'[At(h, j)] = prev[At(h, j)]
          BY <5>1, <5>2 DEF TakesOut, n
        <5>. QED BY <5>3, <3>6, <2>0 DEF n
      <4>2. CASE i < k
        <5>1. At(h, i)' = At(h, i) /\ At(h, i-1)' = At(h, i-1) /\ i \in 2 .. n /\ i # k+1
          BY <4>2, <1>1, <1>4
        <5>. QED BY <5>1, <4>1
      <4>3. CASE i = k
        <5>1. k < n /\ At(h, i)' = At(h, k+1) /\ At(h, i-1)' = p
          BY <4>3, <1>1, <1>4 DEF p
        <5>. QED BY <5>1, <3>6 DEF TakesOut, p, n
      <4>4. CASE i > k
        <5>1. At(h, i)' = At(h, i+1) /\ At(h, i-1)' = At(h, i) /\ i+1 \in 2 .. n /\ i+1 # k+1
          BY <4>4, <1>1, <1>4
        <5>2. prev'[At(h, i+1)] = At(h, (i+1)-1)
          BY <5>1, <4>1
        <5>. QED BY <5>1, <5>2
      <4>. QED BY <4>2, <4>3, <4>4, <1>1
    <3>7. kind \in Tailed => prev'[h] = At(h, Len(chain[h]))'
      BY <3>l, <2>0 DEF TakesOut, n, p
    <3>. QED BY <3>3, <3>4, <3>5, <3>6, <3>7, <1>4, <1>1
  <2>. QED BY <2>1, <2>2
<1>. QED BY <1>4, <1>5, <1>6, <1>7 DEF Shape, TakesOut
-----------------------------------------------------------------------------
Joins(a, b) ==
  /\ chain' = [chain EXCEPT ![a] = Join(chain[a], chain[b]), ![b] = <<b>>]
  /\ next' = [next EXCEPT ![At(a, Len(chain[a]))] = At(b, 2), ![b] = NULL]
  /\ prev' \in [Cells -> Pointer]
  /\ kind \in Double => prev'[At(b, 2)] = At(a, Len(chain[a]))
  /\ prev'[a] = At(b, Len(chain[b])) /\ prev'[b] = b
  /\ \A x \in Cells : x # a /\ x # b /\ x # At(b, 2) => prev'[x] = prev[x]
  /\ kind \in Tailed /\ kind # "CIRCLEQ" /\ kind' = kind

(* Appending the elements of a list to another one, and emptying the list, *)
(* keeps the shape of all lists.                                           *)
LEMMA JoinKeeps ==
  ASSUME Shape, NEW a \in Heads, NEW b \in Heads, a # b, Len(chain[b]) >= 2, Joins(a, b)
  PROVE  Shape'
<1>. DEFINE n == Len(chain[a])
            m == Len(chain[b])
<1>1. /\ chain \in [Heads -> Seq(Cells)] /\ chain[a] \in Seq(Cells) /\ n \in Nat
      /\ chain[b] \in Seq(Cells) /\ m \in Nat /\ m >= 2
      /\ a \in Cells /\ b \in Cells
  BY DEF Shape, Cells
<1>2. \A g \in Heads : \A i \in 1 .. Len(chain[g]) : At(g, i) \in Cells
  BY PlaceIsCell
<1>3. \A g \in Heads : Len(chain[g]) \in Nat /\ Len(chain[g]) >= 1 /\ At(g, 1) = g
  <2>. TAKE g \in Heads
  <2>1. Len(chain[g]) >= 1 /\ At(g, 1) = g
    BY DEF Shape, Represents
  <2>. QED BY <1>1, <2>1
<1>4. /\ Len(chain'[a]) = n + m - 1
      /\ \A i \in 1 .. n + m - 1 : At(a, i)' = IF i <= n THEN At(a, i) ELSE At(b, i - n + 1)
      /\ Len(chain'[b]) = 1 /\ At(b, 1)' = b
      /\ \A g \in Heads : g # a /\ g # b => chain'[g] = chain[g]
      /\ chain' \in [Heads -> Seq(Cells)]
  <2>1. \A i \in 1 .. n + m - 1 : (IF i <= n THEN chain[a][i] ELSE chain[b][i - n + 1]) \in Cells
    BY <1>1
  <2>2. Join(chain[a], chain[b]) \in Seq(Cells) /\ Len(Join(chain[a], chain[b])) = n + m - 1
    BY <1>1, <1>3, <2>1 DEF Join
  <2>3. /\ chain'[a] = Join(chain[a], chain[b]) /\ chain'[b] = <<b>>
        /\ \A g \in Heads : g # a /\ g # b => chain'[g] = chain[g]
    BY <1>1 DEF Joins
  <2>4. chain' \in [Heads -> Seq(Cells)]
    <3>1. <<b>> \in Seq(Cells)
      BY <1>1
    <3>. QED BY <1>1, <2>2, <3>1 DEF Joins
  <2>5. \A i \in 1 .. n + m - 1 : chain'[a][i] = IF i <= n THEN chain[a][i] ELSE chain[b][i - n + 1]
    BY <2>3, <1>1, <1>3 DEF Join
  <2>6. Len(chain'[b]) = 1 /\ chain'[b][1] = b
    BY <2>3
  <2>7. Len(chain'[a]) = n + m - 1
    BY <2>2, <2>3
  <2>. HIDE DEF n, m
  <2>. QED BY <2>3, <2>4, <2>5, <2>6, <2>7 DEF At
<1>. HIDE DEF n, m
<1>n. n >= 1 /\ n \in 1 .. n /\ 2 \in 1 .. m /\ m \in 1 .. m /\ 1 \in 1 .. m /\ 1 \in 1 .. n
  BY <1>1, <1>3 DEF n
<1>5. /\ At(a, n) \in Cells /\ At(b, 2) \in Cells /\ At(a, n) # b
      /\ next' \in [Cells -> Pointer] /\ next'[At(a, n)] = At(b, 2) /\ next'[b] = NULL
      /\ \A x \in Cells : x # At(a, n) /\ x # b => next'[x] = next[x]
  <2>1. At(a, n) \in Cells /\ At(b, 2) \in Cells /\ next \in [Cells -> Pointer]
    BY <1>n, <1>2 DEF n, m, Shape
  <2>2. At(a, n) # At(b, 1) /\ At(b, 1) = b
    BY <1>n, <1>3 DEF Shape, Disjoint, n, m
  <2>. QED BY <1>1, <2>1, <2>2 DEF Joins, n, Pointer
<1>d. \A x, y \in Heads : \A i \in 1 .. Len(chain[x]), j \in 1 .. Len(chain[y]) :
          At(x, i) = At(y, j) => x = y /\ i = j
  BY DEF Shape, Disjoint
<1>6. Disjoint'
  <2>. SUFFICES ASSUME NEW f \in Heads, NEW g \in Heads, NEW i \in 1 .. Len(chain'[f]),
                       NEW j \in 1 .. Len(chain'[g]), At(f, i)' = At(g, j)'
                PROVE  f = g /\ i = j
    BY DEF Disjoint
  <2>. DEFINE Old(x, c) == IF x = a /\ c > n THEN b ELSE x
              Place(x, c) == IF x = a /\ c > n THEN c - n + 1 ELSE c
  <2>1. ASSUME NEW x \in Heads, NEW c \in 1 .. Len(chain'[x])
        PROVE  /\ At(x, c)' = At(Old(x, c), Place(x, c))
               /\ Old(x, c) \in Heads /\ Place(x, c) \in 1 .. Len(chain[Old(x, c)])
               /\ x = b => c = 1
    <3>1. CASE x = a
      BY SMTT(30), <3>1, <1>1, <1>4, <1>n DEF n, m
    <3>2. CASE x = b
      BY <3>2, <1>4, <1>3, <1>n DEF m
    <3>3. CASE x # a /\ x # b
      BY <3>3, <1>4 DEF At
    <3>. QED BY <3>1, <3>2, <3>3
  <2>2. Old(f, i) = Old(g, j) /\ Place(f, i) = Place(g, j)
    <3>. HIDE DEF Old, Place
    <3>. QED BY <2>1, <1>d
  <2>3. (f = b => i = 1) /\ (g = b => j = 1) /\ i \in Nat /\ j \in Nat
    BY <2>1, <1>4
  <2>. QED BY <2>2, <2>3, <1>n, <1>1
<1>7. Represents'
  <2>. SUFFICES ASSUME NEW g \in Heads
                PROVE  /\ Len(chain'[g]) >= 1 /\ At(g, 1)' = g
                       /\ \A i \in 1 .. Len(chain'[g])-1 : next'[At(g, i)'] = At(g, i+1)'
                       /\ next'[At(g, Len(chain[g]))'] = NULL
                       /\ kind \in Double =>
                            \A i \in 2 .. Len(chain'[g]) : prev'[At(g, i)'] = At(g, i-1)'
                       /\ prev'[g] = At(g, Len(chain[g]))'
    BY DEF Represents, Joins, End
  <2>0. \A x \in Heads :
          /\ \A i \in 1 .. Len(chain[x])-1 : next[At(x, i)] = At(x, i+1)
          /\ next[At(x, Len(chain[x]))] = NULL
          /\ kind \in Double => \A i \in 2 .. Len(chain[x]) : prev[At(x, i)] = At(x, i-1)
          /\ prev[x] = At(x, Len(chain[x]))
    BY DEF Shape, Represents, End, Joins
  <2>c. /\ \A i \in 1 .. n : At(a, i) \in Cells
        /\ \A i \in 1 .. m : At(b, i) \in Cells
        /\ \A i, j \in 1 .. n : At(a, i) = At(a, j) => i = j
        /\ \A i, j \in 1 .. m : At(b, i) = At(b, j) => i = j
        /\ \A i \in 1 .. n, j \in 1 .. m : At(a, i) # At(b, j)
        /\ At(a, 1) = a /\ At(b, 1) = b
    BY <1>2, <1>d, <1>3 DEF n, m
  <2>1. CASE g # a /\ g # b
    <3>1. /\ chain'[g] = chain[g]
          /\ \A i \in 1 .. Len(chain[g]) : At(g, i)' = At(g, i)
          /\ At(g, Len(chain[g]))' = At(g, Len(chain[g]))
      BY <2>1, <1>4 DEF At
    <3>2. \A i \in 1 .. Len(chain[g]) :
             /\ At(g, i) \in Cells
             /\ At(g, i) # a /\ At(g, i) # b /\ At(g, i) # At(a, n) /\ At(g, i) # At(b, 2)
      <4>1. \A i \in 1 .. Len(chain[g]) : /\ \A j \in 1 .. n : At(g, i) # At(a, j)
                                          /\ \A j \in 1 .. m : At(g, i) # At(b, j)
        BY <2>1, <1>d DEF n, m
      <4>. QED BY <4>1, <1>n, <1>2, <2>c
    <3>3. \A i \in 1 .. Len(chain[g]) : /\ next'[At(g, i)] = next[At(g, i)]
                                        /\ prev'[At(g, i)] = prev[At(g, i)]
      BY <3>2, <1>5 DEF Joins
    <3>4. prev'[g] = prev[g]
      <4>1. g = At(g, 1) /\ 1 \in 1 .. Len(chain[g])
        BY <1>3
      <4>. QED BY <3>3, <4>1
    <3>. QED BY <2>0, <1>3, <3>1, <3>3, <3>4
  <2>2. CASE g = b
    BY <2>2, <1>4, <1>5 DEF Joins, At
  <2>3. CASE g = a
    <3>. USE <2>3
    <3>1. Len(chain'[a]) >= 1 /\ At(a, 1)' = a
      BY <1>4, <1>n, <1>1, <2>c
    <3>2. \A i \in 1 .. n + m - 2 : next'[At(a, i)'] = At(a, i+1)'
      <4>. TAKE i \in 1 .. n + m - 2
      <4>1. CASE i < n
        <5>1. At(a, i)' = At(a, i) /\ At(a, i+1)' = At(a, i+1) /\ i \in 1 .. n /\ At(a, i) # At(a, n)
          BY <4>1, <1>1, <1>n, <1>4, <2>c
        <5>2. At(a, i) # b /\ next[At(a, i)] = At(a, i+1) /\ At(a, i) \in Cells
          BY <4>1, <5>1, <1>1, <1>n, <2>c, <2>0 DEF n
        <5>. QED BY <5>1, <5>2, <1>5
      <4>2. CASE i = n
        <5>1. At(a, i)' = At(a, n) /\ At(a, i+1)' = At(b, (n + 1) - n + 1) /\ (n + 1) - n + 1 = 2
          BY <4>2, <1>1, <1>n, <1>4
        <5>. QED BY <5>1, <1>5
      <4>3. CASE i > n
        <5>. DEFINE j == i - n + 1
        <5>1. /\ At(a, i)' = At(b, j) /\ At(a, i+1)' = At(b, (i + 1) - n + 1)
              /\ (i + 1) - n + 1 = j + 1 /\ j \in 2 .. m-1
          BY <4>3, <1>1, <1>n, <1>4
        <5>. HIDE DEF j
        <5>2. /\ At(b, j) # b /\ At(b, j) # At(a, n) /\ At(b, j) \in Cells
              /\ next[At(b, j)] = At(b, j+1)
          BY <5>1, <1>1, <1>n, <2>c, <2>0 DEF m
        <5>. QED BY <5>1, <5>2, <1>5
      <4>. QED BY <4>1, <4>2, <4>3, <1>1
    <3>l. At(a, Len(chain[a]))' = At(b, m)
      <4>1. (n + m - 1) - n + 1 = m /\ n + m - 1 \in 1 .. n + m - 1 /\ n + m - 1 > n
        BY <1>1, <1>n
      <4>. QED BY <4>1, <1>1, <1>4 DEF At
    <3>3. next'[At(a, Len(chain[a]))'] = NULL
      <4>1. At(b, m) # b /\ At(b, m) # At(a, n) /\ At(b, m) \in Cells /\ next[At(b, m)] = NULL
        BY <1>1, <1>n, <2>c, <2>0 DEF m
      <4>. QED BY <3>l, <4>1, <1>5
    <3>4. ASSUME kind \in Double
          PROVE  \A i \in 2 .. n + m - 1 : prev'[At(a, i)'] = At(a, i-1)'
      <4>. TAKE i \in 2 .. n + m - 1
      <4>1. CASE i <= n
        <5>1. /\ At(a, i)' = At(a, i) /\ At(a, i-1)' = At(a, i-1) /\ i \in 2 .. n /\ i \in 1 .. n
              /\ At(a, i) # a
          BY <4>1, <1>1, <1>n, <1>4, <2>c
        <5>2. At(a, i) # b /\ At(a, i) # At(b, 2) /\ At(a, i) \in Cells /\ prev[At(a, i)] = At(a, i-1)
          BY <5>1, <1>n, <2>c, <2>0, <3>4 DEF n
        <5>. QED BY <5>1, <5>2 DEF Joins
      <4>2. CASE i = n + 1
        <5>1. At(a, i-1)' = At(a, n) /\ At(a, i)' = At(b, (n + 1) - n + 1) /\ (n + 1) - n + 1 = 2
          BY <4>2, <1>1, <1>n, <1>4
        <5>. QED BY <5>1, <3>4 DEF Joins, n
      <4>3. CASE i > n + 1
        <5>. DEFINE j == i - n + 1
        <5>1. /\ At(a, i)' = At(b, j) /\ At(a, i-1)' = At(b, (i - 1) - n + 1)
              /\ (i - 1) - n + 1 = j - 1 /\ j \in 3 .. m
          BY <4>3, <1>1, <1>n, <1>4
        <5>. HIDE DEF j
        <5>2. j \in 2 .. m /\ j \in 1 .. m /\ j # 2 /\ j # 1
          BY <5>1, <1>1
        <5>3. /\ At(b, j) # b /\ At(b, j) # a /\ At(b, j) # At(b, 2) /\ At(b, j) \in Cells
              /\ prev[At(b, j)] = At(b, j-1)
          BY <5>2, <1>n, <2>c, <2>0, <3>4 DEF m
        <5>. QED BY <5>1, <5>3 DEF Joins
      <4>4. i <= n \/ i = n + 1 \/ i > n + 1
        BY <1>1
      <4>. QED BY <4>1, <4>2, <4>3, <4>4
    <3>5. prev'[a] = At(a, Len(chain[a]))'
      BY <3>l DEF Joins, m
    <3>. QED BY <3>1, <3>2, <3>3, <3>4, <3>5, <1>4, <1>1, <1>n
  <2>. QED BY <2>1, <2>2, <2>3
<1>8. kind' \in Kinds /\ prev' \in [Cells -> Pointer]
  BY DEF Shape, Joins
<1>. QED BY <1>4, <1>5, <1>6, <1>7, <1>8 DEF Shape
-----------------------------------------------------------------------------
(* What the macros read of a list in shape.                                *)
LEMMA Neighbours ==
  ASSUME Shape, NEW h \in Heads, NEW k \in 1 .. Len(chain[h])
  PROVE  /\ k < Len(chain[h]) => /\ next[At(h, k)] = At(h, k+1) /\ At(h, k+1) \in Elements
                                 /\ At(h, k+1) # NULL /\ At(h, k+1) # h /\ At(h, k+1) # At(h, k)
         /\ k = Len(chain[h]) => next[At(h, k)] = End(h)
         /\ kind \in Double /\ k # 1 => prev[At(h, k)] = At(h, k-1)
         /\ kind \in Tailed => prev[h] = At(h, Len(chain[h]))
         /\ At(h, k) \in Cells /\ (k # 1 => At(h, k) \in Elements /\ At(h, k) # h)
         /\ Len(chain[h]) \in Nat /\ Len(chain[h]) >= 1 /\ At(h, 1) = h
         /\ k # 1 => At(h, k-1) \in Cells /\ At(h, k-1) # At(h, k)
<1>. DEFINE n == Len(chain[h])
<1>1. /\ n \in Nat /\ n >= 1 /\ At(h, 1) = h
      /\ \A i \in 1 .. n : At(h, i) \in Cells /\ (i # 1 => At(h, i) \in Elements)
      /\ \A i, j \in 1 .. n : At(h, i) = At(h, j) => i = j
  <2>1. \A i, j \in 1 .. n : At(h, i) = At(h, j) => i = j
    BY DEF Shape, Disjoint
  <2>2. \A i \in 1 .. n : At(h, i) \in Cells /\ (i # 1 => At(h, i) \in Elements)
    BY PlaceIsCell
  <2>3. n \in Nat /\ n >= 1 /\ At(h, 1) = h
    BY PlaceIsCell
  <2>. QED BY <2>1, <2>2, <2>3
<1>2. /\ \A i \in 1 .. n-1 : next[At(h, i)] = At(h, i+1)
      /\ next[At(h, n)] = End(h)
      /\ kind \in Double => \A i \in 2 .. n : prev[At(h, i)] = At(h, i-1)
      /\ kind \in Tailed => prev[h] = At(h, n)
  BY DEF Shape, Represents
<1>. HIDE DEF n
<1>3. k \in Nat /\ k >= 1 /\ k <= n
  BY <1>1 DEF n
<1>4. h \notin Elements /\ NULL \notin Elements
  BY QueueAssumption
<1>5. ASSUME k < n
      PROVE  /\ next[At(h, k)] = At(h, k+1) /\ At(h, k+1) \in Elements
             /\ At(h, k+1) # NULL /\ At(h, k+1) # h /\ At(h, k+1) # At(h, k)
  <2>1. k \in 1 .. n-1 /\ k+1 \in 1 .. n /\ k+1 # 1 /\ k+1 # k /\ k \in 1 .. n
    BY <1>5, <1>3, <1>1
  <2>. QED BY <2>1, <1>1, <1>2, <1>4
<1>6. ASSUME k # 1
      PROVE  /\ At(h, k) \in Elements /\ At(h, k) # h
             /\ At(h, k-1) \in Cells /\ At(h, k-1) # At(h, k)
             /\ kind \in Double => prev[At(h, k)] = At(h, k-1)
  <2>1. k \in 2 .. n /\ k-1 \in 1 .. n /\ k-1 # k /\ k \in 1 .. n
    BY <1>6, <1>3, <1>1
  <2>. QED BY <1>6, <2>1, <1>1, <1>2, <1>4
<1>. QED BY <1>1, <1>2, <1>3, <1>5, <1>6 DEF n
-----------------------------------------------------------------------------
(* The macros that insert after a given element.                           *)
LEMMA AfterLinks ==
  ASSUME Shape, NEW h \in Heads, NEW k \in Positions(h), NEW e \in Elements,
         \/ LIST_INSERT_AFTER(h, k, e) \/ TAILQ_INSERT_AFTER(h, k, e)
         \/ CIRCLEQ_INSERT_AFTER(h, k, e) \/ SLIST_INSERT_AFTER(h, k, e)
         \/ STAILQ_INSERT_AFTER(h, k, e) \/ SIMPLEQ_INSERT_AFTER(h, k, e)
  PROVE  LinksIn(h, k, e)
<1>. DEFINE n == Len(chain[h])
            l == At(h, k)
            s == At(h, k+1)
<1>1. /\ k \in 1 .. n /\ n \in Nat /\ l \in Cells /\ l # h /\ k <= n
      /\ k < n => next[l] = s /\ s \in Elements /\ s # NULL /\ s # h /\ s # l
      /\ k = n => next[l] = End(h)
      /\ kind \in Tailed => prev[h] = At(h, n)
  BY Neighbours DEF Positions, Shape
<1>2. ~Linked(e) /\ e # l /\ e # h /\ (k < n => e # s)
  <2>1. ~Linked(e)
    BY DEF LIST_INSERT_AFTER, TAILQ_INSERT_AFTER, CIRCLEQ_INSERT_AFTER, SLIST_INSERT_AFTER,
           STAILQ_INSERT_AFTER, SIMPLEQ_INSERT_AFTER, TailInsertAfter, Insert
  <2>. QED BY <2>1, <1>1, QueueAssumption DEF Linked
<1>3. /\ prev \in [Cells -> Pointer] /\ e \in Cells /\ h \in Cells /\ (k < n => s \in Cells)
      /\ Cells \subseteq Pointer /\ NULL \notin Cells
  BY <1>1, QueueAssumption DEF Shape, Cells, Pointer
<1>. HIDE DEF n, l, s
<1>4. CASE LIST_INSERT_AFTER(h, k, e)
  <2>1. /\ chain' = [chain EXCEPT ![h] = InsertAfter(chain[h], k, e)] /\ kind' = kind
        /\ next' = [next EXCEPT ![e] = next[At(h, k)], ![At(h, k)] = e]
    BY <1>4 DEF LIST_INSERT_AFTER, Insert
  <2>2. /\ kind = "LIST" /\ End(h) = NULL
        /\ prev' = IF next[l] # NULL THEN [prev EXCEPT ![next[l]] = e, ![e] = l]
                                     ELSE [prev EXCEPT ![e] = l]
    BY <1>4 DEF LIST_INSERT_AFTER, End, l
  <2>3. k < n \/ k = n
    BY <1>1
  <2>4. /\ prev' \in [Cells -> Pointer] /\ prev'[e] = l /\ (k < n => prev'[s] = e)
        /\ \A x \in Cells : x # e /\ x # h /\ (k < n => x # s) => prev'[x] = prev[x]
    <3>1. CASE k < n
      BY <2>2, <3>1, <1>1, <1>2, <1>3
    <3>2. CASE k = n
      BY <2>2, <3>2, <1>1, <1>2, <1>3
    <3>. QED BY <2>3, <3>1, <3>2
  <2>. QED BY <2>1, <2>2, <2>4 DEF LinksIn, l, s, n, Tailed
<1>5. CASE TAILQ_INSERT_AFTER(h, k, e)
  <2>1. /\ chain' = [chain EXCEPT ![h] = InsertAfter(chain[h], k, e)] /\ kind' = kind
        /\ next' = [next EXCEPT ![e] = next[At(h, k)], ![At(h, k)] = e]
    BY <1>5 DEF TAILQ_INSERT_AFTER, Insert
  <2>2. /\ kind = "TAILQ" /\ End(h) = NULL
        /\ prev' = [prev EXCEPT ![IF next[l] # NULL THEN next[l] ELSE h] = e, ![e] = l]
    BY <1>5 DEF TAILQ_INSERT_AFTER, End, l
  <2>3. k < n \/ k = n
    BY <1>1
  <2>4. /\ prev' \in [Cells -> Pointer] /\ prev'[e] = l /\ (k < n => prev'[s] = e)
        /\ prev'[h] = IF k = n THEN e ELSE prev[h]
        /\ \A x \in Cells : x # e /\ x # h /\ (k < n => x # s) => prev'[x] = prev[x]
    <3>1. CASE k < n
      BY <2>2, <3>1, <1>1, <1>2, <1>3
    <3>2. CASE k = n
      BY <2>2, <3>2, <1>1, <1>2, <1>3
    <3>. QED BY <2>3, <3>1, <3>2
  <2>. QED BY <2>1, <2>2, <2>4 DEF LinksIn, l, s, n
<1>6. CASE CIRCLEQ_INSERT_AFTER(h, k, e)
  <2>1. /\ chain' = [chain EXCEPT ![h] = InsertAfter(chain[h], k, e)] /\ kind' = kind
        /\ next' = [next EXCEPT ![e] = next[At(h, k)], ![At(h, k)] = e]
    BY <1>6 DEF CIRCLEQ_INSERT_AFTER, Insert
  <2>2. /\ kind = "CIRCLEQ" /\ End(h) = h
        /\ prev' = [prev EXCEPT ![e] = l, ![next[l]] = e]
    BY <1>6 DEF CIRCLEQ_INSERT_AFTER, End, l
  <2>3. k < n \/ k = n
    BY <1>1
  <2>4. /\ prev' \in [Cells -> Pointer] /\ prev'[e] = l /\ (k < n => prev'[s] = e)
        /\ prev'[h] = IF k = n THEN e ELSE prev[h]
        /\ \A x \in Cells : x # e /\ x # h /\ (k < n => x # s) => prev'[x] = prev[x]
    <3>1. CASE k < n
      BY <2>2, <3>1, <1>1, <1>2, <1>3
    <3>2. CASE k = n
      BY <2>2, <3>2, <1>1, <1>2, <1>3
    <3>. QED BY <2>3, <3>1, <3>2
  <2>. QED BY <2>1, <2>2, <2>4 DEF LinksIn, l, s, n
<1>7. CASE SLIST_INSERT_AFTER(h, k, e)
  <2>1. /\ chain' = [chain EXCEPT ![h] = InsertAfter(chain[h], k, e)] /\ kind' = kind
        /\ next' = [next EXCEPT ![e] = next[At(h, k)], ![At(h, k)] = e]
    BY <1>7 DEF SLIST_INSERT_AFTER, Insert
  <2>2. kind = "SLIST" /\ prev' = prev
    BY <1>7 DEF SLIST_INSERT_AFTER
  <2>. QED BY <2>1, <2>2, <1>3 DEF LinksIn, Double, Tailed
<1>8. CASE STAILQ_INSERT_AFTER(h, k, e) \/ SIMPLEQ_INSERT_AFTER(h, k, e)
  <2>1. /\ chain' = [chain EXCEPT ![h] = InsertAfter(chain[h], k, e)] /\ kind' = kind
        /\ next' = [next EXCEPT ![e] = next[At(h, k)], ![At(h, k)] = e]
    BY <1>8 DEF STAILQ_INSERT_AFTER, SIMPLEQ_INSERT_AFTER, TailInsertAfter, Insert
  <2>2. /\ kind \in SimpleTail /\ End(h) = NULL
        /\ prev' = IF next[l] = NULL THEN [prev EXCEPT ![h] = e] ELSE prev
    BY <1>8 DEF STAILQ_INSERT_AFTER, SIMPLEQ_INSERT_AFTER, TailInsertAfter, End, l, SimpleTail
  <2>3. prev' = IF k < n THEN prev ELSE [prev EXCEPT ![h] = e]
    BY <2>2, <1>1
  <2>4. /\ prev' \in [Cells -> Pointer] /\ prev'[h] = IF k = n THEN e ELSE prev[h]
        /\ \A x \in Cells : x # h => prev'[x] = prev[x]
    BY <2>3, <1>1, <1>2, <1>3
  <2>. QED BY <2>1, <2>2, <2>4 DEF LinksIn, n, Double, SimpleTail
<1>. QED BY <1>4, <1>5, <1>6, <1>7, <1>8

(* The macros that insert before a given element, which is after the one   *)
(* before it.                                                              *)
LEMMA BeforeLinks ==
  ASSUME Shape, NEW h \in Heads, NEW k \in Positions(h), NEW e \in Elements,
         \/ LIST_INSERT_BEFORE(h, k, e) \/ TAILQ_INSERT_BEFORE(h, k, e)
         \/ CIRCLEQ_INSERT_BEFORE(h, k, e)
  PROVE  LinksIn(h, k-1, e)
<1>. DEFINE n == Len(chain[h])
            l == At(h, k-1)
            s == At(h, k)
<1>1. /\ k-1 \in 1 .. n /\ k \in 1 .. n /\ k # 1 /\ k-1 < n /\ (k-1)+1 = k /\ n \in Nat
      /\ kind \in Double
  BY DEF Positions, Shape, LIST_INSERT_BEFORE, TAILQ_INSERT_BEFORE, CIRCLEQ_INSERT_BEFORE, Double
<1>2. l \in Cells /\ next[l] = s /\ s \in Elements /\ s # h /\ s # l /\ prev[s] = l
  <2>1. l \in Cells /\ next[l] = At(h, (k-1)+1)
    BY <1>1, Neighbours
  <2>2. s \in Elements /\ s # h /\ s # l /\ prev[s] = l
    BY <1>1, Neighbours
  <2>. QED BY <2>1, <2>2, <1>1
<1>3. ~Linked(e) /\ e # l /\ e # s /\ e # h
  <2>1. ~Linked(e)
    BY DEF LIST_INSERT_BEFORE, TAILQ_INSERT_BEFORE, CIRCLEQ_INSERT_BEFORE, Insert
  <2>. QED BY <2>1, <1>1, QueueAssumption DEF Linked
<1>4. /\ prev \in [Cells -> Pointer] /\ next \in [Cells -> Pointer]
      /\ e \in Cells /\ h \in Cells /\ s \in Cells /\ Cells \subseteq Pointer
  BY <1>2 DEF Shape, Cells, Pointer
<1>. HIDE DEF n, l, s
<1>5. /\ chain' = [chain EXCEPT ![h] = InsertAfter(chain[h], k-1, e)] /\ kind' = kind
      /\ next' = [next EXCEPT ![e] = s, ![prev[s]] = e]
      /\ prev' = [prev EXCEPT ![e] = prev[s], ![s] = e]
  BY DEF LIST_INSERT_BEFORE, TAILQ_INSERT_BEFORE, CIRCLEQ_INSERT_BEFORE, Insert, s
<1>6. next' = [next EXCEPT ![e] = next[l], ![l] = e]
  BY <1>2, <1>3, <1>4, <1>5
<1>7. /\ prev' \in [Cells -> Pointer] /\ prev'[e] = l /\ prev'[s] = e /\ prev'[h] = prev[h]
      /\ \A x \in Cells : x # e /\ x # s => prev'[x] = prev[x]
  BY <1>2, <1>3, <1>4, <1>5
<1>8. k - 1 # n
  BY <1>1
<1>. QED BY <1>1, <1>5, <1>6, <1>7, <1>8 DEF LinksIn, l, s, n

(* The macros that insert at the head, which is after the head.            *)
LEMMA HeadLinks ==
  ASSUME Shape, NEW h \in Heads, NEW e \in Elements,
         \/ LIST_INSERT_HEAD(h, e) \/ SLIST_INSERT_HEAD(h, e) \/ TAILQ_INSERT_HEAD(h, e)
         \/ STAILQ_INSERT_HEAD(h, e) \/ SIMPLEQ_INSERT_HEAD(h, e) \/ CIRCLEQ_INSERT_HEAD(h, e)
  PROVE  LinksIn(h, 1, e) /\ 1 \in 1 .. Len(chain[h])
<1>. DEFINE n == Len(chain[h])
            s == At(h, 2)
<1>1. 1 \in 1 .. n /\ n \in Nat /\ n >= 1 /\ At(h, 1) = h
  BY DEF Shape, Represents
<1>2. /\ 1 < n => next[h] = s /\ s \in Elements /\ s # NULL /\ s # h
      /\ 1 = n => next[h] = End(h)
      /\ kind \in Tailed => prev[h] = At(h, n)
      /\ 1 < n => At(h, n) \in Elements
  <2>1. /\ 1 < n => next[h] = At(h, 1+1) /\ At(h, 1+1) \in Elements /\ At(h, 1+1) # NULL
                     /\ At(h, 1+1) # h
        /\ 1 = n => next[h] = End(h)
        /\ kind \in Tailed => prev[h] = At(h, n)
    <3>1. /\ 1 < n => next[At(h, 1)] = At(h, 1+1) /\ At(h, 1+1) \in Elements
                       /\ At(h, 1+1) # NULL /\ At(h, 1+1) # h
          /\ 1 = n => next[At(h, 1)] = End(h)
          /\ kind \in Tailed => prev[h] = At(h, n)
      BY <1>1, Neighbours
    <3>. QED BY <3>1, <1>1
  <2>2. n \in 1 .. n
    BY <1>1
  <2>3. n # 1 => At(h, n) \in Elements
    BY <2>2, Neighbours
  <2>. QED BY <2>1, <2>3, <1>1
<1>3. ~Linked(e) /\ e # h /\ (1 < n => e # s)
  <2>1. ~Linked(e)
    BY DEF LIST_INSERT_HEAD, TAILQ_INSERT_HEAD, CIRCLEQ_INSERT_HEAD, SLIST_INSERT_HEAD,
           STAILQ_INSERT_HEAD, SIMPLEQ_INSERT_HEAD, TailInsertHead, Insert
  <2>2. 1 < n => 2 \in 1 .. n
    BY <1>1
  <2>3. h \notin Elements
    BY QueueAssumption
  <2>4. 1 < n => e # s
    BY <2>1, <2>2 DEF Linked
  <2>. QED BY <2>1, <2>3, <2>4
<1>4. /\ prev \in [Cells -> Pointer] /\ e \in Cells /\ h \in Cells /\ (1 < n => s \in Cells)
      /\ Cells \subseteq Pointer /\ NULL \notin Cells /\ h \notin Elements
  <2>1. 1 < n => s \in Elements
    BY <1>2
  <2>. QED BY <2>1, QueueAssumption DEF Shape, Cells, Pointer
<1>6. /\ chain' = [chain EXCEPT ![h] = InsertAfter(chain[h], 1, e)] /\ kind' = kind
      /\ next' = [next EXCEPT ![e] = next[At(h, 1)], ![At(h, 1)] = e]
  <2>1. /\ chain' = [chain EXCEPT ![h] = InsertAfter(chain[h], 1, e)] /\ kind' = kind
        /\ next' = [next EXCEPT ![e] = next[h], ![h] = e]
    BY DEF LIST_INSERT_HEAD, TAILQ_INSERT_HEAD, CIRCLEQ_INSERT_HEAD, SLIST_INSERT_HEAD,
           STAILQ_INSERT_HEAD, SIMPLEQ_INSERT_HEAD, TailInsertHead, Insert
  <2>2. At(h, 1) = h
    BY <1>1
  <2>. QED BY <2>1, <2>2
<1>. HIDE DEF n, s
<1>5. 1 < n \/ 1 = n
  BY <1>1
<1>. DEFINE Good == /\ prev' \in [Cells -> Pointer]
                    /\ kind \in Double => prev'[e] = h /\ (1 < n => prev'[s] = e)
                    /\ kind \in Tailed => prev'[h] = IF 1 = n THEN e ELSE prev[h]
                    /\ \A x \in Cells : x # e /\ x # h /\ (1 < n => x # s) => prev'[x] = prev[x]
<1>7. ASSUME Good PROVE LinksIn(h, 1, e)
  <2>1. 1 + 1 = 2
    OBVIOUS
  <2>. QED BY <1>1, <1>6, <1>7, <2>1 DEF LinksIn, n, s
<1>8. ASSUME LIST_INSERT_HEAD(h, e) PROVE Good
  <2>1. /\ kind = "LIST" /\ End(h) = NULL
        /\ prev' = IF next[h] # NULL THEN [prev EXCEPT ![next[h]] = e, ![e] = h]
                                     ELSE [prev EXCEPT ![e] = h]
    BY <1>8 DEF LIST_INSERT_HEAD, End
  <2>2. CASE 1 < n
    BY <2>1, <2>2, <1>1, <1>2, <1>3, <1>4 DEF Tailed
  <2>3. CASE 1 = n
    BY <2>1, <2>3, <1>1, <1>2, <1>3, <1>4 DEF Tailed
  <2>. QED BY <2>2, <2>3, <1>5
<1>9. ASSUME TAILQ_INSERT_HEAD(h, e) PROVE Good
  <2>1. /\ kind = "TAILQ" /\ End(h) = NULL
        /\ prev' = [prev EXCEPT ![IF next[h] # NULL THEN next[h] ELSE h] = e, ![e] = h]
    BY <1>9 DEF TAILQ_INSERT_HEAD, End
  <2>2. CASE 1 < n
    BY <2>1, <2>2, <1>1, <1>2, <1>3, <1>4
  <2>3. CASE 1 = n
    BY <2>1, <2>3, <1>1, <1>2, <1>3, <1>4
  <2>. QED BY <2>2, <2>3, <1>5
<1>10. ASSUME CIRCLEQ_INSERT_HEAD(h, e) PROVE Good
  <2>1. /\ kind = "CIRCLEQ" /\ End(h) = h /\ kind \in Tailed
        /\ prev' = [prev EXCEPT ![e] = h, ![IF prev[h] = h THEN h ELSE next[h]] = e]
    BY <1>10 DEF CIRCLEQ_INSERT_HEAD, End, Tailed
  <2>2. CASE 1 < n
    <3>1. prev[h] # h
      BY <2>1, <2>2, <1>2, <1>4
    <3>. QED BY <2>1, <2>2, <3>1, <1>1, <1>2, <1>3, <1>4
  <2>3. CASE 1 = n
    <3>1. prev[h] = h
      BY <2>1, <2>3, <1>1, <1>2 DEF n
    <3>. QED BY <2>1, <2>3, <3>1, <1>1, <1>2, <1>3, <1>4
  <2>. QED BY <2>2, <2>3, <1>5
<1>11. ASSUME SLIST_INSERT_HEAD(h, e) PROVE Good
  <2>1. kind = "SLIST" /\ prev' = prev
    BY <1>11 DEF SLIST_INSERT_HEAD
  <2>. QED BY <2>1, <1>4 DEF Double, Tailed
<1>12. ASSUME STAILQ_INSERT_HEAD(h, e) \/ SIMPLEQ_INSERT_HEAD(h, e) PROVE Good
  <2>1. /\ kind \in SimpleTail /\ End(h) = NULL
        /\ prev' = IF next[h] = NULL THEN [prev EXCEPT ![h] = e] ELSE prev
    BY <1>12 DEF STAILQ_INSERT_HEAD, SIMPLEQ_INSERT_HEAD, TailInsertHead, End, SimpleTail
  <2>2. CASE 1 < n
    BY <2>1, <2>2, <1>1, <1>2, <1>3, <1>4 DEF Double, SimpleTail
  <2>3. CASE 1 = n
    BY <2>1, <2>3, <1>1, <1>2, <1>3, <1>4 DEF Double, SimpleTail
  <2>. QED BY <2>2, <2>3, <1>5
<1>. HIDE DEF Good
<1>. QED BY <1>1, <1>7, <1>8, <1>9, <1>10, <1>11, <1>12 DEF n

(* The macros that insert at the tail, which is after the last place.      *)
LEMMA TailLinks ==
  ASSUME Shape, NEW h \in Heads, NEW e \in Elements,
         \/ STAILQ_INSERT_TAIL(h, e) \/ SIMPLEQ_INSERT_TAIL(h, e)
         \/ TAILQ_INSERT_TAIL(h, e) \/ CIRCLEQ_INSERT_TAIL(h, e)
  PROVE  LinksIn(h, Len(chain[h]), e) /\ Len(chain[h]) \in 1 .. Len(chain[h])
<1>. DEFINE n == Len(chain[h])
            l == At(h, n)
<1>1. n \in 1 .. n /\ n \in Nat /\ n >= 1 /\ ~(n < n)
  BY DEF Shape, Represents
<1>2. /\ kind \in Tailed /\ prev[h] = l /\ next[l] = End(h) /\ l \in Cells
      /\ n # 1 => l \in Elements
      /\ At(h, 1) = h
  <2>1. kind \in Tailed
    BY DEF STAILQ_INSERT_TAIL, SIMPLEQ_INSERT_TAIL, TAILQ_INSERT_TAIL, CIRCLEQ_INSERT_TAIL, Tailed
  <2>. QED BY <2>1, <1>1, Neighbours
<1>3. ~Linked(e) /\ e # h /\ e # l
  <2>1. ~Linked(e)
    BY DEF STAILQ_INSERT_TAIL, SIMPLEQ_INSERT_TAIL, TAILQ_INSERT_TAIL, CIRCLEQ_INSERT_TAIL,
           TailInsertTail, Insert
  <2>2. h \notin Elements
    BY QueueAssumption
  <2>3. e # l
    BY <2>1, <1>1 DEF Linked
  <2>. QED BY <2>1, <2>2, <2>3
<1>4. /\ prev \in [Cells -> Pointer] /\ next \in [Cells -> Pointer] /\ e \in Cells /\ h \in Cells
      /\ Cells \subseteq Pointer /\ h \notin Elements /\ NULL \in Pointer
  BY QueueAssumption DEF Shape, Cells, Pointer
<1>5. chain' = [chain EXCEPT ![h] = InsertAfter(chain[h], n, e)] /\ kind' = kind
  BY DEF STAILQ_INSERT_TAIL, SIMPLEQ_INSERT_TAIL, TAILQ_INSERT_TAIL, CIRCLEQ_INSERT_TAIL,
         TailInsertTail, Insert
<1>. HIDE DEF n, l
<1>. DEFINE Good == /\ next' = [next EXCEPT ![e] = next[l], ![l] = e]
                    /\ prev' \in [Cells -> Pointer]
                    /\ kind \in Double => prev'[e] = l
                    /\ prev'[h] = e
                    /\ \A x \in Cells : x # e /\ x # h => prev'[x] = prev[x]
<1>6. ASSUME Good PROVE LinksIn(h, n, e)
  BY <1>1, <1>5, <1>6 DEF LinksIn, n, l
<1>7. ASSUME STAILQ_INSERT_TAIL(h, e) \/ SIMPLEQ_INSERT_TAIL(h, e) PROVE Good
  <2>1. /\ kind \in SimpleTail /\ End(h) = NULL
        /\ next' = [next EXCEPT ![e] = NULL, ![prev[h]] = e]
        /\ prev' = [prev EXCEPT ![h] = e]
    BY <1>7 DEF STAILQ_INSERT_TAIL, SIMPLEQ_INSERT_TAIL, TailInsertTail, End, SimpleTail
  <2>2. next' = [next EXCEPT ![e] = next[l], ![l] = e]
    BY <2>1, <1>2, <1>3, <1>4
  <2>. QED BY <2>1, <2>2, <1>3, <1>4 DEF Double, SimpleTail
<1>8. ASSUME TAILQ_INSERT_TAIL(h, e) PROVE Good
  <2>1. /\ kind = "TAILQ" /\ End(h) = NULL
        /\ next' = [next EXCEPT ![e] = NULL, ![prev[h]] = e]
        /\ prev' = [prev EXCEPT ![e] = prev[h], ![h] = e]
    BY <1>8 DEF TAILQ_INSERT_TAIL, End
  <2>2. next' = [next EXCEPT ![e] = next[l], ![l] = e]
    BY <2>1, <1>2, <1>3, <1>4
  <2>. QED BY <2>1, <2>2, <1>2, <1>3, <1>4
<1>9. ASSUME CIRCLEQ_INSERT_TAIL(h, e) PROVE Good
  <2>1. /\ kind = "CIRCLEQ" /\ End(h) = h
        /\ next' = [next EXCEPT ![e] = h, ![IF next[h] = h THEN h ELSE prev[h]] = e]
        /\ prev' = [prev EXCEPT ![e] = prev[h], ![h] = e]
    BY <1>9 DEF CIRCLEQ_INSERT_TAIL, End
  <2>2. next[h] = h => l = h
    <3>. SUFFICES ASSUME n # 1, next[h] = h PROVE FALSE
      BY <1>2 DEF l
    <3>1. 1 \in 1 .. n /\ 1 < n
      BY <1>1
    <3>2. next[At(h, 1)] = At(h, 1+1) /\ At(h, 1+1) # h
      BY <3>1, Neighbours DEF n
    <3>. QED BY <3>2, <1>2
  <2>3. next' = [next EXCEPT ![e] = next[l], ![l] = e]
    BY <2>1, <2>2, <1>2, <1>3, <1>4
  <2>. QED BY <2>1, <2>3, <1>2, <1>3, <1>4
<1>. HIDE DEF Good
<1>. QED BY <1>1, <1>6, <1>7, <1>8, <1>9 DEF n
-----------------------------------------------------------------------------
(* The macros that take out a given element of a doubly-linked list.       *)
LEMMA RemoveTakesOut ==
  ASSUME Shape, NEW h \in Heads, NEW k \in Positions(h),
         LIST_REMOVE(h, k) \/ TAILQ_REMOVE(h, k) \/ CIRCLEQ_REMOVE(h, k)
  PROVE  TakesOut(h, k)
<1>. DEFINE n == Len(chain[h])
            p == At(h, k-1)
            e == At(h, k)
            s == At(h, k+1)
<1>1. k \in 1 .. n /\ n \in Nat /\ k # 1 /\ k <= n /\ kind \in Double
  BY DEF Positions, Shape, LIST_REMOVE, TAILQ_REMOVE, CIRCLEQ_REMOVE, Double
<1>2. /\ k < n => next[e] = s /\ s \in Elements /\ s # NULL /\ s # h
      /\ k = n => next[e] = End(h)
      /\ prev[e] = p /\ p \in Cells
  BY <1>1, Neighbours
<1>3. /\ prev \in [Cells -> Pointer] /\ next \in [Cells -> Pointer]
      /\ h \in Cells /\ (k < n => s \in Cells) /\ Cells \subseteq Pointer
  BY <1>2 DEF Shape, Cells, Pointer
<1>4. chain' = [chain EXCEPT ![h] = Without(chain[h], k)] /\ kind' = kind
  BY DEF LIST_REMOVE, TAILQ_REMOVE, CIRCLEQ_REMOVE, Delete
<1>5. next' = [next EXCEPT ![p] = next[e]]
  <2>1. next' = [next EXCEPT ![prev[e]] = next[e]]
    BY DEF LIST_REMOVE, TAILQ_REMOVE, CIRCLEQ_REMOVE
  <2>. HIDE DEF p, e
  <2>. QED BY <2>1, <1>2, <1>3
<1>. HIDE DEF n, p, e, s
<1>6. k < n \/ k = n
  BY <1>1
<1>. DEFINE Good == /\ prev' \in [Cells -> Pointer]
                    /\ k < n => prev'[s] = p
                    /\ kind \in Tailed => prev'[h] = IF k = n THEN p ELSE prev[h]
                    /\ \A x \in Cells : x # h /\ (k < n => x # s) => prev'[x] = prev[x]
<1>7. ASSUME Good PROVE TakesOut(h, k)
  BY <1>1, <1>4, <1>5, <1>7 DEF TakesOut, n, p, e, s
<1>8. ASSUME LIST_REMOVE(h, k) PROVE Good
  <2>1. /\ kind = "LIST" /\ End(h) = NULL /\ kind \notin Tailed
        /\ prev' = IF next[e] # NULL THEN [prev EXCEPT ![next[e]] = prev[e]] ELSE prev
    BY <1>8 DEF LIST_REMOVE, End, e, Tailed
  <2>2. CASE k < n
    BY <2>1, <2>2, <1>1, <1>2, <1>3
  <2>3. CASE k = n
    BY <2>1, <2>3, <1>1, <1>2, <1>3
  <2>. QED BY <2>2, <2>3, <1>6
<1>9. ASSUME TAILQ_REMOVE(h, k) PROVE Good
  <2>1. /\ kind = "TAILQ" /\ End(h) = NULL
        /\ prev' = [prev EXCEPT ![IF next[e] # NULL THEN next[e] ELSE h] = prev[e]]
    BY <1>9 DEF TAILQ_REMOVE, End, e
  <2>2. CASE k < n
    BY <2>1, <2>2, <1>1, <1>2, <1>3
  <2>3. CASE k = n
    BY <2>1, <2>3, <1>1, <1>2, <1>3
  <2>. QED BY <2>2, <2>3, <1>6
<1>10. ASSUME CIRCLEQ_REMOVE(h, k) PROVE Good
  <2>1. /\ kind = "CIRCLEQ" /\ End(h) = h
        /\ prev' = [prev EXCEPT ![next[e]] = prev[e]]
    BY <1>10 DEF CIRCLEQ_REMOVE, End, e
  <2>2. CASE k < n
    BY <2>1, <2>2, <1>1, <1>2, <1>3
  <2>3. CASE k = n
    BY <2>1, <2>3, <1>1, <1>2, <1>3
  <2>. QED BY <2>2, <2>3, <1>6
<1>. HIDE DEF Good
<1>. QED BY <1>7, <1>8, <1>9, <1>10

(* The macros that take out the first element of a singly-linked list.     *)
LEMMA RemoveHeadTakesOut ==
  ASSUME Shape, NEW h \in Heads, Positions(h) # {},
         \/ SLIST_REMOVE_HEAD(h)
         \/ kind \in SimpleTail /\ TailRemoveHead(h)
  PROVE  TakesOut(h, 2) /\ 2 \in 2 .. Len(chain[h])
<1>. DEFINE n == Len(chain[h])
            e == At(h, 2)
<1>1. n \in Nat /\ n >= 2 /\ 2 \in 2 .. n /\ 1 \in 1 .. n /\ 2 \in 1 .. n
  BY DEF Positions, Shape
<1>2. At(h, 1) = h /\ next[h] = e /\ e \in Cells
  <2>1. At(h, 1) = h /\ next[At(h, 1)] = At(h, 1+1)
    BY <1>1, Neighbours
  <2>. QED BY <2>1, <1>1, Neighbours
<1>3. /\ 2 < n => next[e] \in Elements
      /\ 2 = n => next[e] = End(h)
      /\ kind \in Tailed => prev[h] = At(h, n)
  <2>1. 2 < n => next[e] = At(h, 2+1) /\ At(h, 2+1) \in Elements
    BY <1>1, Neighbours
  <2>2. 2 = n => next[e] = End(h)
    BY <1>1, Neighbours
  <2>3. kind \in Tailed => prev[h] = At(h, n)
    BY <1>1, Neighbours
  <2>. QED BY <2>1, <2>2, <2>3
<1>4. /\ prev \in [Cells -> Pointer] /\ next \in [Cells -> Pointer]
      /\ h \in Cells /\ Cells \subseteq Pointer /\ NULL \notin Elements
  BY QueueAssumption DEF Shape, Cells, Pointer
<1>5. chain' = [chain EXCEPT ![h] = Without(chain[h], 2)] /\ kind' = kind
  BY DEF SLIST_REMOVE_HEAD, TailRemoveHead, Delete
<1>. HIDE DEF n, e
<1>6. next' = [next EXCEPT ![h] = next[e]]
  <2>1. next' = [next EXCEPT ![h] = next[next[h]]]
    BY DEF SLIST_REMOVE_HEAD, TailRemoveHead
  <2>. QED BY <2>1, <1>2
<1>. DEFINE Good == /\ prev' \in [Cells -> Pointer]
                    /\ kind \in Tailed => prev'[h] = IF 2 = n THEN h ELSE prev[h]
                    /\ \A x \in Cells : x # h => prev'[x] = prev[x]
                    /\ kind \notin Double
<1>7. ASSUME Good PROVE TakesOut(h, 2)
  <2>1. 2 - 1 = 1
    OBVIOUS
  <2>2. next' = [next EXCEPT ![At(h, 2-1)] = next[At(h, 2)]]
    BY <2>1, <1>2, <1>4, <1>6 DEF e
  <2>3. kind \in Tailed => prev'[h] = IF 2 = n THEN At(h, 2-1) ELSE prev[h]
    BY <2>1, <1>2, <1>7
  <2>. QED BY <1>5, <1>7, <2>2, <2>3 DEF TakesOut, n
<1>8. ASSUME SLIST_REMOVE_HEAD(h) PROVE Good
  <2>1. kind = "SLIST" /\ prev' = prev
    BY <1>8 DEF SLIST_REMOVE_HEAD
  <2>. QED BY <2>1, <1>4 DEF Double, Tailed
<1>9. ASSUME kind \in SimpleTail, TailRemoveHead(h) PROVE Good
  <2>1. /\ End(h) = NULL /\ kind \notin Double
        /\ prev' = IF next[e] = NULL THEN [prev EXCEPT ![h] = h] ELSE prev
    BY <1>9, <1>2 DEF TailRemoveHead, End, SimpleTail, Double
  <2>2. 2 = n <=> next[e] = NULL
    BY <2>1, <1>1, <1>3, <1>4
  <2>. QED BY <2>1, <2>2, <1>4
<1>. HIDE DEF Good
<1>. QED BY <1>1, <1>7, <1>8, <1>9 DEF n

(* The end of a search takes out the element searched for.                 *)
LEMMA UnlinkTakesOut ==
  ASSUME Shape, SearchBeforeElm, Unlink
  PROVE  head \in Heads /\ \E k \in 2 .. Len(chain[head]) : TakesOut(head, k)
<1>. DEFINE n == Len(chain[head])
<1>1. PICK i, k \in 1 .. n : 1 < i /\ i < k /\ At(head, i) = curelm /\ At(head, k) = elm
  BY DEF SearchBeforeElm, Unlink
<1>2. head \in Heads /\ kind \in Searching /\ End(head) = NULL
  BY DEF SearchBeforeElm, Unlink, End, Searching
<1>3. n \in Nat
  BY <1>2 DEF Shape
<1>4. \A a, b \in 1 .. n : At(head, a) = At(head, b) => a = b
  BY <1>2 DEF Shape, Disjoint
<1>5. k = i + 1
  <2>1. next[At(head, i)] = At(head, i+1)
    BY <1>1, <1>2, <1>3, Neighbours
  <2>2. At(head, i+1) = At(head, k)
    BY <2>1, <1>1 DEF Unlink
  <2>3. i + 1 \in 1 .. n
    BY <1>1, <1>3
  <2>. QED BY <2>2, <2>3, <1>4
<1>6. /\ k < n => next[elm] \in Elements
      /\ k = n => next[elm] = NULL
      /\ kind \in Tailed => prev[head] = At(head, n)
      /\ curelm \in Cells /\ elm \in Cells
  <2>1. /\ k < n => next[At(head, k)] = At(head, k+1) /\ At(head, k+1) \in Elements
        /\ k = n => next[At(head, k)] = End(head)
        /\ kind \in Tailed => prev[head] = At(head, n)
        /\ At(head, k) \in Cells
    BY <1>1, <1>2, Neighbours
  <2>2. At(head, i) \in Cells
    BY <1>1, <1>2, Neighbours
  <2>. QED BY <2>1, <2>2, <1>1, <1>2
<1>7. chain' = [chain EXCEPT ![head] = Without(chain[head], k)]
  <2>1. PICK j \in Positions(head) :
           At(head, j) = elm /\ chain' = [chain EXCEPT ![head] = Without(@, j)]
    BY DEF Unlink
  <2>2. j = k
    BY <2>1, <1>1, <1>3, <1>4 DEF Positions
  <2>. QED BY <2>1, <2>2
<1>8. /\ prev \in [Cells -> Pointer] /\ next \in [Cells -> Pointer]
      /\ head \in Cells /\ Cells \subseteq Pointer /\ NULL \notin Elements
  BY <1>2, QueueAssumption DEF Shape, Cells, Pointer
<1>9. k - 1 = i /\ k \in 2 .. n /\ (k < n \/ k = n)
  BY <1>1, <1>3, <1>5
<1>10. next' = [next EXCEPT ![At(head, k-1)] = next[At(head, k)]]
  <2>1. next' = [next EXCEPT ![curelm] = next[elm]]
    BY DEF Unlink
  <2>. QED BY <2>1, <1>9, <1>1, <1>8
<1>. HIDE DEF n
<1>11. /\ prev' \in [Cells -> Pointer]
       /\ kind \in Tailed => prev'[head] = IF k = n THEN curelm ELSE prev[head]
       /\ \A x \in Cells : x # head => prev'[x] = prev[x]
       /\ kind \notin Double /\ kind' = kind
  <2>1. prev' = IF kind \in SimpleTail /\ next[elm] = NULL
                THEN [prev EXCEPT ![head] = curelm] ELSE prev
    BY DEF Unlink
  <2>2. kind \in Tailed <=> kind \in SimpleTail
    BY <1>2 DEF Searching, SimpleTail, Tailed
  <2>3. next[elm] = NULL <=> k = n
    BY <1>6, <1>8, <1>9
  <2>4. kind \notin Double /\ kind' = kind
    BY <1>2 DEF Searching, Double, Unlink
  <2>5. curelm \in Pointer
    BY <1>6, <1>8
  <2>. QED BY <2>1, <2>2, <2>3, <2>4, <2>5, <1>8
<1>12. At(head, k-1) = curelm
  BY <1>9, <1>1
<1>13. TakesOut(head, k)
  BY <1>7, <1>10, <1>11, <1>12 DEF TakesOut, n
<1>. QED BY <1>2, <1>9, <1>13 DEF n

(* CONCAT joins two lists.                                                 *)
LEMMA ConcatJoins ==
  ASSUME Shape, NEW a \in Heads, NEW b \in Heads, STAILQ_CONCAT(a, b) \/ TAILQ_CONCAT(a, b)
  PROVE  Joins(a, b) /\ a # b /\ Len(chain[b]) >= 2
<1>1. /\ a # b /\ kind \in {"STAILQ", "TAILQ"} /\ kind' = kind /\ next[b] # NULL
      /\ chain' = [chain EXCEPT ![a] = Join(chain[a], chain[b]), ![b] = <<b>>]
      /\ next' = [next EXCEPT ![prev[a]] = next[b], ![b] = NULL]
  <2>1. Concat(a, b) /\ kind \in {"STAILQ", "TAILQ"}
    BY DEF STAILQ_CONCAT, TAILQ_CONCAT
  <2>2. a # b /\ kind' = kind /\ next[b] # NULL
    BY <2>1 DEF Concat, EMPTY, End
  <2>3. chain' = [chain EXCEPT ![a] = Join(chain[a], chain[b]), ![b] = <<b>>]
    BY <2>1 DEF Concat
  <2>. QED BY <2>1, <2>2, <2>3 DEF Concat
<1>2. \A h \in Heads : /\ Len(chain[h]) \in Nat /\ Len(chain[h]) >= 1 /\ At(h, 1) = h
                       /\ prev[h] = At(h, Len(chain[h])) /\ prev[h] \in Cells
  <2>. TAKE h \in Heads
  <2>1. 1 \in 1 .. Len(chain[h]) /\ kind \in Tailed /\ Len(chain[h]) \in 1 .. Len(chain[h])
    BY <1>1 DEF Shape, Represents, Tailed
  <2>2. /\ Len(chain[h]) \in Nat /\ Len(chain[h]) >= 1 /\ At(h, 1) = h
        /\ prev[h] = At(h, Len(chain[h]))
    BY <2>1, Neighbours
  <2>3. At(h, Len(chain[h])) \in Cells
    BY <2>1, Neighbours
  <2>. QED BY <2>2, <2>3
<1>3. Len(chain[b]) >= 2 /\ next[b] = At(b, 2) /\ At(b, 2) \in Elements
  <2>1. 1 \in 1 .. Len(chain[b])
    BY <1>2
  <2>2. /\ 1 < Len(chain[b]) => next[At(b, 1)] = At(b, 1+1) /\ At(b, 1+1) \in Elements
        /\ 1 = Len(chain[b]) => next[At(b, 1)] = End(b)
    <3>1. 1 < Len(chain[b]) => next[At(b, 1)] = At(b, 1+1) /\ At(b, 1+1) \in Elements
      BY SMTT(30), <2>1, Neighbours
    <3>2. 1 = Len(chain[b]) => next[At(b, 1)] = End(b)
      BY <2>1, Neighbours
    <3>. QED BY <3>1, <3>2
  <2>3. End(b) = NULL /\ At(b, 1) = b
    BY <1>1, <1>2 DEF End
  <2>4. Len(chain[b]) # 1
    BY <2>2, <2>3, <1>1
  <2>5. 1 < Len(chain[b]) /\ Len(chain[b]) >= 2
    <3>. DEFINE m == Len(chain[b])
    <3>1. m \in Nat /\ m >= 1 /\ m # 1
      BY <1>2, <2>4
    <3>. HIDE DEF m
    <3>2. 1 < m /\ m >= 2
      BY <3>1
    <3>. QED BY <3>2 DEF m
  <2>. QED BY <2>2, <2>3, <2>5
<1>4. /\ prev \in [Cells -> Pointer] /\ next \in [Cells -> Pointer] /\ Cells \subseteq Pointer
      /\ a \in Cells /\ b \in Cells /\ At(b, 2) \in Cells /\ At(b, 2) # a /\ At(b, 2) # b
  BY <1>3, QueueAssumption DEF Shape, Cells, Pointer
<1>5. next' = [next EXCEPT ![At(a, Len(chain[a]))] = At(b, 2), ![b] = NULL]
  BY <1>1, <1>2, <1>3, <1>4
<1>6. /\ prev' \in [Cells -> Pointer]
      /\ kind \in Double => prev'[At(b, 2)] = prev[a]
      /\ prev'[a] = prev[b] /\ prev'[b] = b
      /\ \A x \in Cells : x # a /\ x # b /\ x # At(b, 2) => prev'[x] = prev[x]
  <2>1. prev[a] \in Pointer /\ prev[b] \in Pointer /\ b \in Pointer
    BY <1>4
  <2>2. CASE STAILQ_CONCAT(a, b)
    <3>1. kind \notin Double /\ prev' = [prev EXCEPT ![a] = prev[b], ![b] = b]
      BY <2>2 DEF STAILQ_CONCAT, Double
    <3>. QED BY <3>1, <2>1, <1>1, <1>4
  <2>3. CASE TAILQ_CONCAT(a, b)
    <3>1. prev' = [prev EXCEPT ![next[b]] = prev[a], ![a] = prev[b], ![b] = b]
      BY <2>3 DEF TAILQ_CONCAT
    <3>. QED BY <3>1, <2>1, <1>1, <1>3, <1>4
  <2>. QED BY <2>2, <2>3
<1>. QED BY <1>1, <1>2, <1>3, <1>5, <1>6 DEF Joins, Tailed
-----------------------------------------------------------------------------
(* The inductive invariant: Represents is kept by a step only if no        *)
(* element is in two lists, and by the end of a search only if the search  *)
(* has not passed the element it looks for.                                *)
QueueInv == TypeOK /\ Represents /\ Disjoint /\ SearchBeforeElm

(* What the lemmas about the lists ask for is part of the invariant.       *)
LEMMA ShapeOfInv == QueueInv => Shape
BY DEF QueueInv, Shape, TypeOK, Pointer

(* A step that leaves the lists in shape and no search going on keeps the  *)
(* invariant.                                                              *)
LEMMA IdleInv ==
  ASSUME Shape', head' \in Heads \cup {NULL}, elm' \in Elements \cup {NULL}, curelm' = NULL
  PROVE  QueueInv'
BY DEF QueueInv, Shape, TypeOK, Pointer, SearchBeforeElm

(* The empty lists of the INIT macros are in shape.                        *)
LEMMA InitInv == Init => QueueInv
<1>. SUFFICES ASSUME Init PROVE QueueInv
  OBVIOUS
<1>1. \A h \in Heads : Len(chain[h]) = 1 /\ At(h, 1) = h /\ chain[h] \in Seq(Cells)
  BY DEF Init, At, Cells
<1>2. Represents
  <2>. SUFFICES ASSUME NEW h \in Heads
                PROVE  /\ Len(chain[h]) >= 1 /\ At(h, 1) = h
                       /\ \A i \in 1 .. Len(chain[h])-1 : next[At(h, i)] = At(h, i+1)
                       /\ next[At(h, Len(chain[h]))] = End(h)
                       /\ kind \in Double =>
                            \A i \in 2 .. Len(chain[h]) : prev[At(h, i)] = At(h, i-1)
                       /\ kind \in Tailed => prev[h] = At(h, Len(chain[h]))
    BY DEF Represents
  <2>1. Len(chain[h]) = 1 /\ At(h, 1) = h
    BY <1>1
  <2>2. next[h] = End(h) /\ (kind \in Tailed => prev[h] = h)
    BY DEF Init, Cells
  <2>3. 1 .. Len(chain[h])-1 = {} /\ 2 .. Len(chain[h]) = {}
    BY <2>1
  <2>. QED BY <2>1, <2>2, <2>3
<1>3. Disjoint
  <2>. SUFFICES ASSUME NEW h \in Heads, NEW g \in Heads, NEW i \in 1 .. Len(chain[h]),
                       NEW j \in 1 .. Len(chain[g]), At(h, i) = At(g, j)
                PROVE  h = g /\ i = j
    BY DEF Disjoint
  <2>1. Len(chain[h]) = 1 /\ Len(chain[g]) = 1
    BY <1>1
  <2>2. i = 1 /\ j = 1
    BY <2>1
  <2>. QED BY <2>2, <1>1
<1>4. TypeOK
  <2>1. chain \in [Heads -> Seq(Cells)]
    BY <1>1 DEF Init
  <2>2. next \in [Cells -> Cells \cup {NULL, Garbage}]
    BY DEF Init, End, Cells
  <2>3. prev \in [Cells -> Cells \cup {NULL, Garbage}]
    BY DEF Init, Cells
  <2>. QED BY <2>1, <2>2, <2>3 DEF TypeOK, Init
<1>5. SearchBeforeElm
  BY DEF Init, SearchBeforeElm
<1>. QED BY <1>2, <1>3, <1>4, <1>5 DEF QueueInv

(* A step of the search alone leaves the lists as they are.                *)
LEMMA SameLists ==
  ASSUME Shape, UNCHANGED <<kind, next, prev, chain>>
  PROVE  Represents' /\ Disjoint'
<1>1. Represents'
  BY DEF Shape, Represents, At, End
<1>2. Disjoint'
  BY DEF Shape, Disjoint, At
<1>. QED BY <1>1, <1>2

(* Every step keeps the invariant.                                         *)
LEMMA NextInv == QueueInv /\ [Next]_vars => QueueInv'
<1>. SUFFICES ASSUME QueueInv, [Next]_vars PROVE QueueInv'
  OBVIOUS
<1>0. /\ Shape /\ head \in Heads \cup {NULL} /\ elm \in Elements \cup {NULL}
      /\ curelm \in Elements \cup {NULL} /\ NULL \notin Elements /\ NULL \notin Heads
  BY ShapeOfInv, QueueAssumption DEF QueueInv, TypeOK
<1>1. ASSUME NEW h \in Heads, NEW e \in Elements, Put(h, e) PROVE QueueInv'
  <2>1. ~Linked(e) /\ curelm = NULL /\ UNCHANGED loop
    BY <1>1 DEF Put, LIST_INSERT_HEAD, SLIST_INSERT_HEAD, TAILQ_INSERT_HEAD, STAILQ_INSERT_HEAD,
       SIMPLEQ_INSERT_HEAD, CIRCLEQ_INSERT_HEAD, STAILQ_INSERT_TAIL, SIMPLEQ_INSERT_TAIL,
       CIRCLEQ_INSERT_TAIL, TAILQ_INSERT_TAIL, TailInsertHead, TailInsertTail, Insert
  <2>2. \E k \in 1 .. Len(chain[h]) : LinksIn(h, k, e)
    BY <1>0, <1>1, HeadLinks, TailLinks DEF Put
  <2>3. Shape'
    BY <1>0, <2>1, <2>2, LinkInKeeps
  <2>. QED BY <1>0, <2>1, <2>3, IdleInv DEF loop
<1>2. ASSUME NEW h \in Heads, NEW e \in Elements, NEW k \in Positions(h), PutAt(h, k, e)
      PROVE  QueueInv'
  <2>1. ~Linked(e) /\ curelm = NULL /\ UNCHANGED loop
    BY <1>2 DEF PutAt, LIST_INSERT_AFTER, LIST_INSERT_BEFORE, TAILQ_INSERT_AFTER,
       TAILQ_INSERT_BEFORE, CIRCLEQ_INSERT_AFTER, CIRCLEQ_INSERT_BEFORE, SLIST_INSERT_AFTER,
       STAILQ_INSERT_AFTER, SIMPLEQ_INSERT_AFTER, TailInsertAfter, Insert
  <2>2. LinksIn(h, k, e) \/ LinksIn(h, k-1, e)
    BY <1>0, <1>2, AfterLinks, BeforeLinks DEF PutAt
  <2>3. k \in 1 .. Len(chain[h]) /\ k-1 \in 1 .. Len(chain[h])
    BY <1>0 DEF Positions, Shape
  <2>4. Shape'
    BY <1>0, <2>1, <2>2, <2>3, LinkInKeeps
  <2>. QED BY <1>0, <2>1, <2>4, IdleInv DEF loop
<1>3. ASSUME NEW h \in Heads, NEW k \in Positions(h), Take(h, k) PROVE QueueInv'
  <2>1. CASE LIST_REMOVE(h, k) \/ TAILQ_REMOVE(h, k) \/ CIRCLEQ_REMOVE(h, k)
    <3>1. curelm = NULL /\ UNCHANGED loop
      BY <2>1 DEF LIST_REMOVE, TAILQ_REMOVE, CIRCLEQ_REMOVE, Delete
    <3>2. Shape'
      BY <1>0, <2>1, RemoveTakesOut, TakeOutKeeps DEF Positions
    <3>. QED BY <1>0, <3>1, <3>2, IdleInv DEF loop
  <2>2. CASE kind \in Searching /\ (SLIST_REMOVE_HEAD(h) \/ (kind \in SimpleTail /\ TailRemoveHead(h)))
    <3>1. curelm = NULL /\ UNCHANGED loop
      BY <2>2 DEF SLIST_REMOVE_HEAD, TailRemoveHead, Delete
    <3>2. Shape'
      BY <1>0, <2>2, RemoveHeadTakesOut, TakeOutKeeps
    <3>. QED BY <1>0, <3>1, <3>2, IdleInv DEF loop
  <2>3. CASE kind \in Searching /\ StartSearch(h, k)
    <3>1. UNCHANGED <<kind, next, prev, chain>> /\ head' = h /\ elm' = At(h, k) /\ curelm' = next[h]
      BY <2>3 DEF StartSearch
    <3>2. k \in 1 .. Len(chain[h]) /\ 1 \in 1 .. Len(chain[h]) /\ Len(chain[h]) \in Nat
          /\ k # 1 /\ 1 < Len(chain[h]) /\ 2 \in 1 .. Len(chain[h])
      BY <1>0 DEF Positions, Shape
    <3>3. At(h, 1) = h /\ next[h] = At(h, 2) /\ At(h, 2) \in Elements
      <4>1. At(h, 1) = h /\ next[At(h, 1)] = At(h, 1+1) /\ At(h, 1+1) \in Elements
        BY <1>0, <3>2, Neighbours
      <4>. QED BY <4>1
    <3>4. At(h, k) \in Elements /\ k # 2
      <4>1. At(h, k) \in Elements
        BY <1>0, <3>2, Neighbours
      <4>. QED BY <4>1, <3>3, <2>3 DEF StartSearch
    <3>5. 1 < 2 /\ 2 < k
      BY <3>2, <3>4
    <3>6. SearchBeforeElm'
      BY <2>3, <3>1, <3>2, <3>3, <3>5 DEF SearchBeforeElm, At
    <3>7. Represents' /\ Disjoint'
      BY <3>1, <1>0, SameLists
    <3>8. TypeOK'
      BY <3>1, <3>3, <3>4 DEF QueueInv, TypeOK
    <3>. QED BY <3>6, <3>7, <3>8 DEF QueueInv
  <2>4. ASSUME SLIST_REMOVE(h, k) PROVE QueueInv'
    <3>1. kind \in Searching
      BY <2>4 DEF SLIST_REMOVE, Searching
    <3>. QED BY <2>4, <3>1, <2>2, <2>3 DEF SLIST_REMOVE
  <2>5. ASSUME STAILQ_REMOVE(h, k) \/ SIMPLEQ_REMOVE(h, k) PROVE QueueInv'
    <3>1. kind \in Searching /\ kind \in SimpleTail /\ TailRemove(h, k)
      BY <2>5 DEF STAILQ_REMOVE, SIMPLEQ_REMOVE, Searching, SimpleTail
    <3>. QED BY <3>1, <2>2, <2>3 DEF TailRemove
  <2>. QED BY <1>3, <2>1, <2>4, <2>5 DEF Take
<1>4. ASSUME NEW h \in Heads, TakeFirst(h) PROVE QueueInv'
  <2>1. /\ Positions(h) # {}
        /\ SLIST_REMOVE_HEAD(h) \/ (kind \in SimpleTail /\ TailRemoveHead(h))
    BY <1>4 DEF TakeFirst, STAILQ_REMOVE_HEAD, SIMPLEQ_REMOVE_HEAD, SimpleTail
  <2>2. curelm = NULL /\ UNCHANGED loop
    BY <2>1 DEF SLIST_REMOVE_HEAD, TailRemoveHead, Delete
  <2>3. Shape'
    BY <1>0, <2>1, RemoveHeadTakesOut, TakeOutKeeps
  <2>. QED BY <1>0, <2>2, <2>3, IdleInv DEF loop
<1>5. ASSUME NEW a \in Heads, NEW b \in Heads, STAILQ_CONCAT(a, b) \/ TAILQ_CONCAT(a, b)
      PROVE  QueueInv'
  <2>1. curelm = NULL /\ UNCHANGED loop
    BY <1>5 DEF STAILQ_CONCAT, TAILQ_CONCAT, Concat
  <2>2. Shape'
    BY <1>0, <1>5, ConcatJoins, JoinKeeps
  <2>. QED BY <1>0, <2>1, <2>2, IdleInv DEF loop
<1>6. ASSUME Search PROVE QueueInv'
  <2>1. /\ UNCHANGED <<kind, next, prev, chain, head, elm>> /\ curelm' = next[curelm]
        /\ curelm # NULL /\ next[curelm] # elm /\ head \in Heads /\ kind \in Searching
    BY <1>6 DEF Search, QueueInv, SearchBeforeElm
  <2>2. PICK i, k \in 1 .. Len(chain[head]) :
           1 < i /\ i < k /\ At(head, i) = curelm /\ At(head, k) = elm
    BY <2>1 DEF QueueInv, SearchBeforeElm
  <2>3. Len(chain[head]) \in Nat
    BY <1>0, <2>1 DEF Shape
  <2>4. next[curelm] = At(head, i+1) /\ At(head, i+1) \in Elements
    <3>1. i < Len(chain[head])
      BY <2>2, <2>3
    <3>. QED BY <1>0, <2>1, <2>2, <3>1, Neighbours
  <2>5. i+1 \in 1 .. Len(chain[head]) /\ 1 < i+1 /\ i+1 < k
    <3>1. i+1 # k
      BY <2>1, <2>2, <2>4
    <3>. QED BY <3>1, <2>2, <2>3
  <2>6. SearchBeforeElm'
    BY <2>1, <2>2, <2>4, <2>5 DEF SearchBeforeElm, At
  <2>7. Represents' /\ Disjoint'
    BY <2>1, <1>0, SameLists
  <2>8. TypeOK'
    BY <2>1, <2>4 DEF QueueInv, TypeOK
  <2>. QED BY <2>6, <2>7, <2>8 DEF QueueInv
<1>7. ASSUME Unlink PROVE QueueInv'
  <2>1. Shape'
    BY <1>0, <1>7, UnlinkTakesOut, TakeOutKeeps DEF QueueInv
  <2>. QED BY <1>7, <2>1, IdleInv DEF Unlink
<1>8. ASSUME UNCHANGED vars PROVE QueueInv'
  BY <1>8 DEF QueueInv, TypeOK, Represents, Disjoint, SearchBeforeElm, At, End, vars
<1>. QED BY <1>1, <1>2, <1>3, <1>4, <1>5, <1>6, <1>7, <1>8 DEF Next

(* The pointers of all six kinds of list always represent the lists: what  *)
(* the macros of queue.h promise, for any number of lists and elements.    *)
THEOREM ListsAreRepresented == Spec => [](TypeOK /\ Represents /\ Disjoint /\ SearchBeforeElm)
<1>1. Init => QueueInv
  BY InitInv
<1>2. QueueInv /\ [Next]_vars => QueueInv'
  BY NextInv
<1>3. QueueInv => TypeOK /\ Represents /\ Disjoint /\ SearchBeforeElm
  BY DEF QueueInv
<1>. QED BY <1>1, <1>2, <1>3, PTL DEF Spec
=============================================================================
