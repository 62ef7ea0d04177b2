------------------------- MODULE FileStorage_proofs -------------------------
(***************************************************************************)
(* The registry is right for any number of callers, calls, names and       *)
(* nodes.  The inductive invariant says what each thread may rely on at    *)
(* each place it can stand: inside the lock it is the only one there, the  *)
(* node it holds is its own, and the task's walk has saved a prefix of the *)
(* list.                                                                   *)
(***************************************************************************)
EXTENDS FileStorage, SequenceTheorems, TLAPS

(* The places a thread can stand, and that the lock is held by whoever     *)
(* stands inside.                                                          *)
Places ==
  /\ \A c \in Callers : pc[c] \in (InLock \ {"walk"}) \cup {"idle", "lock"}
  /\ pc[Task] \in {"sleep", "none", "walk", "unlock"}
  /\ \A t \in Threads : pc[t] \in InLock => owner = t
  /\ \A c \in Callers : pc[c] \in {"link", "publish"} => op[c] = "register"
  /\ \A c \in Callers : pc[c] \in {"look", "remove", "free"} => op[c] # "register"

Holding(c) ==
  \/ op[c] = "register" /\ pc[c] \in {"lock", "link", "publish"}
  \/ pc[c] = "free"

(* A node in a caller's hands is allocated and is in no list; between the  *)
(* two assignments of an insertion it already points to the first node.    *)
HeldIsOut ==
  \A c \in Callers : Holding(c) =>
    /\ fs[c] \in Nodes /\ fs[c] \notin Registered
    /\ name[fs[c]] \in Names
    /\ pc[c] = "publish" => next[fs[c]] = first

(* It is in nobody else's hands.                                           *)
OneHolder ==
  \A c, d \in Callers : Holding(c) /\ Holding(d) /\ fs[c] = fs[d] => c = d

(* A caller about to remove the first node has that node in fs.            *)
RemovesFirst ==
  \A c \in Callers : pc[c] = "remove" => fs[c] = first /\ list # <<>>

(* A named node that is in no list is in somebody's hands.                 *)
NoneLost ==
  \A n \in Nodes : name[n] \in Names /\ n \notin Registered =>
    \E c \in Callers : Holding(c) /\ fs[c] = n

Hands == HeldIsOut /\ OneHolder /\ RemovesFirst /\ NoneLost

(* The walk has saved the nodes before the one it stands on.               *)
Walk ==
  /\ pc[Task] = "walk" => \E k \in 1 .. Len(list) + 1 :
       /\ saved = {list[i] : i \in 1 .. k - 1}
       /\ fs[Task] = IF k = Len(list) + 1 THEN NULL ELSE list[k]
  /\ pc[Task] = "unlock" => saved = Registered
  /\ pc[Task] \in {"sleep", "none"} => saved = {}

IInv == TypeOK /\ ListIsRegistered /\ Places /\ Hands /\ Walk

(* The invariant holds after file_storage_init.                            *)
LEMMA InitInv == Init => IInv
<1>. SUFFICES ASSUME Init PROVE IInv
  OBVIOUS
<1>. USE RegistryAssumption DEF Init
<1>1. TypeOK
  BY DEF TypeOK, Threads, InLock, Ops
<1>2. ListIsRegistered /\ Registered = {}
  BY DEF ListIsRegistered, Registered
<1>3. Places
  BY DEF Places, Threads, InLock
<1>4. Hands
  BY <1>2 DEF Hands, HeldIsOut, OneHolder, RemovesFirst, NoneLost, Holding, Threads
<1>5. Walk
  BY DEF Walk, Threads
<1>. QED
  BY <1>1, <1>2, <1>3, <1>4, <1>5 DEF IInv

(* A step that leaves the list, the saved nodes and the task's place and   *)
(* position alone leaves the walk alone.                                   *)
LEMMA WalkKept ==
  ASSUME Walk, list' = list, saved' = saved,
         pc'[Task] = pc[Task], fs'[Task] = fs[Task]
  PROVE  Walk'
BY DEF Walk, Registered

(* A step of one caller that leaves the list alone keeps what the others   *)
(* hold.                                                                   *)
LEMMA OthersKept ==
  ASSUME NEW c \in Callers,
         \A d \in Callers : d # c => pc'[d] = pc[d] /\ op'[d] = op[d] /\ fs'[d] = fs[d]
  PROVE  \A d \in Callers : d # c => (Holding(d)' <=> Holding(d))
BY DEF Holding

(* A call of file_storage_unregister.                                      *)
LEMMA UnregisterInv ==
  ASSUME IInv, NEW c \in Callers, NEW f \in Names, Unregister(c, f)
  PROVE  IInv'
<1>. USE RegistryAssumption DEF IInv, Unregister, Goto, Called
<1>1. TypeOK'
  BY DEF TypeOK, Threads, InLock, Ops
<1>2. ListIsRegistered'
  BY DEF TypeOK, ListIsRegistered
<1>3. Places'
  BY DEF TypeOK, Places, Threads, InLock, Ops
<1>4. Hands'
  <2>1. Registered' = Registered
    BY DEF Registered
  <2>2. \A d \in Callers : d # c =>
           pc'[d] = pc[d] /\ op'[d] = op[d] /\ fs'[d] = fs[d] /\ (Holding(d)' <=> Holding(d))
    BY OthersKept DEF TypeOK, Threads
  <2>3. ~Holding(c) /\ ~Holding(c)' /\ pc'[c] = "lock"
    BY DEF Holding, TypeOK, Threads, Places, InLock
  <2>4. HeldIsOut'
    BY <2>1, <2>2, <2>3 DEF HeldIsOut, Hands, TypeOK, Places, Threads, InLock
  <2>5. OneHolder'
    BY <2>1, <2>2, <2>3 DEF OneHolder, HeldIsOut, Hands, TypeOK
  <2>6. RemovesFirst'
    BY <2>1, <2>2, <2>3 DEF RemovesFirst, Hands, TypeOK, Threads
  <2>7. NoneLost'
    <3>1. SUFFICES ASSUME NEW n \in Nodes, name'[n] \in Names, n \notin Registered'
                   PROVE  \E d \in Callers : Holding(d)' /\ fs'[d] = n
      BY DEF NoneLost
    <3>2. PICK d \in Callers : Holding(d) /\ fs[d] = n
      BY <2>1, <3>1 DEF NoneLost, Hands
    <3>. QED
      BY <2>2, <2>3, <3>2
  <2>. QED
    BY <2>4, <2>5, <2>6, <2>7 DEF Hands
<1>5. Walk'
  BY WalkKept DEF TypeOK, Threads
<1>. QED
  BY <1>1, <1>2, <1>3, <1>4, <1>5

(* A call of file_storage_unregister_all.                                  *)
LEMMA UnregisterAllInv ==
  ASSUME IInv, NEW c \in Callers, UnregisterAll(c)
  PROVE  IInv'
<1>. USE RegistryAssumption DEF IInv, UnregisterAll, Goto, Called
<1>1. TypeOK'
  BY DEF TypeOK, Threads, InLock, Ops
<1>2. ListIsRegistered'
  BY DEF TypeOK, ListIsRegistered
<1>3. Places'
  BY DEF TypeOK, Places, Threads, InLock, Ops
<1>4. Hands'
  <2>1. Registered' = Registered
    BY DEF Registered
  <2>2. \A d \in Callers : d # c =>
           pc'[d] = pc[d] /\ op'[d] = op[d] /\ fs'[d] = fs[d] /\ (Holding(d)' <=> Holding(d))
    BY OthersKept DEF TypeOK, Threads
  <2>3. ~Holding(c) /\ ~Holding(c)' /\ pc'[c] = "lock"
    BY DEF Holding, TypeOK, Threads, Places, InLock
  <2>4. HeldIsOut'
    BY <2>1, <2>2, <2>3 DEF HeldIsOut, Hands, TypeOK, Places, Threads, InLock
  <2>5. OneHolder'
    BY <2>1, <2>2, <2>3 DEF OneHolder, HeldIsOut, Hands, TypeOK
  <2>6. RemovesFirst'
    BY <2>1, <2>2, <2>3 DEF RemovesFirst, Hands, TypeOK, Threads
  <2>7. NoneLost'
    <3>1. SUFFICES ASSUME NEW n \in Nodes, name'[n] \in Names, n \notin Registered'
                   PROVE  \E d \in Callers : Holding(d)' /\ fs'[d] = n
      BY DEF NoneLost
    <3>2. PICK d \in Callers : Holding(d) /\ fs[d] = n
      BY <2>1, <3>1 DEF NoneLost, Hands
    <3>. QED
      BY <2>2, <2>3, <3>2
  <2>. QED
    BY <2>4, <2>5, <2>6, <2>7 DEF Hands
<1>5. Walk'
  BY WalkKept DEF TypeOK, Threads
<1>. QED
  BY <1>1, <1>2, <1>3, <1>4, <1>5

(* A caller gets the lock.                                                 *)
LEMMA CallerLocksInv ==
  ASSUME IInv, NEW c \in Callers, CallerLocks(c)
  PROVE  IInv'
<1>. USE RegistryAssumption DEF IInv, CallerLocks, LOCK, Goto, Called
<1>1. TypeOK'
  BY DEF TypeOK, Threads, InLock, Ops
<1>2. ListIsRegistered'
  BY DEF TypeOK, ListIsRegistered
<1>3. Places'
  BY DEF TypeOK, Places, Threads, InLock, Ops
<1>4. Hands'
  <2>1. Registered' = Registered
    BY DEF Registered
  <2>2. \A d \in Callers : d # c =>
           pc'[d] = pc[d] /\ op'[d] = op[d] /\ fs'[d] = fs[d] /\ (Holding(d)' <=> Holding(d))
    BY OthersKept DEF TypeOK, Threads
  <2>3. (Holding(c)' <=> Holding(c)) /\ pc'[c] \in {"link", "look"} /\ fs'[c] = fs[c]
    BY DEF Holding, TypeOK, Threads, Places, InLock
  <2>4. HeldIsOut'
    BY <2>1, <2>2, <2>3 DEF HeldIsOut, Hands, TypeOK, Places, Threads, InLock
  <2>5. OneHolder'
    BY <2>1, <2>2, <2>3 DEF OneHolder, HeldIsOut, Hands, TypeOK
  <2>6. RemovesFirst'
    BY <2>1, <2>2, <2>3 DEF RemovesFirst, Hands, TypeOK, Threads
  <2>7. NoneLost'
    BY <2>1, <2>2, <2>3 DEF NoneLost, Hands, TypeOK
  <2>. QED
    BY <2>4, <2>5, <2>6, <2>7 DEF Hands
<1>5. Walk'
  BY WalkKept DEF TypeOK, Threads
<1>. QED
  BY <1>1, <1>2, <1>3, <1>4, <1>5

(* A registration that allocates its node, or gives up.                    *)
LEMMA RegisterInv ==
  ASSUME IInv, NEW c \in Callers, NEW p \in Names \cup {NULL}, Register(c, p)
  PROVE  IInv'
<1>. USE RegistryAssumption DEF IInv, Register, Goto, Called
<1>1. TypeOK'
  BY DEF TypeOK, Threads, InLock, Ops
<1>2. ListIsRegistered'
  BY DEF TypeOK, ListIsRegistered
<1>3. Places'
  BY DEF TypeOK, Places, Threads, InLock, Ops
<1>4. Hands'
  <2>1. Registered' = Registered /\ \A n \in Registered : n \in Nodes /\ name[n] \in Names
    BY DEF Registered, TypeOK, ListIsRegistered
  <2>2. \A d \in Callers : d # c =>
           pc'[d] = pc[d] /\ op'[d] = op[d] /\ fs'[d] = fs[d] /\ (Holding(d)' <=> Holding(d))
    BY OthersKept DEF TypeOK, Threads
  <2>3. PICK n \in Nodes :
           /\ name[n] = Free
           /\ name' = [name EXCEPT ![n] = IF p = NULL THEN Unnamed ELSE p]
           /\ fs' = [fs EXCEPT ![c] = IF p = NULL THEN NULL ELSE n]
           /\ pc' = [pc EXCEPT ![c] = IF p = NULL THEN "idle" ELSE "lock"]
    OBVIOUS
  <2>a. ~Holding(c) /\ (Holding(c)' <=> p # NULL) /\ pc'[c] \in {"idle", "lock"}
    BY <2>3 DEF Holding, TypeOK, Threads
  <2>b. n \notin Registered /\ \A d \in Callers : Holding(d) => fs[d] # n
    BY <2>1, <2>3 DEF Hands, HeldIsOut
  <2>c. p # NULL => fs'[c] = n /\ name'[n] = p /\ p \in Names
    BY <2>3 DEF TypeOK, Threads
  <2>d. \A m \in Nodes : m # n => name'[m] = name[m]
    BY <2>3 DEF TypeOK
  <2>e. p = NULL => name'[n] \notin Names
    BY <2>3 DEF TypeOK
  <2>4. HeldIsOut'
    BY <2>1, <2>2, <2>a, <2>b, <2>c, <2>d DEF HeldIsOut, Hands
  <2>5. OneHolder'
    BY <2>1, <2>2, <2>a, <2>b, <2>c DEF OneHolder, Hands
  <2>6. RemovesFirst'
    BY <2>1, <2>2, <2>a DEF RemovesFirst, Hands
  <2>7. NoneLost'
    <3>1. SUFFICES ASSUME NEW m \in Nodes, name'[m] \in Names, m \notin Registered
                   PROVE  \E d \in Callers : Holding(d)' /\ fs'[d] = m
      BY <2>1 DEF NoneLost
    <3>2. CASE m = n
      BY <3>1, <3>2, <2>a, <2>c, <2>e
    <3>3. CASE m # n
      BY <3>1, <3>3, <2>2, <2>a, <2>d DEF NoneLost, Hands
    <3>. QED
      BY <3>2, <3>3
  <2>. QED
    BY <2>4, <2>5, <2>6, <2>7 DEF Hands
<1>5. Walk'
  BY WalkKept DEF TypeOK, Threads
<1>. QED
  BY <1>1, <1>2, <1>3, <1>4, <1>5

(* A caller lets the lock go and returns.                                  *)
LEMMA UnlockInv ==
  ASSUME IInv, NEW c \in Callers, UNLOCK(c)
  PROVE  IInv'
<1>. USE RegistryAssumption DEF IInv, UNLOCK, Goto, Called
<1>1. TypeOK'
  BY DEF TypeOK, Threads, InLock, Ops
<1>2. ListIsRegistered'
  BY DEF TypeOK, ListIsRegistered
<1>3. Places'
  BY DEF TypeOK, Places, Threads, InLock, Ops
<1>4. Hands'
  <2>1. Registered' = Registered
    BY DEF Registered
  <2>2. \A d \in Callers : d # c =>
           pc'[d] = pc[d] /\ op'[d] = op[d] /\ fs'[d] = fs[d] /\ (Holding(d)' <=> Holding(d))
    BY OthersKept DEF TypeOK, Threads
  <2>3. ~Holding(c) /\ ~Holding(c)' /\ pc'[c] = "idle"
    BY DEF Holding, TypeOK, Threads, Places, InLock
  <2>4. HeldIsOut'
    BY <2>1, <2>2, <2>3 DEF HeldIsOut, Hands, TypeOK, Places, Threads, InLock
  <2>5. OneHolder'
    BY <2>1, <2>2, <2>3 DEF OneHolder, HeldIsOut, Hands, TypeOK
  <2>6. RemovesFirst'
    BY <2>1, <2>2, <2>3 DEF RemovesFirst, Hands, TypeOK, Threads
  <2>7. NoneLost'
    <3>1. SUFFICES ASSUME NEW n \in Nodes, name[n] \in Names, n \notin Registered
                   PROVE  \E d \in Callers : Holding(d)' /\ fs'[d] = n
      BY <2>1 DEF NoneLost
    <3>2. PICK d \in Callers : Holding(d) /\ fs[d] = n
      BY <3>1 DEF NoneLost, Hands
    <3>3. d # c
      BY <2>3, <3>2
    <3>. QED
      BY <2>2, <3>2, <3>3
  <2>. QED
    BY <2>4, <2>5, <2>6, <2>7 DEF Hands
<1>5. Walk'
  BY WalkKept DEF TypeOK, Threads
<1>. QED
  BY <1>1, <1>2, <1>3, <1>4, <1>5

(* The task lets the lock go and goes to sleep.                            *)
LEMMA TaskUnlocksInv ==
  ASSUME IInv, UNLOCK(Task)
  PROVE  IInv'
<1>. USE RegistryAssumption DEF IInv, UNLOCK, Goto, Called
<1>1. TypeOK'
  BY DEF TypeOK, Threads, InLock, Ops
<1>2. ListIsRegistered'
  BY DEF TypeOK, ListIsRegistered
<1>3. Places'
  BY DEF TypeOK, Places, Threads, InLock, Ops
<1>4. Hands'
  <2>1. Registered' = Registered
    BY DEF Registered
  <2>2. \A d \in Callers :
           pc'[d] = pc[d] /\ op'[d] = op[d] /\ fs'[d] = fs[d] /\ (Holding(d)' <=> Holding(d))
    BY DEF TypeOK, Threads, Holding
  <2>4. HeldIsOut'
    BY <2>1, <2>2 DEF HeldIsOut, Hands
  <2>5. OneHolder'
    BY <2>1, <2>2 DEF OneHolder, Hands
  <2>6. RemovesFirst'
    BY <2>1, <2>2 DEF RemovesFirst, Hands
  <2>7. NoneLost'
    BY <2>1, <2>2 DEF NoneLost, Hands
  <2>. QED
    BY <2>4, <2>5, <2>6, <2>7 DEF Hands
<1>5. Walk'
  BY DEF Walk, TypeOK, Threads
<1>. QED
  BY <1>1, <1>2, <1>3, <1>4, <1>5

(* The first assignment of an insertion.                                   *)
LEMMA LinkInv ==
  ASSUME IInv, NEW c \in Callers, Link(c)
  PROVE  IInv'
<1>. USE RegistryAssumption DEF IInv, Link, Goto, Called
<1>1. TypeOK'
  BY DEF TypeOK, Threads, InLock, Ops
<1>2. ListIsRegistered'
  <2>1. Holding(c)
    BY DEF Holding, Places
  <2>2. fs[c] \notin Registered
    BY <2>1 DEF Hands, HeldIsOut
  <2>. QED
    BY <2>2 DEF TypeOK, ListIsRegistered, Registered
<1>3. Places'
  BY DEF TypeOK, Places, Threads, InLock, Ops
<1>4. Hands'
  <2>1. Registered' = Registered
    BY DEF Registered
  <2>2. \A d \in Callers : d # c =>
           pc'[d] = pc[d] /\ op'[d] = op[d] /\ fs'[d] = fs[d] /\ (Holding(d)' <=> Holding(d))
    BY OthersKept DEF TypeOK, Threads
  <2>3. Holding(c) /\ Holding(c)' /\ fs'[c] = fs[c] /\ pc'[c] = "publish"
    BY DEF Holding, Places, TypeOK, Threads
  <2>a. \A d \in Callers : d # c => pc[d] # "publish"
    BY DEF Places, Threads, InLock
  <2>b. fs[c] \in Nodes => next'[fs[c]] = first
    BY DEF TypeOK
  <2>4. HeldIsOut'
    BY <2>1, <2>2, <2>3, <2>a, <2>b DEF HeldIsOut, Hands
  <2>5. OneHolder'
    BY <2>1, <2>2, <2>3 DEF OneHolder, Hands
  <2>6. RemovesFirst'
    BY <2>1, <2>2, <2>3 DEF RemovesFirst, Hands
  <2>7. NoneLost'
    BY <2>1, <2>2, <2>3 DEF NoneLost, Hands
  <2>. QED
    BY <2>4, <2>5, <2>6, <2>7 DEF Hands
<1>5. Walk'
  BY WalkKept DEF TypeOK, Threads
<1>. QED
  BY <1>1, <1>2, <1>3, <1>4, <1>5

(* The task wakes up and starts its walk.                                  *)
LEMMA TaskLocksInv ==
  ASSUME IInv, TaskLocks
  PROVE  IInv'
<1>. USE RegistryAssumption DEF IInv, TaskLocks, LOCK, Goto, Called
<1>1. TypeOK'
  BY DEF TypeOK, Threads, InLock, Ops
<1>2. ListIsRegistered'
  BY DEF TypeOK, ListIsRegistered
<1>3. Places'
  BY DEF TypeOK, Places, Threads, InLock, Ops
<1>4. Hands'
  <2>1. Registered' = Registered
    BY DEF Registered
  <2>2. \A d \in Callers :
           pc'[d] = pc[d] /\ op'[d] = op[d] /\ fs'[d] = fs[d] /\ (Holding(d)' <=> Holding(d))
    BY DEF TypeOK, Threads, Holding
  <2>4. HeldIsOut'
    BY <2>1, <2>2 DEF HeldIsOut, Hands
  <2>5. OneHolder'
    BY <2>1, <2>2 DEF OneHolder, Hands
  <2>6. RemovesFirst'
    BY <2>1, <2>2 DEF RemovesFirst, Hands
  <2>7. NoneLost'
    BY <2>1, <2>2 DEF NoneLost, Hands
  <2>. QED
    BY <2>4, <2>5, <2>6, <2>7 DEF Hands
<1>5. Walk'
  <2>1. pc'[Task] = "walk" /\ fs'[Task] = first
    BY DEF TypeOK, Threads
  <2>2. Len(list) \in Nat /\ (list = <<>> <=> Len(list) = 0)
    BY DEF TypeOK
  <2>3. saved' = {list[i] : i \in 1 .. 1 - 1}
    BY DEF Walk
  <2>4. first = IF 1 = Len(list) + 1 THEN NULL ELSE list[1]
    BY <2>2 DEF ListIsRegistered
  <2>5. 1 \in 1 .. Len(list) + 1
    BY <2>2
  <2>. QED
    BY <2>1, <2>3, <2>4, <2>5 DEF Walk
<1>. QED
  BY <1>1, <1>2, <1>3, <1>4, <1>5

(* The task saves a file and moves on.                                     *)
LEMMA TaskSavesInv ==
  ASSUME IInv, TaskSaves
  PROVE  IInv'
<1>. USE RegistryAssumption DEF IInv, TaskSaves, Goto, Called
<1>1. TypeOK'
  BY DEF TypeOK, Threads, InLock, Ops
<1>2. ListIsRegistered'
  BY DEF TypeOK, ListIsRegistered
<1>3. Places'
  <2>1. pc'[Task] \in {"walk", "unlock"} /\ \A c \in Callers : pc'[c] = pc[c]
    BY DEF TypeOK, Threads
  <2>2. owner' = owner /\ op' = op /\ owner = Task
    BY DEF Places, Threads, InLock
  <2>. QED
    BY <2>1, <2>2 DEF Places, Threads, InLock
<1>4. Hands'
  <2>1. Registered' = Registered
    BY DEF Registered
  <2>2. \A d \in Callers :
           pc'[d] = pc[d] /\ op'[d] = op[d] /\ fs'[d] = fs[d] /\ (Holding(d)' <=> Holding(d))
    BY DEF TypeOK, Threads, Holding
  <2>4. HeldIsOut'
    BY <2>1, <2>2 DEF HeldIsOut, Hands
  <2>5. OneHolder'
    BY <2>1, <2>2 DEF OneHolder, Hands
  <2>6. RemovesFirst'
    BY <2>1, <2>2 DEF RemovesFirst, Hands
  <2>7. NoneLost'
    BY <2>1, <2>2 DEF NoneLost, Hands
  <2>. QED
    BY <2>4, <2>5, <2>6, <2>7 DEF Hands
<1>5. Walk'
  <2>1. PICK k \in 1 .. Len(list) + 1 :
           /\ saved = {list[i] : i \in 1 .. k - 1}
           /\ fs[Task] = IF k = Len(list) + 1 THEN NULL ELSE list[k]
    BY DEF Walk
  <2>2. Len(list) \in Nat /\ k \in Nat /\ DOMAIN list = 1 .. Len(list)
    BY DEF TypeOK
  <2>3. \A i \in 1 .. Len(list) : list[i] \in Nodes /\ list[i] # NULL
    BY <2>2 DEF TypeOK
  <2>4. CASE fs[Task] = NULL
    <3>1. k = Len(list) + 1
      BY <2>1, <2>2, <2>3, <2>4
    <3>2. saved = Registered
      BY <2>1, <2>2, <3>1 DEF Registered
    <3>. QED
      BY <2>4, <3>2 DEF Walk, TypeOK, Threads, Registered
  <2>5. CASE fs[Task] # NULL
    <3>1. k \in 1 .. Len(list) /\ fs[Task] = list[k]
      BY <2>1, <2>2, <2>5
    <3>2. saved' = {list[i] : i \in 1 .. (k + 1) - 1}
      <4>1. saved' = saved \cup {list[k]}
        BY <2>5, <3>1
      <4>2. 1 .. (k + 1) - 1 = (1 .. k - 1) \cup {k}
        BY <2>2, <3>1
      <4>. QED
        BY <2>1, <4>1, <4>2
    <3>3. fs'[Task] = IF k + 1 = Len(list) + 1 THEN NULL ELSE list[k + 1]
      <4>1. fs'[Task] = next[list[k]]
        BY <2>5, <3>1 DEF TypeOK, Threads
      <4>2. next[list[k]] = IF k = Len(list) THEN NULL ELSE list[k + 1]
        BY <2>2, <3>1 DEF ListIsRegistered
      <4>. QED
        <5>1. k + 1 = Len(list) + 1 <=> k = Len(list)
          <6>1. \A a, b \in Nat : a + 1 = b + 1 <=> a = b
            OBVIOUS
          <6>. QED
            BY <2>2, <6>1
        <5>. QED
          BY <4>1, <4>2, <5>1
    <3>4. k + 1 \in 1 .. Len(list) + 1
      BY <2>2, <3>1
    <3>. QED
      BY <2>5, <3>2, <3>3, <3>4 DEF Walk
  <2>. QED
    BY <2>4, <2>5
<1>. QED
  BY <1>1, <1>2, <1>3, <1>4, <1>5

(* The members of a list of nodes.                                         *)
Members(s) == {s[i] : i \in DOMAIN s}

(* What putting a node in front of a list does to its places.              *)
LEMMA FrontOfList ==
  ASSUME NEW s \in Seq(Nodes), NEW t \in Seq(Nodes), NEW x \in Nodes, t = <<x>> \o s
  PROVE  /\ Len(t) = Len(s) + 1 /\ t # <<>> /\ t[1] = x
         /\ \A i \in 1 .. Len(s) : t[i + 1] = s[i]
OBVIOUS

(* A node put in front of a list joins its members.                        *)
LEMMA MembersFront ==
  ASSUME NEW s \in Seq(Nodes), NEW t \in Seq(Nodes), NEW x \in Nodes, t = <<x>> \o s
  PROVE  Members(t) = Members(s) \cup {x}
<1>. DEFINE n == Len(s)
<1>1. n \in Nat /\ DOMAIN s = 1 .. n /\ DOMAIN t = 1 .. n + 1 /\ t[1] = x
  BY FrontOfList
<1>2. \A i \in 1 .. n : t[i + 1] = s[i]
  BY FrontOfList
<1>. HIDE DEF n
<1>3. \A i \in 1 .. n : i + 1 \in 1 .. n + 1
  BY <1>1
<1>4. \A i \in 1 .. n + 1 : i = 1 \/ (i - 1 \in 1 .. n /\ t[i] = s[i - 1])
  BY <1>1, <1>2
<1>5. ASSUME NEW m PROVE m \in Members(t) <=> m \in Members(s) \cup {x}
  <2>1. ASSUME NEW i \in 1 .. n + 1, m = t[i] PROVE m \in {s[k] : k \in 1 .. n} \cup {x}
    BY <1>1, <1>4, <2>1
  <2>2. ASSUME NEW i \in 1 .. n, m = s[i] PROVE m \in {t[k] : k \in 1 .. n + 1}
    BY <1>2, <1>3, <2>2
  <2>3. x \in {t[k] : k \in 1 .. n + 1}
    <3>1. 1 \in 1 .. n + 1
      BY <1>1
    <3>. QED
      BY <1>1, <3>1
  <2>. QED
    BY <1>1, <2>1, <2>2, <2>3 DEF Members
<1>. QED
  BY <1>5

(* The list l is linked in memory from f on: ListIsRegistered of any list. *)
Linked(l, f, nx) ==
  /\ f = IF l = <<>> THEN NULL ELSE l[1]
  /\ \A i \in DOMAIN l :
       /\ nx[l[i]] = IF i = Len(l) THEN NULL ELSE l[i + 1]
       /\ \A j \in DOMAIN l : l[i] = l[j] => i = j

(* A list is linked exactly when its first node is the head, points to the *)
(* rest, which is linked, and is not in the rest.                          *)
LEMMA LinkedFront ==
  ASSUME NEW s \in Seq(Nodes), NEW t \in Seq(Nodes), NEW x \in Nodes, t = <<x>> \o s, NEW nx
  PROVE  Linked(t, x, nx) <=> /\ x \notin Members(s)
                              /\ Linked(s, nx[x], nx)
<1>. DEFINE n == Len(s)
<1>1. /\ n \in Nat /\ DOMAIN s = 1 .. n /\ DOMAIN t = 1 .. n + 1 /\ Len(t) = n + 1
      /\ t # <<>> /\ t[1] = x /\ (s = <<>> <=> n = 0)
  BY FrontOfList
<1>2. \A i \in 1 .. n : t[i + 1] = s[i] /\ i + 1 \in 1 .. n + 1 /\ i + 1 # 1
  BY FrontOfList
<1>. HIDE DEF n
<1>3. \A i \in 1 .. n + 1 : i = 1 \/ (i - 1 \in 1 .. n /\ t[i] = s[i - 1] /\ (i - 1) + 1 = i)
  BY <1>1, <1>2
<1>4. 1 \in 1 .. n + 1 /\ (1 = n + 1 <=> n = 0) /\ (n # 0 => 1 \in 1 .. n /\ t[1 + 1] = s[1])
  BY <1>1, <1>2
<1>5. \A i, j \in 1 .. n : (i + 1 = j + 1 <=> i = j) /\ (i + 1 = n + 1 <=> i = n)
  BY <1>1
<1>6. \A i \in 1 .. n : i # n => i + 1 \in 1 .. n /\ t[(i + 1) + 1] = s[i + 1]
  BY <1>1, <1>2
<1>7. ASSUME Linked(t, x, nx)
      PROVE  x \notin Members(s) /\ Linked(s, nx[x], nx)
  <2>1. \A i, j \in 1 .. n + 1 : t[i] = t[j] => i = j
    BY <1>1, <1>7 DEF Linked
  <2>2. \A i \in 1 .. n + 1 : nx[t[i]] = IF i = n + 1 THEN NULL ELSE t[i + 1]
    BY <1>1, <1>7 DEF Linked
  <2>3. x \notin Members(s)
    BY <1>1, <1>2, <1>4, <2>1 DEF Members
  <2>4. nx[x] = IF s = <<>> THEN NULL ELSE s[1]
    BY <1>1, <1>4, <2>2
  <2>5. \A i \in 1 .. n : nx[s[i]] = IF i = n THEN NULL ELSE s[i + 1]
    <3>1. ASSUME NEW i \in 1 .. n PROVE nx[s[i]] = IF i + 1 = n + 1 THEN NULL ELSE t[(i + 1) + 1]
      BY <1>2, <2>2
    <3>. QED
      BY <1>5, <1>6, <3>1
  <2>6. ASSUME NEW i \in 1 .. n, NEW j \in 1 .. n, s[i] = s[j] PROVE i = j
    <3>1. t[i + 1] = t[j + 1] /\ i + 1 \in 1 .. n + 1 /\ j + 1 \in 1 .. n + 1
      BY <1>2, <2>6
    <3>2. i + 1 = j + 1
      BY <2>1, <3>1
    <3>. QED
      BY <1>5, <3>2
  <2>. QED
    BY <1>1, <2>3, <2>4, <2>5, <2>6 DEF Linked, n
<1>8. ASSUME x \notin Members(s), Linked(s, nx[x], nx)
      PROVE  Linked(t, x, nx)
  <2>1. \A i \in 1 .. n : s[i] # x
    BY <1>1, <1>8 DEF Members
  <2>2. \A i, j \in 1 .. n : s[i] = s[j] => i = j
    BY <1>1, <1>8 DEF Linked
  <2>3. \A i \in 1 .. n : nx[s[i]] = IF i = n THEN NULL ELSE s[i + 1]
    BY <1>1, <1>8 DEF Linked, n
  <2>4. nx[x] = IF s = <<>> THEN NULL ELSE s[1]
    BY <1>8 DEF Linked
  <2>5. ASSUME NEW i \in 1 .. n + 1
        PROVE  nx[t[i]] = IF i = n + 1 THEN NULL ELSE t[i + 1]
    <3>1. CASE i = 1
      BY <1>1, <1>4, <2>4, <3>1
    <3>2. CASE i # 1
      <4>1. PICK k \in 1 .. n : i = k + 1 /\ t[i] = s[k]
        BY <1>3, <3>2
      <4>. QED
        BY <1>5, <1>6, <2>3, <4>1
    <3>. QED
      BY <3>1, <3>2
  <2>6. ASSUME NEW i \in 1 .. n + 1, NEW j \in 1 .. n + 1, t[i] = t[j] PROVE i = j
    BY <1>1, <1>3, <2>1, <2>2, <2>6
  <2>. QED
    BY <1>1, <2>5, <2>6 DEF Linked
<1>. QED
  BY <1>7, <1>8

(* The second assignment of an insertion: the node joins the list.         *)
LEMMA PublishInv ==
  ASSUME IInv, NEW c \in Callers, Publish(c)
  PROVE  IInv'
<1>. DEFINE x == fs[c]
<1>. USE RegistryAssumption DEF IInv
<1>a. /\ pc[c] = "publish" /\ first' = x /\ list' = <<x>> \o list
      /\ pc' = [pc EXCEPT ![c] = "unlock"]
      /\ UNCHANGED <<next, name, owner, op, arg, fs, saved, calls>>
  BY DEF Publish, Goto
<1>b. Holding(c) /\ owner = c /\ ~Holding(c)'
  BY <1>a DEF Holding, Places, TypeOK, Threads, InLock
<1>c. x \in Nodes /\ x \notin Registered /\ name[x] \in Names /\ next[x] = first
  BY <1>a, <1>b DEF Hands, HeldIsOut
<1>d. list \in Seq(Nodes) /\ list' \in Seq(Nodes)
  BY <1>a, <1>c DEF TypeOK
<1>e. Registered' = Registered \cup {x}
  <2>1. Members(list') = Members(list) \cup {x}
    BY <1>a, <1>c, <1>d, MembersFront
  <2>. QED
    BY <2>1 DEF Registered, Members
<1>f. \A d \in Callers : d # c =>
        pc'[d] = pc[d] /\ op'[d] = op[d] /\ fs'[d] = fs[d] /\ (Holding(d)' <=> Holding(d))
  BY <1>a, OthersKept DEF TypeOK, Threads
<1>1. TypeOK'
  BY <1>a, <1>c, <1>d DEF TypeOK, Threads, InLock, Ops
<1>2. ListIsRegistered'
  <2>1. Linked(list, next[x], next) /\ \A m \in Registered : name[m] \in Names
    BY <1>c DEF ListIsRegistered, Linked, Registered
  <2>2. Linked(list', first', next')
    BY <1>a, <1>c, <1>d, <2>1, LinkedFront DEF Registered, Members
  <2>3. \A m \in Registered' : name'[m] \in Names
    BY <1>a, <1>c, <1>e, <2>1
  <2>. QED
    BY <2>2, <2>3 DEF ListIsRegistered, Linked, Registered
<1>3. Places'
  BY <1>a DEF TypeOK, Places, Threads, InLock, Ops
<1>4. Hands'
  <2>1. pc'[c] = "unlock" /\ \A d \in Callers : d # c => pc[d] \notin {"publish", "remove"}
    BY <1>a, <1>b DEF Places, Threads, InLock, TypeOK
  <2>4. HeldIsOut'
    BY <1>a, <1>b, <1>e, <1>f, <2>1 DEF HeldIsOut, OneHolder, Hands
  <2>5. OneHolder'
    BY <1>b, <1>f DEF OneHolder, Hands
  <2>6. RemovesFirst'
    BY <1>f, <2>1 DEF RemovesFirst
  <2>7. NoneLost'
    BY <1>a, <1>b, <1>e, <1>f DEF NoneLost, Hands
  <2>. QED
    BY <2>4, <2>5, <2>6, <2>7 DEF Hands
<1>5. Walk'
  <2>1. pc[Task] \in {"sleep", "none"} /\ pc'[Task] = pc[Task]
    BY <1>a, <1>b DEF Places, Threads, InLock, TypeOK
  <2>. QED
    BY <1>a, <2>1 DEF Walk
<1>. QED
  BY <1>1, <1>2, <1>3, <1>4, <1>5

(* The removal of the first node: it leaves the list for the hands of the  *)
(* caller, who is about to free it.                                        *)
LEMMA RemoveHeadInv ==
  ASSUME IInv, NEW c \in Callers, RemoveHead(c)
  PROVE  IInv'
<1>. DEFINE x == fs[c]
<1>. USE RegistryAssumption DEF IInv
<1>a. /\ pc[c] = "remove" /\ first' = next[first] /\ list' = Tail(list)
      /\ pc' = [pc EXCEPT ![c] = "free"]
      /\ UNCHANGED <<next, name, owner, op, arg, fs, saved, calls>>
  BY DEF RemoveHead, Goto
<1>b. ~Holding(c) /\ owner = c /\ Holding(c)' /\ x = first /\ list # <<>>
  BY <1>a DEF Holding, Places, TypeOK, Threads, InLock, Hands, RemovesFirst
<1>c. x = list[1] /\ x \in Nodes /\ name[x] \in Names
  <2>1. 1 \in DOMAIN list
    BY <1>b DEF TypeOK
  <2>. QED
    BY <1>b, <2>1 DEF ListIsRegistered, TypeOK
<1>d. list \in Seq(Nodes) /\ list' \in Seq(Nodes) /\ list = <<x>> \o list'
  <2>1. list \in Seq(Nodes) /\ Head(list) = x
    BY <1>b, <1>c DEF TypeOK
  <2>. QED
    BY <1>a, <1>b, <2>1, HeadTailProperties
<1>e. Registered = Registered' \cup {x}
  <2>1. Members(list) = Members(list') \cup {x}
    BY <1>c, <1>d, MembersFront
  <2>. QED
    BY <2>1 DEF Registered, Members
<1>g. Linked(list', first', next') /\ x \notin Registered'
  <2>1. Linked(list, x, next)
    BY <1>b DEF ListIsRegistered, Linked
  <2>2. Linked(list', next[x], next) /\ x \notin Members(list')
    BY <1>c, <1>d, <2>1, LinkedFront
  <2>. QED
    BY <1>a, <1>b, <2>2 DEF Registered, Members
<1>f. \A d \in Callers : d # c =>
        pc'[d] = pc[d] /\ op'[d] = op[d] /\ fs'[d] = fs[d] /\ (Holding(d)' <=> Holding(d))
  BY <1>a, OthersKept DEF TypeOK, Threads
<1>1. TypeOK'
  <2>1. first' \in Nodes \cup {NULL}
    BY <1>a, <1>b, <1>c DEF TypeOK
  <2>. QED
    BY <1>a, <1>d, <2>1 DEF TypeOK, Threads, InLock, Ops
<1>2. ListIsRegistered'
  <2>1. \A m \in Registered' : name'[m] \in Names
    BY <1>a, <1>e DEF ListIsRegistered, Registered
  <2>. QED
    BY <1>g, <2>1 DEF ListIsRegistered, Linked, Registered
<1>3. Places'
  BY <1>a DEF TypeOK, Places, Threads, InLock, Ops
<1>4. Hands'
  <2>1. pc'[c] = "free" /\ \A d \in Callers : d # c => pc[d] \notin {"publish", "remove"}
    BY <1>a, <1>b DEF Places, Threads, InLock, TypeOK
  <2>2. x \in Registered /\ fs'[c] = x
    BY <1>a, <1>e
  <2>4. HeldIsOut'
    BY <1>a, <1>b, <1>c, <1>e, <1>f, <1>g, <2>1, <2>2 DEF HeldIsOut, Hands
  <2>5. OneHolder'
    BY <1>a, <1>b, <1>f, <2>2 DEF OneHolder, HeldIsOut, Hands
  <2>6. RemovesFirst'
    BY <1>f, <2>1 DEF RemovesFirst
  <2>7. NoneLost'
    BY <1>a, <1>b, <1>e, <1>f, <2>2 DEF NoneLost, Hands
  <2>. QED
    BY <2>4, <2>5, <2>6, <2>7 DEF Hands
<1>5. Walk'
  <2>1. pc[Task] \in {"sleep", "none"} /\ pc'[Task] = pc[Task]
    BY <1>a, <1>b DEF Places, Threads, InLock, TypeOK
  <2>. QED
    BY <1>a, <2>1 DEF Walk
<1>. QED
  BY <1>1, <1>2, <1>3, <1>4, <1>5

(* A round of the unregister loops.                                        *)
LEMMA LookInv ==
  ASSUME IInv, NEW c \in Callers, Look(c)
  PROVE  IInv'
<1>. USE RegistryAssumption DEF IInv
<1>a. /\ pc[c] = "look" /\ UNCHANGED <<first, next, name, owner, op, arg, saved, calls, list>>
      /\ \E l \in {"unlock", "remove", "look"} : pc' = [pc EXCEPT ![c] = l]
      /\ \E v \in {fs[c], first} : fs' = [fs EXCEPT ![c] = v]
  BY DEF Look, Goto, TypeOK, Threads
<1>b. ~Holding(c) /\ ~Holding(c)' /\ op[c] # "register"
  BY <1>a DEF Holding, Places, TypeOK, Threads
<1>c. pc'[c] = "remove" => fs'[c] = first /\ first # NULL
  BY DEF Look, Goto, TypeOK, Threads
<1>d. Registered' = Registered /\ (first # NULL => list # <<>>)
  BY <1>a DEF Registered, ListIsRegistered
<1>f. \A d \in Callers : d # c =>
        pc'[d] = pc[d] /\ op'[d] = op[d] /\ fs'[d] = fs[d] /\ (Holding(d)' <=> Holding(d))
  BY <1>a, OthersKept DEF TypeOK, Threads
<1>1. TypeOK'
  BY <1>a DEF TypeOK, Threads, InLock, Ops
<1>2. ListIsRegistered'
  BY <1>a DEF TypeOK, ListIsRegistered
<1>3. Places'
  BY <1>a, <1>b DEF TypeOK, Places, Threads, InLock, Ops
<1>4. Hands'
  <2>4. HeldIsOut'
    BY <1>a, <1>b, <1>d, <1>f DEF HeldIsOut, Hands
  <2>5. OneHolder'
    BY <1>b, <1>f DEF OneHolder, Hands
  <2>6. RemovesFirst'
    BY <1>a, <1>c, <1>d, <1>f DEF RemovesFirst, Hands
  <2>7. NoneLost'
    BY <1>a, <1>b, <1>d, <1>f DEF NoneLost, Hands
  <2>. QED
    BY <2>4, <2>5, <2>6, <2>7 DEF Hands
<1>5. Walk'
  BY <1>a, WalkKept DEF TypeOK, Threads
<1>. QED
  BY <1>1, <1>2, <1>3, <1>4, <1>5

(* The removed node is freed.                                              *)
LEMMA FreeNodeInv ==
  ASSUME IInv, NEW c \in Callers, FreeNode(c)
  PROVE  IInv'
<1>. DEFINE x == fs[c]
<1>. USE RegistryAssumption DEF IInv
<1>a. /\ pc[c] = "free" /\ name' = [name EXCEPT ![x] = Free]
      /\ pc' = [pc EXCEPT ![c] = "look"]
      /\ UNCHANGED <<first, next, owner, op, arg, fs, saved, calls, list>>
  BY DEF FreeNode, Goto
<1>b. Holding(c) /\ ~Holding(c)' /\ pc'[c] = "look" /\ op[c] # "register"
  BY <1>a DEF Holding, Places, TypeOK, Threads
<1>c. x \in Nodes /\ x \notin Registered
  BY <1>b DEF Hands, HeldIsOut
<1>d. Registered' = Registered /\ name'[x] \notin Names
  BY <1>a, <1>c DEF Registered, TypeOK
<1>e. \A n \in Nodes : n # x => name'[n] = name[n]
  BY <1>a DEF TypeOK
<1>f. \A d \in Callers : d # c =>
        pc'[d] = pc[d] /\ op'[d] = op[d] /\ fs'[d] = fs[d] /\ (Holding(d)' <=> Holding(d))
  BY <1>a, OthersKept DEF TypeOK, Threads
<1>1. TypeOK'
  BY <1>a DEF TypeOK, Threads, InLock, Ops
<1>2. ListIsRegistered'
  <2>1. \A i \in DOMAIN list : list[i] \in Nodes /\ list[i] # x
    BY <1>c DEF Registered, TypeOK
  <2>. QED
    BY <1>a, <1>e, <2>1 DEF ListIsRegistered
<1>3. Places'
  BY <1>a, <1>b DEF TypeOK, Places, Threads, InLock, Ops
<1>4. Hands'
  <2>4. HeldIsOut'
    <3>1. SUFFICES ASSUME NEW d \in Callers, Holding(d)'
                   PROVE  /\ fs'[d] \in Nodes /\ fs'[d] \notin Registered'
                          /\ name'[fs'[d]] \in Names
                          /\ pc'[d] = "publish" => next'[fs'[d]] = first'
      BY DEF HeldIsOut
    <3>2. d # c /\ Holding(d) /\ pc'[d] = pc[d] /\ fs'[d] = fs[d]
      BY <1>b, <1>f, <3>1
    <3>3. fs[d] # x
      BY <1>b, <3>2 DEF OneHolder, Hands
    <3>4. /\ fs[d] \in Nodes /\ fs[d] \notin Registered /\ name[fs[d]] \in Names
          /\ pc[d] = "publish" => next[fs[d]] = first
      BY <3>2 DEF HeldIsOut, Hands
    <3>. QED
      BY <1>a, <1>d, <1>e, <3>2, <3>3, <3>4
  <2>5. OneHolder'
    BY <1>b, <1>f DEF OneHolder, Hands
  <2>6. RemovesFirst'
    BY <1>a, <1>b, <1>f DEF RemovesFirst, Hands
  <2>7. NoneLost'
    BY <1>a, <1>b, <1>d, <1>e, <1>f DEF NoneLost, Hands
  <2>. QED
    BY <2>4, <2>5, <2>6, <2>7 DEF Hands
<1>5. Walk'
  BY <1>a, WalkKept DEF TypeOK, Threads
<1>. QED
  BY <1>1, <1>2, <1>3, <1>4, <1>5

(* Every step keeps the invariant.                                         *)
LEMMA NextInv == IInv /\ [Next]_vars => IInv'
<1>. SUFFICES ASSUME IInv, [Next]_vars PROVE IInv'
  OBVIOUS
<1>1. ASSUME NEW c \in Callers, Call(c) PROVE IInv'
  BY <1>1, RegisterInv, UnregisterInv, UnregisterAllInv DEF Call
<1>2. ASSUME NEW c \in Callers, CallerLocks(c) PROVE IInv'
  BY <1>2, CallerLocksInv
<1>3. ASSUME NEW c \in Callers, CallerStep(c) PROVE IInv'
  BY <1>3, LinkInv, PublishInv, LookInv, RemoveHeadInv, FreeNodeInv, UnlockInv DEF CallerStep
<1>4. CASE TaskStep
  BY <1>4, TaskLocksInv, TaskSavesInv, TaskUnlocksInv DEF TaskStep
<1>5. CASE UNCHANGED vars
  <2>1. TypeOK' /\ ListIsRegistered' /\ Places'
    BY <1>5 DEF vars, IInv, TypeOK, ListIsRegistered, Places
  <2>2. Hands'
    <3>1. UNCHANGED <<Registered, first, next, list, name, pc, fs>> /\ \A c \in Callers : Holding(c)' <=> Holding(c)
      BY <1>5 DEF vars, Holding, Registered
    <3>2. HeldIsOut'
      BY <3>1 DEF IInv, Hands, HeldIsOut
    <3>3. OneHolder' /\ RemovesFirst'
      BY <3>1 DEF IInv, Hands, OneHolder, RemovesFirst
    <3>4. NoneLost'
      BY <3>1 DEF IInv, Hands, NoneLost
    <3>. QED
      BY <3>2, <3>3, <3>4 DEF Hands
  <2>3. Walk'
    BY <1>5, WalkKept DEF vars, IInv
  <2>. QED
    BY <2>1, <2>2, <2>3 DEF IInv
<1>. QED
  BY <1>1, <1>2, <1>3, <1>4, <1>5 DEF Next

(* The properties follow from the invariant.                               *)
LEMMA IInvImplies == IInv => PassSavesRegistered /\ MemoryIsAccountedFor
<1>. SUFFICES ASSUME IInv PROVE PassSavesRegistered /\ MemoryIsAccountedFor
  OBVIOUS
<1>. USE RegistryAssumption DEF IInv
<1>1. ASSUME pc[Task] = "walk", fs[Task] # NULL
      PROVE  fs[Task] \in Registered \ saved
  <2>1. PICK k \in 1 .. Len(list) + 1 :
           /\ saved = {list[i] : i \in 1 .. k - 1}
           /\ fs[Task] = IF k = Len(list) + 1 THEN NULL ELSE list[k]
    BY <1>1 DEF Walk
  <2>2. Len(list) \in Nat /\ DOMAIN list = 1 .. Len(list)
    BY DEF TypeOK
  <2>3. k \in DOMAIN list /\ fs[Task] = list[k]
    BY <1>1, <2>1, <2>2
  <2>4. \A i \in 1 .. k - 1 : i \in DOMAIN list /\ i # k
    BY <2>2, <2>3
  <2>5. \A i \in DOMAIN list : list[i] = list[k] => i = k
    BY <2>3 DEF ListIsRegistered
  <2>. QED
    BY <2>1, <2>3, <2>4, <2>5 DEF Registered
<1>2. PassSavesRegistered
  BY <1>1 DEF PassSavesRegistered, Walk
<1>3. \A c \in Callers, n \in Nodes : Holds(c, n) <=> Holding(c) /\ fs[c] = n
  BY DEF Holds, Holding
<1>4. MemoryIsAccountedFor
  <2>1. SUFFICES ASSUME NEW n \in Nodes, name[n] \in Names
        PROVE  \/ n \in Registered /\ \A c \in Callers : ~Holds(c, n)
               \/ /\ n \notin Registered
                  /\ \E c \in Callers : Holds(c, n) /\ \A d \in Callers \ {c} : ~Holds(d, n)
    BY DEF MemoryIsAccountedFor
  <2>2. CASE n \in Registered
    BY <1>3, <2>2 DEF Hands, HeldIsOut
  <2>3. CASE n \notin Registered
    <3>1. PICK c \in Callers : Holding(c) /\ fs[c] = n
      BY <2>1, <2>3 DEF Hands, NoneLost
    <3>2. \A d \in Callers \ {c} : ~Holds(d, n)
      BY <1>3, <3>1 DEF Hands, OneHolder
    <3>. QED
      BY <1>3, <2>3, <3>1, <3>2
  <2>. QED
    BY <2>2, <2>3
<1>. QED
  BY <1>2, <1>4

(* For any number of callers, calls, names and nodes, the list in memory   *)
(* is the list of the registered nodes between any two pointer             *)
(* assignments, the task's walk never stands on a freed node and saves     *)
(* exactly the registered files, and no memory is lost or held twice.      *)
THEOREM RegistryIsSafe ==
  Spec => [](TypeOK /\ ListIsRegistered /\ PassSavesRegistered /\ MemoryIsAccountedFor)
<1>1. IInv => TypeOK /\ ListIsRegistered /\ PassSavesRegistered /\ MemoryIsAccountedFor
  BY IInvImplies DEF IInv
<1>. QED
  BY <1>1, InitInv, NextInv, PTL DEF Spec

(* A call of file_storage_unregister that stands before an entry of        *)
(* another name stands there for ever, whatever the other threads do.      *)
THEOREM StuckStaysStuck == Spec => StuckForEver
<1>1. ASSUME IInv, [Next]_vars, NEW c \in Callers, Stuck(c) PROVE Stuck(c)'
  <2>. USE RegistryAssumption DEF IInv
  <2>1. /\ pc[c] = "look" /\ op[c] = "unregister" /\ first # NULL /\ name[first] # arg[c]
        /\ owner = c /\ first \in Nodes /\ name[first] \in Names
    <3>1. list # <<>> /\ first = list[1]
      BY <1>1 DEF Stuck, ListIsRegistered
    <3>2. 1 \in DOMAIN list
      BY <1>1, <3>1 DEF TypeOK
    <3>. QED
      BY <1>1, <3>1, <3>2 DEF Stuck, ListIsRegistered, Places, Threads, InLock, TypeOK
  <2>2. \A t \in Threads : t # c => pc[t] \notin InLock
    BY <1>1, <2>1 DEF Places
  <2>. DEFINE Kept == pc'[c] = pc[c] /\ op'[c] = op[c] /\ arg'[c] = arg[c]
                        /\ first' = first /\ name'[first] = name[first]
  <2>3. Kept => Stuck(c)'
    BY <2>1 DEF Stuck
  <2>4. ASSUME NEW d \in Callers, Call(d) PROVE Kept
    <3>1. d # c /\ c \in Threads /\ d \in Threads
      BY <2>1, <2>4 DEF Call, Register, Unregister, UnregisterAll, Called, Threads
    <3>2. name'[first] = name[first]
      BY <2>1, <2>4, <1>1 DEF Call, Register, Unregister, UnregisterAll, TypeOK
    <3>. QED
      BY <1>1, <2>4, <3>1, <3>2
      DEF Call, Register, Unregister, UnregisterAll, Called, Goto, TypeOK
  <2>5. ASSUME NEW d \in Callers, CallerLocks(d) PROVE Kept
    BY <2>1, <2>5 DEF CallerLocks, LOCK
  <2>6. ASSUME NEW d \in Callers, CallerStep(d) PROVE Kept
    <3>1. pc[d] \in InLock
      BY <2>6 DEF CallerStep, Link, Publish, Look, RemoveHead, FreeNode, UNLOCK, InLock
    <3>2. d = c
      BY <2>2, <3>1 DEF Threads
    <3>3. Look(c)
      BY <2>1, <2>6, <3>2 DEF CallerStep, Link, Publish, RemoveHead, FreeNode, UNLOCK
    <3>. QED
      BY <1>1, <2>1, <3>3 DEF Look, Matches, Goto, TypeOK, Threads
  <2>7. ~TaskStep
    BY <2>1, <2>2 DEF TaskStep, TaskLocks, TaskSaves, UNLOCK, LOCK, InLock, Threads
  <2>8. ASSUME UNCHANGED vars PROVE Kept
    BY <2>8 DEF vars
  <2>. QED
    BY <1>1, <2>3, <2>4, <2>5, <2>6, <2>7, <2>8 DEF Next
<1>2. IInv /\ [Next]_vars => [\A c \in Callers : Stuck(c) => Stuck(c)']_vars
  BY <1>1
<1>. QED
  BY <1>2, InitInv, NextInv, PTL DEF Spec, StuckForEver

=============================================================================
