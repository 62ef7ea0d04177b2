---------------------------- MODULE FileStorage ----------------------------
(***************************************************************************)
(* The registry of sys_queue_h_test/sys_queue.c: a singly linked list of   *)
(* file names that callers register and unregister, and a task that wakes  *)
(* up every second and saves every registered file.  One mutex,            *)
(* file_storage_mutex, guards the list.                                    *)
(*                                                                         *)
(* Every read and write of a list pointer is a step of its own, so that    *)
(* the mutex, and nothing in the model, is what keeps two threads apart.   *)
(* The lock is never taken twice by one thread, so that it is recursive    *)
(* does not show.                                                          *)
(***************************************************************************)
EXTENDS Naturals, Sequences, FiniteSets

CONSTANTS Callers,    \* the threads that call the registry (main is one)
          Task,       \* the thread that runs file_storage_task
          Names,      \* file names
          Nodes,      \* the memory malloc can hand out
          NULL,       \* the null pointer
          Free,       \* the name of memory that is not allocated
          Unnamed,    \* the name of memory allocated but not filled in
          MaxCalls    \* bound: the calls one caller makes

ASSUME RegistryAssumption ==
  /\ Task \notin Callers
  /\ NULL \notin Nodes /\ NULL \notin Callers \cup {Task}
  /\ Free \notin Names /\ Unnamed \notin Names /\ Free # Unnamed
  /\ MaxCalls \in Nat

VARIABLES
  first,    \* gfs_slist->slh_first
  next,     \* next[n] is n->entry.sle_next
  name,     \* name[n] is what n->filename points to
  owner,    \* the thread that holds file_storage_mutex, or NULL
  pc,       \* where each thread stands
  op,       \* the function each caller is in
  arg,      \* its filename argument
  fs,       \* its local variable fs
  saved,    \* the nodes the task has passed to file_save in this pass
  calls,    \* the calls each caller has made
  list      \* history: the nodes that are registered, in list order

vars == <<first, next, name, owner, pc, op, arg, fs, saved, calls, list>>

Threads == Callers \cup {Task}

Ops == {"register", "unregister", "unregister_all"}

InLock == {"link", "publish", "look", "remove", "free", "walk", "unlock"}

(***************************************************************************)
(* file_storage_init has made the list and the mutex; pthread_create may   *)
(* have failed, and then the task never runs.                              *)
(***************************************************************************)
Init ==
  /\ first = NULL
  /\ next = [n \in Nodes |-> NULL]
  /\ name = [n \in Nodes |-> Free]
  /\ owner = NULL
  /\ \E task \in {"sleep", "none"} :
       pc = [t \in Threads |-> IF t = Task THEN task ELSE "idle"]
  /\ op = [c \in Callers |-> "register"]
  /\ arg = [c \in Callers |-> NULL]
  /\ fs = [t \in Threads |-> NULL]
  /\ saved = {}
  /\ calls = [c \in Callers |-> 0]
  /\ list = <<>>

Goto(t, l) == pc' = [pc EXCEPT ![t] = l]

Called(c, o) ==
  /\ pc[c] = "idle"
  /\ calls[c] < MaxCalls
  /\ calls' = [calls EXCEPT ![c] = @ + 1]
  /\ op' = [op EXCEPT ![c] = o]

(* file_storage_register allocates and fills in a node before it locks.    *)
(* Without a path name it gives up, and the node it allocated stays        *)
(* allocated.                                                              *)
Register(c, pathname) ==
  /\ Called(c, "register")
  /\ \E n \in Nodes :
       /\ name[n] = Free
       /\ name' = [name EXCEPT ![n] = IF pathname = NULL THEN Unnamed ELSE pathname]
       /\ fs' = [fs EXCEPT ![c] = IF pathname = NULL THEN NULL ELSE n]
       /\ Goto(c, IF pathname = NULL THEN "idle" ELSE "lock")
  /\ UNCHANGED <<first, next, owner, arg, saved, list>>

Unregister(c, filename) ==
  /\ Called(c, "unregister")
  /\ arg' = [arg EXCEPT ![c] = filename]
  /\ Goto(c, "lock")
  /\ UNCHANGED <<first, next, name, owner, fs, saved, list>>

UnregisterAll(c) ==
  /\ Called(c, "unregister_all")
  /\ Goto(c, "lock")
  /\ UNCHANGED <<first, next, name, owner, arg, fs, saved, list>>

\* Mutation: the lock does not wait.
LOCKAtOnce(t) == owner' = t

LOCK(t) == owner = NULL /\ owner' = t

\* Mutation: a registration returns with the lock.
UNLOCKForgotten(t) ==
  /\ pc[t] = "unlock"
  /\ owner' = IF t # Task /\ op[t] = "register" THEN owner ELSE NULL
  /\ fs' = [fs EXCEPT ![t] = NULL]
  /\ Goto(t, IF t = Task THEN "sleep" ELSE "idle")
  /\ arg' = [c \in Callers |-> IF c = t THEN NULL ELSE arg[c]]
  /\ saved' = IF t = Task THEN {} ELSE saved
  /\ UNCHANGED <<first, next, name, op, calls, list>>

(* The caller returns, and its locals are gone; the task goes to sleep.    *)
UNLOCK(t) ==
  /\ pc[t] = "unlock"
  /\ owner' = NULL
  /\ fs' = [fs EXCEPT ![t] = NULL]
  /\ Goto(t, IF t = Task THEN "sleep" ELSE "idle")
  /\ arg' = [c \in Callers |-> IF c = t THEN NULL ELSE arg[c]]
  /\ saved' = IF t = Task THEN {} ELSE saved
  /\ UNCHANGED <<first, next, name, op, calls, list>>

CallerLocks(c) ==
  /\ pc[c] = "lock"
  /\ LOCK(c)
  /\ Goto(c, IF op[c] = "register" THEN "link" ELSE "look")
  /\ UNCHANGED <<first, next, name, op, arg, fs, saved, calls, list>>

(* SLIST_INSERT_HEAD: two assignments.                                     *)
Link(c) ==
  /\ pc[c] = "link"
  /\ next' = [next EXCEPT ![fs[c]] = first]
  /\ Goto(c, "publish")
  /\ UNCHANGED <<first, name, owner, op, arg, fs, saved, calls, list>>

Publish(c) ==
  /\ pc[c] = "publish"
  /\ first' = fs[c]
  /\ list' = <<fs[c]>> \o list
  /\ Goto(c, "unlock")
  /\ UNCHANGED <<next, name, owner, op, arg, fs, saved, calls>>

Matches(c) == op[c] = "unregister_all" \/ name[first] = arg[c]

(* The loop of file_storage_unregister and of file_storage_unregister_all. *)
(* The former only ever looks at the first entry: when its name is another *)
(* one, the loop goes round, with the lock held, and changes nothing.      *)
Look(c) ==
  /\ pc[c] = "look"
  /\ IF first = NULL
     THEN Goto(c, "unlock") /\ UNCHANGED fs
     ELSE /\ fs' = [fs EXCEPT ![c] = first]
          /\ Goto(c, IF Matches(c) THEN "remove" ELSE "look")
  /\ UNCHANGED <<first, next, name, owner, op, arg, saved, calls, list>>

(* SLIST_REMOVE_HEAD                                                       *)
RemoveHead(c) ==
  /\ pc[c] = "remove"
  /\ first' = next[first]
  /\ list' = Tail(list)
  /\ Goto(c, "free")
  /\ UNCHANGED <<next, name, owner, op, arg, fs, saved, calls>>

\* Mutation: the node is not freed.
FreeNodeForgotten(c) ==
  /\ pc[c] = "free"
  /\ Goto(c, "look")
  /\ UNCHANGED <<first, next, name, owner, op, arg, fs, saved, calls, list>>

FreeNode(c) ==
  /\ pc[c] = "free"
  /\ name' = [name EXCEPT ![fs[c]] = Free]
  /\ Goto(c, "look")
  /\ UNCHANGED <<first, next, owner, op, arg, fs, saved, calls, list>>

(***************************************************************************)
(* file_storage_task: sleep, lock, SLIST_FOREACH, unlock, for ever.        *)
(***************************************************************************)
\* Mutation: the walk does not take the lock.
TaskWalksUnlocked ==
  /\ pc[Task] = "sleep"
  /\ fs' = [fs EXCEPT ![Task] = first]
  /\ Goto(Task, "walk")
  /\ UNCHANGED <<first, next, name, owner, op, arg, saved, calls, list>>

TaskLocks ==
  /\ pc[Task] = "sleep"
  /\ LOCK(Task)
  /\ fs' = [fs EXCEPT ![Task] = first]
  /\ Goto(Task, "walk")
  /\ UNCHANGED <<first, next, name, op, arg, saved, calls, list>>

TaskSaves ==
  /\ pc[Task] = "walk"
  /\ IF fs[Task] = NULL
     THEN Goto(Task, "unlock") /\ UNCHANGED <<fs, saved>>
     ELSE /\ saved' = saved \cup {fs[Task]}
          /\ fs' = [fs EXCEPT ![Task] = next[fs[Task]]]
          /\ UNCHANGED pc
  /\ UNCHANGED <<first, next, name, owner, op, arg, calls, list>>

Call(c) ==
  \/ \E p \in Names \cup {NULL} : Register(c, p)
  \/ \E f \in Names : Unregister(c, f)
  \/ UnregisterAll(c)

CallerStep(c) ==
  \/ Link(c) \/ Publish(c)
  \/ Look(c) \/ RemoveHead(c) \/ FreeNode(c)
  \/ UNLOCK(c)

TaskStep == TaskLocks \/ TaskSaves \/ UNLOCK(Task)

Next ==
  \/ \E c \in Callers : Call(c) \/ CallerLocks(c) \/ CallerStep(c)
  \/ TaskStep

(***************************************************************************)
(* Fairness.  A thread that can run runs.  A caller makes finitely many    *)
(* calls, so the task needs no more than that to get the lock; the task    *)
(* takes the lock for ever, but sleeps a second without it in every round, *)
(* which is what lets a waiting caller in.                                 *)
(***************************************************************************)
Spec ==
  /\ Init /\ [][Next]_vars
  /\ WF_vars(TaskStep)
  /\ \A c \in Callers : WF_vars(CallerStep(c)) /\ SF_vars(CallerLocks(c))

-----------------------------------------------------------------------------
TypeOK ==
  /\ first \in Nodes \cup {NULL}
  /\ next \in [Nodes -> Nodes \cup {NULL}]
  /\ name \in [Nodes -> Names \cup {Free, Unnamed}]
  /\ owner \in Threads \cup {NULL}
  /\ pc \in [Threads -> InLock \cup {"idle", "lock", "sleep", "none"}]
  /\ op \in [Callers -> Ops]
  /\ arg \in [Callers -> Names \cup {NULL}]
  /\ fs \in [Threads -> Nodes \cup {NULL}]
  /\ saved \subseteq Nodes
  /\ calls \in [Callers -> 0 .. MaxCalls]
  /\ list \in Seq(Nodes)

Registered == {list[i] : i \in DOMAIN list}

(* Between any two pointer assignments the list in memory is the list of   *)
(* the registered nodes, in order and without a repetition, and every one  *)
(* of them is allocated and has its name: no insertion is lost under       *)
(* another, and nothing is freed while it is still linked.                 *)
ListIsRegistered ==
  /\ first = IF list = <<>> THEN NULL ELSE list[1]
  /\ \A i \in DOMAIN list :
       /\ next[list[i]] = IF i = Len(list) THEN NULL ELSE list[i + 1]
       /\ name[list[i]] \in Names
       /\ \A j \in DOMAIN list : list[i] = list[j] => i = j

(* The task's walk never stands on a node that was freed or unlinked under *)
(* it, and a pass that ends has saved exactly the files registered.        *)
PassSavesRegistered ==
  /\ pc[Task] = "walk" /\ fs[Task] # NULL => fs[Task] \in Registered \ saved
  /\ pc[Task] = "unlock" => saved = Registered

(* Allocated memory is registered, or in the hands of the one caller that  *)
(* is about to link it or to free it, or the left-over of a registration   *)
(* refused for want of a path name.                                        *)
Holds(c, n) ==
  /\ fs[c] = n
  /\ \/ op[c] = "register" /\ pc[c] \in {"lock", "link", "publish"}
     \/ pc[c] = "free"

MemoryIsAccountedFor ==
  \A n \in Nodes : name[n] \in Names =>
    \/ n \in Registered /\ \A c \in Callers : ~Holds(c, n)
    \/ /\ n \notin Registered
       /\ \E c \in Callers : Holds(c, n) /\ \A d \in Callers \ {c} : ~Holds(d, n)

(* A call of file_storage_unregister whose loop stands before an entry of  *)
(* another name.                                                           *)
Stuck(c) ==
  pc[c] = "look" /\ op[c] = "unregister" /\ first # NULL /\ name[first] # arg[c]

(* Every call returns, unless some file_storage_unregister meets an entry  *)
(* of another name: then that call spins with the lock held.               *)
CallsReturn ==
  \A c \in Callers : pc[c] # "idle" ~> (pc[c] = "idle" \/ \E d \in Callers : Stuck(d))

(* A call that is stuck stays stuck: nobody can change the entry it looks  *)
(* at, because it holds the lock.                                          *)
StuckForEver == [][\A c \in Callers : Stuck(c) => Stuck(c)']_vars

=============================================================================
