------------------------------ MODULE SemSync ------------------------------
(***************************************************************************)
(* sem_test: the reboot synchronised with a named semaphore and SIGUSR1.   *)
(* A coordinator opens the semaphore, signals every process and takes the  *)
(* semaphore once for each; a process that was signalled releases it.      *)
(*                                                                         *)
(* There are two such systems, and a behaviour is of one of them:          *)
(*   sem_open_test: processA.c, with processB.c and processC.c (Workers),  *)
(*     which wait once, and whose handler passes the signal on to the      *)
(*     thread that sleeps;                                                 *)
(*   sem_sync_process_sonicPoint: sp_master.c, with the one process of     *)
(*     sp_sync_sp_mon_daemon.c (Daemon), which loops.                      *)
(*                                                                         *)
(* sem_unlink takes the name away from a semaphore that others may have    *)
(* open; the next sem_open makes another one under the same name.  A       *)
(* semaphore nobody refers to is free for use again.  Time is left out: a  *)
(* sleep takes any time, and a sem_timedwait that finds nothing to take    *)
(* may time out at once (processA.c sets its deadline before it sleeps,    *)
(* so that it has then passed).                                            *)
(***************************************************************************)
EXTENDS Naturals, Sequences, FiniteSets

CONSTANTS Procs,     \* processB and processC in the order they are signalled
          Daemon,    \* spMonDaemon
          Sems,      \* semaphores
          NULL       \* no semaphore

Workers == {Procs[k] : k \in 1..Len(Procs)}

ASSUME SemAssumption ==
  /\ Procs \in Seq(Workers) /\ Len(Procs) > 0
  /\ \A j, k \in 1..Len(Procs) : Procs[j] = Procs[k] => j = k
  /\ Daemon \notin Workers
  /\ NULL \notin Sems

VARIABLES
  system,    \* the system of this behaviour
  name,      \* the semaphore that has the name SEM_NAME (SEM_SYNC)
  value,     \* the value of each semaphore
  apc,       \* where the coordinator stands
  asem,      \* the semaphore it has open
  k,         \* the processes it has signalled
  left,      \* proc_cnt (sync_proc_cnt): what it still has to take
  verdict,   \* how it ended
  wpc,       \* where each process (its thread) stands
  wsem,      \* the semaphore each process has open
  reboot,    \* each process's flag reboot
  send,      \* each process's flag send_to_thread
  psig,      \* SIGUSR1 is pending for the process
  tsig,      \* SIGUSR1 is pending for its thread
  hpc,       \* where the handler stands, in the main thread and in the thread
  woken,     \* history: the handler has run in the thread
  saved,     \* history: the processes that have saved their files
  posted     \* history: those that have released the coordinator's semaphore

coordinator == <<apc, asem, k, left, verdict>>

process == <<wpc, wsem, reboot, send, psig, tsig, hpc, woken, saved, posted>>

vars == <<system, name, value, apc, asem, k, left, verdict, wpc, wsem, reboot,
          send, psig, tsig, hpc, woken, saved, posted>>

All == Workers \cup {Daemon}

(* The threads of processB and processC in which the handler can run.      *)
Contexts == {"main", "thread"}

Signalled == IF system = "sem_open_test" THEN Procs ELSE <<Daemon>>

Participants == {Signalled[j] : j \in 1..Len(Signalled)}

\* Mutation: processA takes the semaphore once too few.
TakesTooFew == IF system = "sem_open_test" THEN Len(Procs) - 1 ELSE 2

(* processA counts its processes; sp_master counts the NULL that ends its  *)
(* list of names as well.                                                  *)
Takes == IF system = "sem_open_test" THEN Len(Procs) ELSE 2

Init ==
  /\ system \in {"sem_open_test", "sonicPoint"}
  /\ name = NULL
  /\ value = [s \in Sems |-> 0]
  /\ apc = "start" /\ asem = NULL /\ k = 0 /\ left = 0
  /\ verdict = "none"
  /\ wpc = [p \in All |-> "off"]
  /\ wsem = [p \in All |-> NULL]
  /\ reboot = [p \in All |-> FALSE]
  /\ send = [p \in All |-> TRUE]
  /\ psig = [p \in All |-> FALSE]
  /\ tsig = [p \in All |-> FALSE]
  /\ hpc = [p \in All |-> [c \in Contexts |-> "none"]]
  /\ woken = [p \in All |-> FALSE]
  /\ saved = {} /\ posted = {}

-----------------------------------------------------------------------------
(* Named semaphores.                                                       *)

Unused == {s \in Sems : s # name /\ s # asem /\ \A p \in All : wsem[p] # s}

(* sem_open with O_CREAT and the value 0: s is what the name stands for,   *)
(* or a new semaphore.                                                     *)
sem_open(s) ==
  IF name # NULL THEN s = name /\ UNCHANGED <<name, value>>
  ELSE /\ s \in Unused
       /\ s = CHOOSE u \in Unused : TRUE
       /\ name' = s
       /\ value' = [value EXCEPT ![s] = 0]

sem_unlink == name' = NULL

-----------------------------------------------------------------------------
(* The coordinator.                                                        *)

Opens ==
  /\ apc = "start"
  /\ \E s \in Sems :
       /\ sem_open(s)
       /\ asem' = s
  /\ apc' = "signal"
  /\ left' = Takes
  /\ verdict' = "waiting"
  /\ UNCHANGED <<system, k, process>>

(* sem_open fails.                                                         *)
OpenFails ==
  /\ apc = "start"
  /\ sem_unlink
  /\ apc' = "end"
  /\ UNCHANGED <<system, value, asem, k, left, verdict, process>>

NoHandler(p) == wpc[p] \in {"main", "opened"}

Alive(p) == wpc[p] \notin {"off", "end"}

(* killall of the next process: one that has not yet installed its handler *)
(* dies.                                                                   *)
Signals ==
  /\ apc = "signal"
  /\ k' = k + 1
  /\ apc' = IF k + 1 = Len(Signalled) THEN "wait" ELSE "signal"
  /\ LET p == Signalled[k + 1]
     IN  /\ wpc' = [wpc EXCEPT ![p] = IF NoHandler(p) THEN "end" ELSE @]
         /\ wsem' = [wsem EXCEPT ![p] = IF NoHandler(p) THEN NULL ELSE @]
         /\ psig' = [psig EXCEPT ![p] = Alive(p) /\ ~NoHandler(p)]
  /\ UNCHANGED <<system, name, value, asem, left, verdict,
                 reboot, send, tsig, hpc, woken, saved, posted>>

TakesOne ==
  /\ apc = "wait"
  /\ value[asem] > 0
  /\ value' = [value EXCEPT ![asem] = @ - 1]
  /\ left' = left - 1
  /\ IF left = 1 THEN apc' = "close" /\ verdict' = "all"
                 ELSE UNCHANGED <<apc, verdict>>
  /\ UNCHANGED <<system, name, asem, k, process>>

\* Mutation: a wait that times out is tried again.
TimesOutRetries ==
  /\ apc = "wait"
  /\ value[asem] = 0
  /\ UNCHANGED vars

TimesOut ==
  /\ apc = "wait"
  /\ value[asem] = 0
  /\ apc' = "close"
  /\ verdict' = "timeout"
  /\ UNCHANGED <<system, name, value, asem, k, left, process>>

Closes ==
  /\ apc = "close"
  /\ sem_unlink
  /\ asem' = NULL
  /\ apc' = "end"
  /\ UNCHANGED <<system, value, k, left, verdict, process>>

Coordinator ==
  \/ Opens \/ OpenFails \/ Signals \/ TakesOne \/ TimesOut \/ Closes

-----------------------------------------------------------------------------
(* What processB, processC and the daemon share.                           *)

Goto(p, l) == wpc' = [wpc EXCEPT ![p] = l]

(* The thread is not in its signal handler.                                *)
Runs(p) == hpc[p]["thread"] = "none"

(* The process returns, and what it holds is gone.                         *)
Ends(p) ==
  /\ Goto(p, "end")
  /\ wsem' = [wsem EXCEPT ![p] = NULL]
  /\ reboot' = [reboot EXCEPT ![p] = FALSE]
  /\ send' = [send EXCEPT ![p] = TRUE]
  /\ psig' = [psig EXCEPT ![p] = FALSE]
  /\ tsig' = [tsig EXCEPT ![p] = FALSE]
  /\ hpc' = [hpc EXCEPT ![p] = [c \in Contexts |-> "none"]]
  /\ woken' = [woken EXCEPT ![p] = FALSE]
  /\ UNCHANGED <<system, value, coordinator, saved, posted>>

(* The main thread's or the loop's sem_open.                               *)
OpensSem(p, from, to) ==
  /\ wpc[p] = from
  /\ \E s \in Sems : sem_open(s) /\ wsem' = [wsem EXCEPT ![p] = s]
  /\ Goto(p, to)
  /\ UNCHANGED <<system, coordinator, reboot, send, psig, tsig, hpc, woken,
                 saved, posted>>

OpenSemFails(p, from) == wpc[p] = from /\ sem_unlink /\ Ends(p)

(* pthread_create fails, and the process returns.                          *)
CreateFails(p, from) == wpc[p] = from /\ Ends(p) /\ UNCHANGED name

Steps(p, from, to) ==
  /\ wpc[p] = from
  /\ Runs(p)
  /\ Goto(p, to)
  /\ UNCHANGED <<system, name, value, coordinator, wsem, reboot, send, psig,
                 tsig, hpc, woken, saved, posted>>

Saves(p, from, to) ==
  /\ wpc[p] = from
  /\ Runs(p)
  /\ saved' = saved \cup {p}
  /\ Goto(p, to)
  /\ UNCHANGED <<system, name, value, coordinator, wsem, reboot, send, psig,
                 tsig, hpc, woken, posted>>

Posts(p) ==
  /\ wpc[p] = "post"
  /\ Runs(p)
  /\ value' = [value EXCEPT ![wsem[p]] = @ + 1]
  /\ posted' = IF wsem[p] = asem THEN posted \cup {p} ELSE posted
  /\ Goto(p, "close")
  /\ UNCHANGED <<system, name, coordinator, wsem, reboot, send, psig, tsig,
                 hpc, woken, saved>>

-----------------------------------------------------------------------------
(* sig_usr1_handler of processB and processC, in the main thread or in the *)
(* thread: four steps, between which the other thread runs.                *)

HandlerAt(p, c, l) == hpc' = [hpc EXCEPT ![p][c] = l]

(* A signal for the process goes to either thread, one for the thread to   *)
(* the thread; it waits while the handler runs there.                      *)
Delivered(p, c) ==
  /\ Alive(p)
  /\ hpc[p][c] = "none"
  /\ \/ psig[p] /\ psig' = [psig EXCEPT ![p] = FALSE] /\ UNCHANGED tsig
     \/ /\ c = "thread" /\ tsig[p]
        /\ tsig' = [tsig EXCEPT ![p] = FALSE] /\ UNCHANGED psig
  /\ HandlerAt(p, c, "test")
  /\ UNCHANGED <<system, name, value, coordinator, wpc, wsem, reboot, send,
                 woken, saved, posted>>

Returns(p, c) ==
  /\ HandlerAt(p, c, "none")
  /\ woken' = [woken EXCEPT ![p] = @ \/ c = "thread"]

HandlerTests(p, c) ==
  /\ Alive(p) /\ hpc[p][c] = "test"
  /\ IF send[p] THEN HandlerAt(p, c, "kill") /\ UNCHANGED woken
                ELSE Returns(p, c)
  /\ UNCHANGED <<system, name, value, coordinator, wpc, wsem, reboot, send,
                 psig, tsig, saved, posted>>

\* Mutation: send_to_thread is cleared before the signal is passed on.
HandlerKillsCleared(p, c) ==
  /\ Alive(p) /\ hpc[p][c] = "kill"
  /\ send' = [send EXCEPT ![p] = FALSE]
  /\ tsig' = [tsig EXCEPT ![p] = TRUE]
  /\ HandlerAt(p, c, "flag")
  /\ UNCHANGED <<system, name, value, coordinator, wpc, wsem, reboot,
                 psig, woken, saved, posted>>

HandlerKills(p, c) ==
  /\ Alive(p) /\ hpc[p][c] = "kill"
  /\ tsig' = [tsig EXCEPT ![p] = TRUE]
  /\ HandlerAt(p, c, "flag")
  /\ UNCHANGED <<system, name, value, coordinator, wpc, wsem, reboot, send,
                 psig, woken, saved, posted>>

HandlerFlags(p, c) ==
  /\ Alive(p) /\ hpc[p][c] = "flag"
  /\ reboot' = [reboot EXCEPT ![p] = TRUE]
  /\ HandlerAt(p, c, "clear")
  /\ UNCHANGED <<system, name, value, coordinator, wpc, wsem, send,
                 psig, tsig, woken, saved, posted>>

HandlerClears(p, c) ==
  /\ Alive(p) /\ hpc[p][c] = "clear"
  /\ send' = [send EXCEPT ![p] = FALSE]
  /\ Returns(p, c)
  /\ UNCHANGED <<system, name, value, coordinator, wpc, wsem, reboot,
                 psig, tsig, saved, posted>>

Handler(p, c) ==
  \/ Delivered(p, c) \/ HandlerTests(p, c) \/ HandlerKills(p, c)
  \/ HandlerFlags(p, c) \/ HandlerClears(p, c)

-----------------------------------------------------------------------------
(* processB and processC.                                                  *)

(* The first sleep ends, and another follows unless the process was told.  *)
SleepsAgain(p) == ~reboot[p] /\ Steps(p, "first", "second")

(* The files are saved after the sleep that was the last.                  *)
WakesUp(p) ==
  \/ reboot[p] /\ Saves(p, "first", "check")
  \/ Saves(p, "second", "check")

\* Mutation: the handler must have come to its end.
ChecksBoth(p) ==
  /\ wpc[p] = "check"
  /\ Runs(p)
  /\ reboot' = [reboot EXCEPT ![p] = FALSE]
  /\ Goto(p, IF reboot[p] /\ ~send[p] THEN "post" ELSE "close")
  /\ UNCHANGED <<system, name, value, coordinator, wsem, send, psig, tsig,
                 hpc, woken, saved, posted>>

(* Only a process that was told releases the semaphore.                    *)
Checks(p) ==
  /\ wpc[p] = "check"
  /\ Runs(p)
  /\ reboot' = [reboot EXCEPT ![p] = FALSE]
  /\ Goto(p, IF reboot[p] THEN "post" ELSE "close")
  /\ UNCHANGED <<system, name, value, coordinator, wsem, send, psig, tsig,
                 hpc, woken, saved, posted>>

(* sem_close, sem_unlink, and the thread that main has joined ends.        *)
Closed(p) == wpc[p] = "close" /\ Runs(p) /\ sem_unlink /\ Ends(p)

Worker(p) ==
  \/ OpensSem(p, "main", "opened") \/ OpenSemFails(p, "main")
  \/ CreateFails(p, "opened")
  \/ Steps(p, "opened", "first")           \* sigaction, in the thread
  \/ SleepsAgain(p) \/ WakesUp(p)
  \/ Checks(p)
  \/ Posts(p)
  \/ Closed(p)

-----------------------------------------------------------------------------
(* The daemon: its flag reboot only shortens a sleep, and it releases the  *)
(* semaphore in every round of its loop.                                   *)

DaemonHandles(p) ==
  /\ Alive(p)
  /\ psig[p]
  /\ psig' = [psig EXCEPT ![p] = FALSE]
  /\ reboot' = [reboot EXCEPT ![p] = TRUE]
  /\ UNCHANGED <<system, name, value, coordinator, wpc, wsem, send, tsig, hpc,
                 woken, saved, posted>>

DaemonResets(p) ==
  /\ wpc[p] = "reset"
  /\ reboot' = [reboot EXCEPT ![p] = FALSE]
  /\ Goto(p, "post")
  /\ UNCHANGED <<system, name, value, coordinator, wsem, send, psig, tsig,
                 hpc, woken, saved, posted>>

\* Mutation: the name stays.
DaemonClosesOnly(p) ==
  /\ wpc[p] = "close"
  /\ wsem' = [wsem EXCEPT ![p] = NULL]
  /\ Goto(p, "loop")
  /\ UNCHANGED <<system, name, value, coordinator, reboot, send, psig, tsig,
                 hpc, woken, saved, posted>>

DaemonCloses(p) ==
  /\ wpc[p] = "close"
  /\ sem_unlink
  /\ wsem' = [wsem EXCEPT ![p] = NULL]
  /\ Goto(p, "loop")
  /\ UNCHANGED <<system, value, coordinator, reboot, send, psig, tsig, hpc,
                 woken, saved, posted>>

DaemonLoop(p) ==
  \/ Steps(p, "main", "loop")              \* sigaction and pthread_create
  \/ CreateFails(p, "main")
  \/ OpensSem(p, "loop", "save") \/ OpenSemFails(p, "loop")
  \/ Saves(p, "save", "reset")
  \/ DaemonResets(p)
  \/ Posts(p)
  \/ DaemonCloses(p)

-----------------------------------------------------------------------------
Starts(p) ==
  /\ p \in Participants
  /\ Steps(p, "off", "main")

Process(p) ==
  IF p = Daemon THEN DaemonLoop(p) \/ DaemonHandles(p)
                ELSE Worker(p) \/ \E c \in Contexts : Handler(p, c)

Next ==
  \/ Coordinator
  \/ \E p \in All : Starts(p) \/ Process(p)

(* Every process and every thread that can go on does, and every sleep and *)
(* every timed wait ends.                                                  *)
Spec ==
  /\ Init /\ [][Next]_vars
  /\ WF_vars(Coordinator)
  /\ \A p \in Workers :
       /\ WF_vars(Worker(p) \/ Handler(p, "thread"))
       /\ WF_vars(Handler(p, "main"))
  /\ WF_vars(Process(Daemon))

-----------------------------------------------------------------------------
(* Properties.                                                             *)

TypeOK ==
  /\ system \in {"sem_open_test", "sonicPoint"}
  /\ name \in Sems \cup {NULL}
  /\ value \in [Sems -> Nat]
  /\ apc \in {"start", "signal", "wait", "close", "end"}
  /\ asem \in Sems \cup {NULL}
  /\ apc \in {"signal", "wait", "close"} => asem # NULL
  /\ k \in 0..Len(Signalled)
  /\ apc = "signal" => k < Len(Signalled)
  /\ left \in Nat
  /\ verdict \in {"none", "waiting", "all", "timeout"}
  /\ wpc \in [All -> {"off", "main", "opened", "first", "second", "check",
                      "loop", "save", "reset", "post", "close", "end"}]
  /\ wsem \in [All -> Sems \cup {NULL}]
  /\ \A p \in All : wpc[p] = "post" => wsem[p] # NULL
  /\ reboot \in [All -> BOOLEAN] /\ send \in [All -> BOOLEAN]
  /\ psig \in [All -> BOOLEAN] /\ tsig \in [All -> BOOLEAN]
  /\ hpc \in [All -> [Contexts -> {"none", "test", "kill", "flag", "clear"}]]
  /\ woken \in [All -> BOOLEAN]
  /\ saved \subseteq All /\ posted \subseteq All

Sleeps(p) == wpc[p] \in {"first", "second", "check"}

(* A thread that the signal has woken finds reboot set when it comes to    *)
(* ask, in whichever thread the handler ran first and however far the      *)
(* handler of the main thread has got: the flag the comment on "bug1"      *)
(* asks for is never late.                                                 *)
WokenIsTold ==
  \A p \in Workers : woken[p] /\ Sleeps(p) => reboot[p]

(* spMonDaemon unlinks the semaphore in every round, so that sp_master     *)
(* gets at most one of the two releases it waits for.                      *)
DaemonIsNeverEnough == system = "sonicPoint" => verdict # "all"

(* The coordinator ends.                                                   *)
CoordinatorEnds == <>(apc = "end")

(* A process that is told before it asks releases the semaphore.           *)
ToldReleases ==
  \A p \in Workers :
    reboot[p] /\ Sleeps(p) ~> wpc[p] = "post"

Barrier == INSTANCE RebootSync WITH
  Participants <- All,
  asked <- IF verdict = "none" THEN {} ELSE Participants

(* The coordinator implements the barrier: it reports that all have        *)
(* answered only when the files of all of them are saved.                  *)
ImplementsBarrier == Barrier!Spec

=============================================================================
