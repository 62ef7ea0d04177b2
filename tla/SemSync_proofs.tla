--------------------------- MODULE SemSync_proofs ---------------------------
(***************************************************************************)
(* Proofs about SemSync, for any number of processes and of semaphores.    *)
(***************************************************************************)
EXTENDS SemSync, FiniteSetTheorems, TLAPS

(* The coordinator has done nothing before it starts, and has something to *)
(* take until it is through.                                               *)
StartInv ==
  /\ apc = "start" => k = 0 /\ asem = NULL /\ verdict = "none"
  /\ apc \in {"signal", "wait"} => left \in 1..Takes /\ verdict = "waiting"

(* From its sem_open to its end a process has a semaphore open.            *)
OpenInv ==
  \A p \in All :
    wpc[p] \in {"opened", "first", "second", "check", "save", "reset", "post", "close"}
      => wsem[p] # NULL

(* A process runs only in its own system, and only its own program.        *)
RoleInv ==
  /\ \A p \in All \ Participants : wpc[p] = "off"
  /\ \A p \in Workers : wpc[p] \notin {"loop", "save", "reset"}
  /\ wpc[Daemon] \notin {"opened", "first", "second", "check"}

Base == TypeOK /\ StartInv /\ OpenInv /\ RoleInv

\* What the system is made of.
LEMMA Parts ==
  ASSUME system \in {"sem_open_test", "sonicPoint"}
  PROVE  /\ Len(Signalled) \in Nat \ {0}
         /\ \A j \in 1..Len(Signalled) : Signalled[j] \in Participants
         /\ Participants = IF system = "sem_open_test" THEN Workers ELSE {Daemon}
         /\ Participants \subseteq All
         /\ Takes \in Nat \ {0}
<1>1. CASE system = "sem_open_test"
  <2>1. Signalled = Procs /\ Len(Procs) \in Nat \ {0} /\ Takes = Len(Procs)
    BY <1>1, SemAssumption DEF Signalled, Takes
  <2>2. Participants = Workers
    BY <2>1 DEF Participants, Workers
  <2>. QED
    BY <1>1, <2>1, <2>2 DEF Participants, All
<1>2. CASE system = "sonicPoint"
  <2>1. Signalled = <<Daemon>> /\ Len(Signalled) = 1 /\ Takes = 2
    BY <1>2 DEF Signalled, Takes
  <2>2. Participants = {Daemon}
    BY <2>1 DEF Participants
  <2>. QED
    BY <1>2, <2>1, <2>2 DEF All
<1>. QED
  BY <1>1, <1>2

\* They stay the same: no step changes the system.
LEMMA SamePlaces ==
  ASSUME UNCHANGED system
  PROVE  UNCHANGED <<Signalled, Participants, Takes>>
BY DEF Signalled, Participants, Takes

\* Before anything has run.
LEMMA InitBase == Init => Base
<1>. SUFFICES ASSUME Init PROVE Base
  OBVIOUS
<1>1. Len(Signalled) \in Nat
  BY Parts DEF Init
<1>. QED
  BY <1>1, SemAssumption DEF Init, Base, TypeOK, StartInv, OpenInv, RoleInv, Contexts, All

\* sem_open gives a semaphore.
LEMMA OpenBase ==
  ASSUME Base, NEW s \in Sems, sem_open(s)
  PROVE  name' \in Sems /\ value' \in [Sems -> Nat] /\ s = name' /\ s # NULL
<1>1. CASE name # NULL
  BY <1>1, SemAssumption DEF Base, TypeOK, sem_open
<1>2. CASE name = NULL
  <2>1. name' = s /\ value' = [value EXCEPT ![s] = 0]
    BY <1>2 DEF sem_open
  <2>. QED
    BY <2>1, SemAssumption DEF Base, TypeOK
<1>. QED
  BY <1>1, <1>2

\* The coordinator's steps.
LEMMA CoordinatorBase == ASSUME Base, Coordinator PROVE Base'
<1>1. system \in {"sem_open_test", "sonicPoint"} /\ UNCHANGED system
  BY DEF Base, TypeOK, Coordinator, Opens, OpenFails, Signals, TakesOne, TimesOut, Closes
<1>2. /\ UNCHANGED <<Signalled, Participants, Takes>>
      /\ Len(Signalled) \in Nat \ {0} /\ Takes \in Nat \ {0} /\ Participants \subseteq All
      /\ \A j \in 1..Len(Signalled) : Signalled[j] \in Participants
  BY <1>1, Parts, SamePlaces
<1>3. CASE Opens
  <2>1. PICK s \in Sems : sem_open(s) /\ asem' = s
    BY <1>3 DEF Opens
  <2>2. name' \in Sems /\ value' \in [Sems -> Nat] /\ s # NULL
    BY <2>1, OpenBase
  <2>. QED
    BY <1>2, <1>3, <2>1, <2>2 DEF Base, TypeOK, StartInv, OpenInv, RoleInv, Opens, process
<1>4. CASE OpenFails \/ TimesOut \/ Closes
  BY <1>2, <1>4 DEF Base, TypeOK, StartInv, OpenInv, RoleInv, OpenFails, TimesOut, Closes,
                    process, sem_unlink
<1>5. CASE TakesOne
  <2>1. asem \in Sems /\ value[asem] \in Nat \ {0} /\ left \in 1..Takes /\ left - 1 \in Nat
    BY <1>2, <1>5 DEF Base, TypeOK, StartInv, TakesOne
  <2>. QED
    BY <1>2, <1>5, <2>1 DEF Base, TypeOK, StartInv, OpenInv, RoleInv, TakesOne, process
<1>6. CASE Signals
  <2>1. /\ UNCHANGED <<system, name, value, asem, left, verdict, reboot, send, tsig, hpc, woken, saved, posted>>
        /\ apc = "signal" /\ k' = k + 1 /\ apc' = IF k + 1 = Len(Signalled) THEN "wait" ELSE "signal"
    BY <1>6 DEF Signals
  <2>2. k' \in 0..Len(Signalled) /\ (apc' = "signal" => k' < Len(Signalled)) /\ apc' \in {"signal", "wait"}
    BY <1>2, <2>1 DEF Base, TypeOK
  <2>3. /\ \A q \in All :
             \/ wpc'[q] = wpc[q] /\ wsem'[q] = wsem[q]
             \/ wpc[q] \in {"main", "opened"} /\ wpc'[q] = "end"
        /\ wpc' \in [All -> {"off", "main", "opened", "first", "second", "check",
                              "loop", "save", "reset", "post", "close", "end"}]
        /\ wsem' \in [All -> Sems \cup {NULL}]
    <3>. DEFINE p == Signalled[k + 1]
    <3>1. /\ wpc' = [wpc EXCEPT ![p] = IF NoHandler(p) THEN "end" ELSE @]
          /\ wsem' = [wsem EXCEPT ![p] = IF NoHandler(p) THEN NULL ELSE @]
      BY <1>6 DEF Signals
    <3>2. p \in All
      <4>1. k + 1 \in 1..Len(Signalled)
        BY <1>2, <2>1 DEF Base, TypeOK
      <4>. QED
        BY <1>2, <4>1
    <3>. HIDE DEF p
    <3>3. /\ wpc' \in [All -> {"off", "main", "opened", "first", "second", "check",
                                "loop", "save", "reset", "post", "close", "end"}]
          /\ wpc'[p] = IF NoHandler(p) THEN "end" ELSE wpc[p]
          /\ \A q \in All \ {p} : wpc'[q] = wpc[q]
      BY <3>1, <3>2 DEF Base, TypeOK
    <3>4. /\ wsem' \in [All -> Sems \cup {NULL}]
          /\ ~NoHandler(p) => wsem'[p] = wsem[p]
          /\ \A q \in All \ {p} : wsem'[q] = wsem[q]
      BY <3>1, <3>2 DEF Base, TypeOK
    <3>. QED
      BY <3>3, <3>4 DEF NoHandler
  <2>4. psig' \in [All -> BOOLEAN]
    BY <1>6 DEF Signals, NoHandler, Alive, Base, TypeOK
  <2>5. OpenInv'
    BY <2>3 DEF Base, OpenInv
  <2>6. RoleInv'
    <3>1. Workers \subseteq All /\ Daemon \in All
      BY DEF All
    <3>. QED
      BY <1>2, <2>3, <3>1 DEF Base, RoleInv
  <2>7. TypeOK'
    BY <1>2, <2>1, <2>2, <2>3, <2>4, <2>5 DEF Base, TypeOK, OpenInv
  <2>. QED
    BY <1>2, <2>1, <2>2, <2>5, <2>6, <2>7 DEF Base, StartInv
<1>. QED
  BY <1>3, <1>4, <1>5, <1>6 DEF Coordinator

\* What the steps of a process leave alone.
LEMMA ProcessKeeps ==
  ASSUME NEW p \in All, Starts(p) \/ Process(p)
  PROVE  UNCHANGED <<system, coordinator>>
BY DEF Starts, Process, Steps, DaemonLoop, DaemonHandles, CreateFails, OpensSem, OpenSemFails,
       Saves, DaemonResets, Posts, DaemonCloses, Ends, Worker, SleepsAgain, WakesUp, Checks, Closed,
       Handler, Delivered, HandlerTests, HandlerKills, HandlerFlags, HandlerClears

\* The steps of a handler.
LEMMA HandlerBase ==
  ASSUME Base, NEW p \in Workers, NEW c \in Contexts, Handler(p, c)
  PROVE  Base'
<1>1. p \in All /\ UNCHANGED <<system, coordinator, Signalled, Participants, Takes, name, value, wpc, wsem,
                              saved, posted>>
  BY SamePlaces DEF All, Handler, Delivered, HandlerTests, HandlerKills, HandlerFlags, HandlerClears
<1>2. TypeOK'
  <2>1. /\ reboot' \in [All -> BOOLEAN] /\ send' \in [All -> BOOLEAN]
        /\ psig' \in [All -> BOOLEAN] /\ tsig' \in [All -> BOOLEAN]
    BY <1>1 DEF Base, TypeOK, Handler, Delivered, HandlerTests, HandlerKills, HandlerFlags,
                HandlerClears
  <2>2. woken' \in [All -> BOOLEAN]
    BY <1>1 DEF Base, TypeOK, Handler, Delivered, HandlerTests, HandlerKills, HandlerFlags,
                HandlerClears, Returns
  <2>3. \E l \in {"none", "test", "kill", "flag", "clear"} : HandlerAt(p, c, l)
    BY DEF Handler, Delivered, HandlerTests, HandlerKills, HandlerFlags, HandlerClears, Returns
  <2>4. hpc' \in [All -> [Contexts -> {"none", "test", "kill", "flag", "clear"}]]
    BY <1>1, <2>3 DEF Base, TypeOK, HandlerAt
  <2>. QED
    BY <1>1, <2>1, <2>2, <2>4 DEF Base, TypeOK, coordinator
<1>. QED
  BY <1>1, <1>2 DEF Base, StartInv, OpenInv, RoleInv, coordinator

\* The end of a process.
LEMMA EndsBase ==
  ASSUME Base, NEW p \in Participants, p \in All, Ends(p), name' \in Sems \cup {NULL}
  PROVE  Base'
<1>1. UNCHANGED <<Signalled, Participants, Takes>>
  BY SamePlaces DEF Ends
<1>. QED
  BY <1>1 DEF Base, TypeOK, StartInv, OpenInv, RoleInv, Ends, Goto, coordinator

\* A step from one place of the program to another that opens nothing.
LEMMA MoveBase ==
  ASSUME Base, NEW p \in Participants, p \in All, NEW l, Goto(p, l),
         l \in {"main", "opened", "first", "second", "check", "loop", "save", "reset", "post", "close"},
         p \in Workers => l \notin {"loop", "save", "reset"},
         p = Daemon => l \notin {"opened", "first", "second", "check"},
         l \notin {"main", "loop"} => wsem[p] # NULL,
         UNCHANGED <<system, name, coordinator, wsem, send, psig, tsig, hpc, woken>>,
         value' \in [Sems -> Nat], reboot' \in [All -> BOOLEAN],
         saved' \subseteq All, posted' \subseteq All
  PROVE  Base'
<1>1. UNCHANGED <<Signalled, Participants, Takes>>
  BY SamePlaces
<1>2. /\ wpc' \in [All -> {"off", "main", "opened", "first", "second", "check", "loop", "save",
                         "reset", "post", "close", "end"}]
      /\ wpc'[p] = l /\ \A q \in All \ {p} : wpc'[q] = wpc[q]
  BY DEF Base, TypeOK, Goto
<1>3. TypeOK' /\ StartInv'
  BY <1>1, <1>2 DEF Base, TypeOK, StartInv, coordinator
<1>4. OpenInv' /\ RoleInv'
  BY <1>1, <1>2 DEF Base, OpenInv, RoleInv, All
<1>. QED
  BY <1>3, <1>4 DEF Base

\* A step that opens the semaphore.
LEMMA OpensBase ==
  ASSUME Base, NEW p \in Participants, p \in All, NEW from, NEW to, OpensSem(p, from, to),
         \/ p \in Workers /\ p # Daemon /\ to = "opened"
         \/ p = Daemon /\ p \notin Workers /\ to = "save"
  PROVE  Base'
<1>1. PICK s \in Sems : sem_open(s) /\ wsem' = [wsem EXCEPT ![p] = s]
  BY DEF OpensSem
<1>2. name' \in Sems /\ value' \in [Sems -> Nat] /\ s # NULL
  BY <1>1, OpenBase
<1>3. UNCHANGED <<Signalled, Participants, Takes>>
  BY SamePlaces DEF OpensSem
<1>. QED
  BY <1>1, <1>2, <1>3 DEF Base, TypeOK, StartInv, OpenInv, RoleInv, OpensSem, Goto, coordinator

\* The steps of processB and processC.
LEMMA WorkerBase ==
  ASSUME Base, NEW p \in Workers, Starts(p) \/ Worker(p)
  PROVE  Base'
<1>1. p \in All /\ p # Daemon /\ wpc[p] \in {"off", "main", "opened", "first", "second", "check", "post", "close"}
  BY SemAssumption DEF All, Base, TypeOK, RoleInv, Starts, Worker, Steps, OpensSem, OpenSemFails,
                       CreateFails, SleepsAgain, WakesUp, Saves, Checks, Posts, Closed
<1>2. p \in Participants
  <2>1. wpc[p] = "off" => Starts(p)
    BY DEF Worker, Steps, OpensSem, OpenSemFails, CreateFails, SleepsAgain, WakesUp, Saves, Checks,
           Posts, Closed
  <2>. QED
    BY <1>1, <2>1 DEF Base, RoleInv, Starts
<1>3. wpc[p] \in {"opened", "first", "second", "check", "post", "close"} => wsem[p] # NULL
  BY <1>1 DEF Base, OpenInv
<1>4. CASE Starts(p)
  BY <1>1, <1>2, <1>4, MoveBase DEF Starts, Steps, Base, TypeOK
<1>5. CASE OpensSem(p, "main", "opened")
  BY <1>1, <1>2, <1>5, OpensBase
<1>6. CASE OpenSemFails(p, "main") \/ CreateFails(p, "opened") \/ Closed(p)
  <2>1. Ends(p) /\ name' \in Sems \cup {NULL}
    BY <1>6 DEF OpenSemFails, CreateFails, Closed, sem_unlink, Base, TypeOK
  <2>. QED
    BY <1>1, <1>2, <2>1, EndsBase
<1>7. CASE Steps(p, "opened", "first")
  BY <1>1, <1>2, <1>3, <1>7, MoveBase DEF Steps, Base, TypeOK
<1>8. CASE SleepsAgain(p)
  BY <1>1, <1>2, <1>3, <1>8, MoveBase DEF SleepsAgain, Steps, Base, TypeOK
<1>9. CASE WakesUp(p)
  BY <1>1, <1>2, <1>3, <1>9, MoveBase DEF WakesUp, Saves, Base, TypeOK
<1>10. CASE Checks(p)
  <2>1. reboot' \in [All -> BOOLEAN]
    BY <1>10 DEF Checks, Base, TypeOK
  <2>. QED
    BY <1>1, <1>2, <1>3, <1>10, <2>1, MoveBase DEF Checks, Base, TypeOK
<1>11. CASE Posts(p)
  <2>1. value' \in [Sems -> Nat] /\ posted' \subseteq All
    BY <1>1, <1>3, <1>11 DEF Posts, Base, TypeOK
  <2>. QED
    BY <1>1, <1>2, <1>3, <1>11, <2>1, MoveBase DEF Posts, Base, TypeOK
<1>. QED
  BY <1>4, <1>5, <1>6, <1>7, <1>8, <1>9, <1>10, <1>11 DEF Worker

\* The steps of the daemon.
LEMMA DaemonBase ==
  ASSUME Base, Starts(Daemon) \/ DaemonLoop(Daemon) \/ DaemonHandles(Daemon)
  PROVE  Base'
<1>1. Daemon \in All /\ Daemon \notin Workers
  BY SemAssumption DEF All
<1>2. Daemon \in Participants
  <2>1. wpc[Daemon] = "off" => Starts(Daemon)
    BY DEF DaemonLoop, DaemonHandles, Alive, Steps, OpensSem, OpenSemFails, CreateFails, Saves,
           DaemonResets, Posts, DaemonCloses
  <2>. QED
    BY <1>1, <2>1 DEF Base, RoleInv, Starts
<1>3. wpc[Daemon] \in {"save", "reset", "post", "close"} => wsem[Daemon] # NULL
  BY <1>1 DEF Base, OpenInv
<1>4. CASE Starts(Daemon)
  BY <1>1, <1>2, <1>4, MoveBase DEF Starts, Steps, Base, TypeOK
<1>5. CASE Steps(Daemon, "main", "loop")
  BY <1>1, <1>2, <1>5, MoveBase DEF Steps, Base, TypeOK
<1>6. CASE OpensSem(Daemon, "loop", "save")
  BY <1>1, <1>2, <1>6, OpensBase
<1>7. CASE OpenSemFails(Daemon, "loop") \/ CreateFails(Daemon, "main")
  <2>1. Ends(Daemon) /\ name' \in Sems \cup {NULL}
    BY <1>7 DEF OpenSemFails, CreateFails, sem_unlink, Base, TypeOK
  <2>. QED
    BY <1>1, <1>2, <2>1, EndsBase
<1>8. CASE Saves(Daemon, "save", "reset")
  BY <1>1, <1>2, <1>3, <1>8, MoveBase DEF Saves, Base, TypeOK
<1>9. CASE DaemonResets(Daemon)
  <2>1. reboot' \in [All -> BOOLEAN]
    BY <1>9 DEF DaemonResets, Base, TypeOK
  <2>. QED
    BY <1>1, <1>2, <1>3, <1>9, <2>1, MoveBase DEF DaemonResets, Base, TypeOK
<1>10. CASE Posts(Daemon)
  <2>1. value' \in [Sems -> Nat] /\ posted' \subseteq All
    BY <1>1, <1>3, <1>10 DEF Posts, Base, TypeOK
  <2>. QED
    BY <1>1, <1>2, <1>3, <1>10, <2>1, MoveBase DEF Posts, Base, TypeOK
<1>11. CASE DaemonCloses(Daemon)
  <2>1. UNCHANGED <<Signalled, Participants, Takes>>
    BY <1>11, SamePlaces DEF DaemonCloses
  <2>. QED
    BY <1>1, <1>2, <1>11, <2>1 DEF DaemonCloses, Goto, sem_unlink, Base, TypeOK, StartInv, OpenInv,
       RoleInv, coordinator
<1>12. CASE DaemonHandles(Daemon)
  <2>1. UNCHANGED <<Signalled, Participants, Takes>>
    BY <1>12, SamePlaces DEF DaemonHandles
  <2>. QED
    BY <1>1, <1>12, <2>1 DEF DaemonHandles, Base, TypeOK, StartInv, OpenInv, RoleInv, coordinator
<1>. QED
  BY <1>4, <1>5, <1>6, <1>7, <1>8, <1>9, <1>10, <1>11, <1>12 DEF DaemonLoop

-----------------------------------------------------------------------------
(* The handler and the flags.                                              *)

(* No signal has come, and no handler runs.                                *)
Quiet(p) ==
  /\ ~woken[p] /\ send[p] /\ ~reboot[p] /\ ~psig[p] /\ ~tsig[p]
  /\ \A c \in Contexts : hpc[p][c] = "none"

(* Once a handler has come as far as to clear send_to_thread, reboot is    *)
(* set, and so it is when a later handler finds the flag cleared.          *)
TellInv ==
  /\ apc = "start" => \A p \in Workers : Quiet(p) /\ wpc[p] # "post"
  /\ \A p \in Workers :
       /\ wpc[p] \in {"off", "main", "opened"} => Quiet(p)
       /\ Sleeps(p) /\ ~reboot[p] =>
            ~woken[p] /\ send[p] /\ \A c \in Contexts : hpc[p][c] # "clear"

\* The coordinator only ever makes a signal pending, of a process that has
\* its handler.
LEMMA CoordinatorTell == ASSUME Base, TellInv, Coordinator PROVE TellInv'
<1>1. apc' # "start"
  BY DEF Base, TypeOK, Coordinator, Opens, OpenFails, Signals, TakesOne, TimesOut, Closes
<1>2. CASE Signals
  <2>1. system \in {"sem_open_test", "sonicPoint"} /\ k + 1 \in 1..Len(Signalled)
    BY <1>2, Parts DEF Base, TypeOK, Signals
  <2>2. Signalled[k + 1] \in All
    BY <2>1, Parts
  <2>. DEFINE p == Signalled[k + 1]
  <2>3. \A q \in Workers : wpc'[q] = IF q = p /\ NoHandler(q) THEN "end" ELSE wpc[q]
    BY <1>2, <2>2 DEF Base, TypeOK, Signals, All
  <2>4. \A q \in Workers : psig'[q] = IF q = p THEN Alive(q) /\ ~NoHandler(q) ELSE psig[q]
    BY <1>2, <2>2 DEF Base, TypeOK, Signals, All
  <2>5. UNCHANGED <<reboot, send, tsig, hpc, woken>>
    BY <1>2 DEF Signals
  <2>. HIDE DEF p
  <2>6. ASSUME NEW q \in Workers, wpc'[q] \in {"off", "main", "opened"} PROVE Quiet(q)'
    <3>1. wpc'[q] = wpc[q] /\ ~(q = p /\ NoHandler(q)) /\ Quiet(q)
      BY <2>3, <2>6 DEF TellInv
    <3>2. ~psig'[q]
      BY <2>4, <2>6, <3>1 DEF Quiet, NoHandler, Alive
    <3>. QED
      BY <2>5, <3>1, <3>2 DEF Quiet
  <2>7. \A q \in Workers : Sleeps(q)' => Sleeps(q)
    BY <2>3 DEF Sleeps
  <2>. QED
    BY <1>1, <2>5, <2>6, <2>7 DEF TellInv
<1>3. CASE ~Signals
  BY <1>1, <1>3 DEF Coordinator, Opens, OpenFails, TakesOne, TimesOut, Closes, process, TellInv,
                    Quiet, Sleeps
<1>. QED
  BY <1>2, <1>3

\* The handler sets reboot before it clears send_to_thread.
LEMMA HandlerTell ==
  ASSUME Base, TellInv, NEW p \in Workers, NEW c \in Contexts, Handler(p, c)
  PROVE  TellInv'
<1>1. p \in All /\ UNCHANGED <<apc, wpc>>
  BY DEF All, Handler, Delivered, HandlerTests, HandlerKills, HandlerFlags, HandlerClears, coordinator
<1>2. ~Quiet(p)
  BY DEF Quiet, Handler, Delivered, HandlerTests, HandlerKills, HandlerFlags, HandlerClears
<1>3. apc # "start" /\ wpc[p] \notin {"off", "main", "opened"}
  BY <1>2 DEF TellInv
<1>4. \A q \in Workers \ {p} :
        /\ woken'[q] = woken[q] /\ send'[q] = send[q] /\ reboot'[q] = reboot[q]
        /\ psig'[q] = psig[q] /\ tsig'[q] = tsig[q] /\ hpc'[q] = hpc[q] /\ wpc'[q] = wpc[q]
  BY <1>1 DEF Base, TypeOK, All, Handler, Delivered, HandlerTests, HandlerKills, HandlerFlags,
              HandlerClears, Returns, HandlerAt
<1>5. ASSUME Sleeps(p), ~reboot'[p]
      PROVE  ~woken'[p] /\ send'[p] /\ \A d \in Contexts : hpc'[p][d] # "clear"
  <2>1. reboot[p] = reboot'[p] /\ ~HandlerFlags(p, c)
    BY <1>1, <1>5 DEF Base, TypeOK, Handler, Delivered, HandlerTests, HandlerKills, HandlerFlags,
                      HandlerClears
  <2>2. ~woken[p] /\ send[p] /\ \A d \in Contexts : hpc[p][d] # "clear"
    BY <1>5, <2>1 DEF TellInv
  <2>3. \E l \in {"none", "test", "kill", "flag"} : HandlerAt(p, c, l)
    BY <2>1, <2>2 DEF Handler, Delivered, HandlerTests, HandlerKills, HandlerClears, Returns
  <2>4. \A d \in Contexts : hpc'[p][d] # "clear"
    BY <1>1, <2>2, <2>3 DEF HandlerAt, Base, TypeOK
  <2>5. UNCHANGED <<woken, send>>
    BY <2>1, <2>2 DEF Handler, Delivered, HandlerTests, HandlerKills, HandlerClears
  <2>. QED
    BY <2>2, <2>4, <2>5
<1>6. \A q \in Workers : Sleeps(q)' <=> Sleeps(q)
  BY <1>1 DEF Sleeps
<1>7. \A q \in Workers \ {p} : Quiet(q) => Quiet(q)'
  BY <1>4 DEF Quiet
<1>8. ASSUME NEW q \in Workers
      PROVE  /\ wpc'[q] \in {"off", "main", "opened"} => Quiet(q)'
             /\ Sleeps(q)' /\ ~reboot'[q] =>
                  ~woken'[q] /\ send'[q] /\ \A d \in Contexts : hpc'[q][d] # "clear"
  <2>1. CASE q = p
    BY <1>1, <1>3, <1>5, <1>6, <2>1
  <2>2. CASE q # p
    BY <1>4, <1>6, <1>7, <2>2 DEF TellInv
  <2>. QED
    BY <2>1, <2>2
<1>. QED
  BY <1>1, <1>3, <1>8 DEF TellInv

\* A step from one place of a process to another, not out of its sleep.
LEMMA MoveTell ==
  ASSUME Base, TellInv, NEW p \in All, NEW l, Goto(p, l), l # "post" \/ p = Daemon,
         p \in Workers /\ l \in {"off", "main", "opened"} => wpc[p] \in {"off", "main"},
         p \in Workers /\ l \in {"first", "second", "check"} => wpc[p] \in {"opened", "first", "second"},
         UNCHANGED <<apc, send, tsig, hpc, woken>>,
         \A q \in Workers : psig'[q] = psig[q] /\ reboot'[q] = reboot[q]
  PROVE  TellInv'
<1>1. \A q \in Workers : q \in All /\ q # Daemon
  BY SemAssumption DEF All
<1>2. \A q \in Workers : Quiet(q) => Quiet(q)'
  BY DEF Quiet
<1>3. wpc'[p] = l /\ \A q \in All \ {p} : wpc'[q] = wpc[q]
  BY DEF Base, TypeOK, Goto
<1>4. \A q \in Workers : Sleeps(q)' => Sleeps(q) \/ Quiet(q)
  BY <1>1, <1>3 DEF Sleeps, TellInv
<1>5. \A q \in Workers : wpc'[q] \in {"off", "main", "opened"} => Quiet(q)
  BY <1>1, <1>3 DEF TellInv
<1>6. apc' = "start" => \A q \in Workers : Quiet(q) /\ wpc'[q] # "post"
  BY <1>1, <1>3 DEF TellInv
<1>7. ASSUME NEW q \in Workers, Sleeps(q)', ~reboot'[q]
      PROVE  ~woken'[q] /\ send'[q] /\ \A c \in Contexts : hpc'[q][c] # "clear"
  BY <1>4, <1>7 DEF TellInv, Quiet
<1>. QED
  BY <1>2, <1>5, <1>6, <1>7 DEF TellInv

\* A process that has ended has no handler.
LEMMA EndsTell ==
  ASSUME Base, TellInv, NEW p \in All, Ends(p)
  PROVE  TellInv'
<1>1. wpc'[p] = "end" /\ Quiet(p)' /\ UNCHANGED apc
  BY DEF Base, TypeOK, Ends, Goto, Quiet, coordinator
<1>2. \A q \in All \ {p} :
        /\ woken'[q] = woken[q] /\ send'[q] = send[q] /\ reboot'[q] = reboot[q]
        /\ psig'[q] = psig[q] /\ tsig'[q] = tsig[q] /\ hpc'[q] = hpc[q] /\ wpc'[q] = wpc[q]
  BY DEF Base, TypeOK, Ends, Goto
<1>3. \A q \in Workers \ {p} : /\ Quiet(q) => Quiet(q)'
                               /\ Sleeps(q)' => Sleeps(q)
  BY <1>2 DEF Quiet, Sleeps, All
<1>4. ASSUME NEW q \in Workers, q # p
      PROVE  /\ apc' = "start" => Quiet(q)' /\ wpc'[q] # "post"
             /\ wpc'[q] \in {"off", "main", "opened"} => Quiet(q)'
             /\ Sleeps(q)' /\ ~reboot'[q] =>
                  ~woken'[q] /\ send'[q] /\ \A c \in Contexts : hpc'[q][c] # "clear"
  BY <1>1, <1>2, <1>3, <1>4 DEF TellInv, All
<1>. QED
  BY <1>1, <1>4 DEF TellInv, Sleeps

\* The steps of processB and processC.
LEMMA WorkerTell ==
  ASSUME Base, TellInv, NEW p \in Workers, Starts(p) \/ Worker(p)
  PROVE  TellInv'
<1>1. p \in All /\ p # Daemon
  BY SemAssumption DEF All
<1>2. CASE OpenSemFails(p, "main") \/ CreateFails(p, "opened") \/ Closed(p)
  BY <1>1, <1>2, EndsTell DEF OpenSemFails, CreateFails, Closed
<1>3. CASE Starts(p) \/ Steps(p, "opened", "first")
  BY <1>1, <1>3, MoveTell DEF Starts, Steps, coordinator
<1>4. CASE OpensSem(p, "main", "opened")
  BY <1>1, <1>4, MoveTell DEF OpensSem, coordinator
<1>5. CASE SleepsAgain(p) \/ WakesUp(p)
  BY <1>1, <1>5, MoveTell DEF SleepsAgain, WakesUp, Steps, Saves, coordinator
<1>6. CASE Posts(p)
  BY <1>1, <1>6, MoveTell DEF Posts, coordinator
<1>7. CASE Checks(p)
  <2>1. /\ wpc'[p] = IF reboot[p] THEN "post" ELSE "close"
        /\ \A q \in All \ {p} : wpc'[q] = wpc[q] /\ reboot'[q] = reboot[q]
        /\ ~reboot'[p]
        /\ UNCHANGED <<apc, send, psig, tsig, hpc, woken>>
    BY <1>1, <1>7 DEF Base, TypeOK, Checks, Goto, coordinator
  <2>2. \A q \in Workers : Quiet(q) => Quiet(q)'
    BY <2>1 DEF Quiet, All
  <2>3. ASSUME NEW q \in Workers
        PROVE  /\ apc' = "start" => Quiet(q)' /\ wpc'[q] # "post"
               /\ wpc'[q] \in {"off", "main", "opened"} => Quiet(q)'
               /\ Sleeps(q)' /\ ~reboot'[q] =>
                    ~woken'[q] /\ send'[q] /\ \A c \in Contexts : hpc'[q][c] # "clear"
    <3>1. CASE q = p
      BY <2>1, <2>2, <3>1 DEF TellInv, Quiet, Sleeps
    <3>2. CASE q # p
      BY <2>1, <2>2, <3>2 DEF TellInv, Sleeps, All
    <3>. QED
      BY <3>1, <3>2
  <2>. QED
    BY <2>3 DEF TellInv
<1>. QED
  BY <1>2, <1>3, <1>4, <1>5, <1>6, <1>7 DEF Worker

\* The daemon has no part in it.
LEMMA DaemonTell ==
  ASSUME Base, TellInv, Starts(Daemon) \/ DaemonLoop(Daemon) \/ DaemonHandles(Daemon)
  PROVE  TellInv'
<1>1. Daemon \in All /\ \A q \in Workers : q \in All /\ q # Daemon
  BY SemAssumption DEF All
<1>2. CASE OpenSemFails(Daemon, "loop") \/ CreateFails(Daemon, "main")
  BY <1>1, <1>2, EndsTell DEF OpenSemFails, CreateFails
<1>3. CASE Starts(Daemon) \/ Steps(Daemon, "main", "loop") \/ OpensSem(Daemon, "loop", "save")
  BY <1>1, <1>3, MoveTell DEF Starts, Steps, OpensSem, coordinator
<1>4. CASE Saves(Daemon, "save", "reset") \/ Posts(Daemon) \/ DaemonCloses(Daemon)
  BY <1>1, <1>4, MoveTell DEF Saves, Posts, DaemonCloses, coordinator
<1>5. CASE DaemonResets(Daemon)
  <2>1. \A q \in Workers : psig'[q] = psig[q] /\ reboot'[q] = reboot[q]
    BY <1>1, <1>5 DEF DaemonResets, Base, TypeOK
  <2>. QED
    BY <1>1, <1>5, <2>1, MoveTell DEF DaemonResets, coordinator
<1>6. CASE DaemonHandles(Daemon)
  <2>1. \A q \in Workers : psig'[q] = psig[q] /\ reboot'[q] = reboot[q]
    BY <1>1, <1>6 DEF DaemonHandles, Base, TypeOK
  <2>2. UNCHANGED <<apc, wpc, send, tsig, hpc, woken>>
    BY <1>6 DEF DaemonHandles, coordinator
  <2>. QED
    BY <2>1, <2>2 DEF TellInv, Quiet, Sleeps
<1>. QED
  BY <1>2, <1>3, <1>4, <1>5, <1>6 DEF DaemonLoop

-----------------------------------------------------------------------------
(* What is in the semaphore.                                               *)

(* Who has released the coordinator's semaphore has saved, and is through. *)
SaveInv ==
  /\ posted \subseteq Participants
  /\ \A p \in Workers :
       /\ wpc[p] \in {"check", "post"} => p \in saved
       /\ wpc[p] \notin {"close", "end"} => p \notin posted
       /\ p \in posted => p \in saved

(* processA: the semaphore was released once by each process in posted.    *)
CountInv ==
  system = "sem_open_test" =>
    /\ IsFiniteSet(posted)
    /\ apc = "start" => posted = {} /\ \A s \in Sems : value[s] = 0
    /\ apc \in {"signal", "wait"} => value[asem] + (Takes - left) = Cardinality(posted)

(* sp_master: of the semaphore it has open the daemon has released at most *)
(* one, and it unlinks the name before it releases another.                *)
DaemonInv ==
  system = "sonicPoint" =>
    /\ verdict # "all"
    /\ apc = "start" => \A s \in Sems :
         s = name /\ value[s] # 0 => value[s] = 1 /\ wpc[Daemon] = "close" /\ wsem[Daemon] = s
    /\ apc \in {"signal", "wait"} =>
         /\ value[asem] + (2 - left) <= 1
         /\ value[asem] + (2 - left) = 1 =>
              \/ wpc[Daemon] = "close" /\ wsem[Daemon] = asem
              \/ name # asem /\ wsem[Daemon] # asem

IInv == Base /\ TellInv /\ SaveInv /\ CountInv /\ DaemonInv

\* sem_open finds the semaphore of the name as it is, or makes one that the
\* coordinator does not have open.
LEMMA OpenValue ==
  ASSUME Base, NEW s \in Sems, sem_open(s)
  PROVE  /\ name' = s
         /\ name # NULL => s = name /\ value' = value
         /\ name = NULL => s # asem /\ value' = [value EXCEPT ![s] = 0]
<1>1. CASE name # NULL
  BY <1>1 DEF sem_open
<1>2. CASE name = NULL
  BY <1>2 DEF sem_open, Unused
<1>. QED
  BY <1>1, <1>2

\* Nothing about the semaphore has changed.
LEMMA SameCount ==
  ASSUME SaveInv, CountInv, DaemonInv,
         UNCHANGED <<system, name, value, coordinator, wpc, wsem, saved, posted>>
  PROVE  SaveInv' /\ CountInv' /\ DaemonInv'
<1>1. UNCHANGED <<Signalled, Participants, Takes>>
  BY SamePlaces
<1>. QED
  BY <1>1 DEF SaveInv, CountInv, DaemonInv, coordinator

\* The coordinator's steps.
LEMMA CoordinatorCount == ASSUME IInv, Coordinator PROVE SaveInv' /\ CountInv' /\ DaemonInv'
<1>1. /\ system \in {"sem_open_test", "sonicPoint"} /\ UNCHANGED <<system, saved, posted>>
      /\ UNCHANGED <<Signalled, Participants, Takes>> /\ Takes \in Nat \ {0}
      /\ (system = "sonicPoint" => Takes = 2)
  <2>1. system \in {"sem_open_test", "sonicPoint"} /\ UNCHANGED <<system, saved, posted>>
    BY DEF IInv, Base, TypeOK, Coordinator, Opens, OpenFails, Signals, TakesOne, TimesOut, Closes,
           process
  <2>. QED
    BY <2>1, SamePlaces, Parts DEF Takes
<1>2. SaveInv'
  <2>1. CASE Signals
    <3>1. \A q \in Workers : wpc'[q] \in {wpc[q], "end"}
      BY <2>1 DEF Signals, IInv, Base, TypeOK, All
    <3>. QED
      BY <1>1, <3>1 DEF IInv, SaveInv
  <2>2. CASE ~Signals
    <3>1. UNCHANGED wpc
      BY <2>2 DEF Coordinator, Opens, OpenFails, TakesOne, TimesOut, Closes, process
    <3>. QED
      BY <1>1, <3>1 DEF IInv, SaveInv
  <2>. QED
    BY <2>1, <2>2
<1>3. CASE OpenFails \/ TimesOut \/ Closes
  <2>1. apc' \in {"close", "end"} /\ (verdict' = verdict \/ verdict' = "timeout")
    BY <1>3 DEF OpenFails, TimesOut, Closes
  <2>. QED
    BY <1>1, <1>2, <2>1 DEF IInv, CountInv, DaemonInv
<1>4. CASE Opens
  <2>1. PICK s \in Sems : sem_open(s) /\ asem' = s
    BY <1>4 DEF Opens
  <2>2. /\ name' = s /\ s # NULL
        /\ name # NULL => s = name /\ value' = value
        /\ name = NULL => value' = [value EXCEPT ![s] = 0]
    BY <2>1, OpenValue, SemAssumption DEF IInv
  <2>3. value'[s] = IF name # NULL THEN value[s] ELSE 0
    BY <2>1, <2>2 DEF IInv, Base, TypeOK
  <2>4. left' = Takes /\ apc' = "signal" /\ verdict' = "waiting" /\ apc = "start" /\ UNCHANGED <<wpc, wsem>>
    BY <1>4 DEF Opens, process
  <2>5. CountInv'
    BY <1>1, <2>1, <2>3, <2>4, FS_EmptySet DEF IInv, CountInv
  <2>6. DaemonInv'
    BY <1>1, <2>1, <2>2, <2>3, <2>4 DEF IInv, DaemonInv
  <2>. QED
    BY <1>2, <2>5, <2>6
<1>5. CASE TakesOne
  <2>1. /\ apc = "wait" /\ asem \in Sems /\ value[asem] \in Nat \ {0} /\ left \in 1..Takes
        /\ value'[asem] = value[asem] - 1 /\ left' = left - 1
        /\ UNCHANGED <<asem, name, wpc, wsem>>
        /\ left # 1 => UNCHANGED <<apc, verdict>>
        /\ left = 1 => apc' = "close"
    BY <1>1, <1>5 DEF IInv, Base, TypeOK, StartInv, TakesOne, process
  <2>2. CountInv'
    BY <1>1, <2>1 DEF IInv, CountInv
  <2>3. system = "sonicPoint" => left # 1
    BY <1>1, <2>1 DEF IInv, DaemonInv
  <2>4. DaemonInv'
    BY <1>1, <2>1, <2>3 DEF IInv, DaemonInv
  <2>. QED
    BY <1>2, <2>2, <2>4
<1>6. CASE Signals
  <2>1. /\ apc = "signal" /\ apc' \in {"signal", "wait"} /\ UNCHANGED <<value, asem, left, name, verdict>>
        /\ asem # NULL
    BY <1>6 DEF Signals, IInv, Base, TypeOK
  <2>2. Daemon \in All /\ \/ wpc'[Daemon] = wpc[Daemon] /\ wsem'[Daemon] = wsem[Daemon]
                          \/ wpc[Daemon] # "close" /\ wsem'[Daemon] = NULL
    BY <1>6 DEF Signals, NoHandler, IInv, Base, TypeOK, All
  <2>3. CountInv'
    BY <1>1, <2>1 DEF IInv, CountInv
  <2>4. DaemonInv'
    BY <1>1, <2>1, <2>2 DEF IInv, DaemonInv
  <2>. QED
    BY <1>2, <2>3, <2>4
<1>. QED
  BY <1>3, <1>4, <1>5, <1>6 DEF Coordinator

\* A step of processB or processC that leaves the semaphores alone.
LEMMA WorkerMoveCount ==
  ASSUME IInv, NEW p \in Workers, NEW l, Goto(p, l), p \in Participants, wpc[p] \notin {"close", "end"},
         l # "post" \/ (wpc[p] = "check"),
         l = "check" => p \in saved', saved \subseteq saved',
         UNCHANGED <<system, coordinator, posted>>, system = "sem_open_test" => UNCHANGED value
  PROVE  SaveInv' /\ CountInv' /\ DaemonInv'
<1>1. UNCHANGED <<Signalled, Participants, Takes>> /\ p \in All
  BY SamePlaces DEF All
<1>2. wpc'[p] = l /\ \A q \in All \ {p} : wpc'[q] = wpc[q]
  BY <1>1 DEF IInv, Base, TypeOK, Goto
<1>3. system = "sem_open_test"
  BY Parts, SemAssumption DEF IInv, Base, TypeOK
<1>4. SaveInv'
  BY <1>1, <1>2 DEF IInv, SaveInv, All
<1>. QED
  BY <1>1, <1>3, <1>4 DEF IInv, CountInv, DaemonInv, coordinator

\* The steps of processB and processC.
LEMMA WorkerCount ==
  ASSUME IInv, NEW p \in Workers, Starts(p) \/ Worker(p)
  PROVE  SaveInv' /\ CountInv' /\ DaemonInv'
<1>1. p \in All /\ p # Daemon
  BY SemAssumption DEF All
<1>2. p \in Participants
  <2>1. wpc[p] = "off" => Starts(p)
    BY DEF Worker, Steps, OpensSem, OpenSemFails, CreateFails, SleepsAgain, WakesUp, Saves, Checks,
           Posts, Closed
  <2>. QED
    BY <1>1, <2>1 DEF IInv, Base, RoleInv, Starts
<1>3. system = "sem_open_test" /\ UNCHANGED <<system, coordinator, Signalled, Participants, Takes>>
  <2>1. system = "sem_open_test"
    BY <1>1, <1>2, Parts DEF IInv, Base, TypeOK
  <2>2. Starts(p) \/ Process(p)
    BY <1>1 DEF Process
  <2>. QED
    BY <1>1, <2>1, <2>2, ProcessKeeps, SamePlaces
<1>4. CASE Starts(p) \/ Steps(p, "opened", "first") \/ SleepsAgain(p)
  BY <1>2, <1>4, WorkerMoveCount DEF Starts, Steps, SleepsAgain
<1>5. CASE WakesUp(p) \/ Checks(p)
  BY <1>2, <1>5, WorkerMoveCount DEF WakesUp, Saves, Checks
<1>6. CASE OpenSemFails(p, "main") \/ CreateFails(p, "opened") \/ Closed(p)
  <2>1. Ends(p)
    BY <1>6 DEF OpenSemFails, CreateFails, Closed
  <2>2. UNCHANGED <<value, saved, posted>> /\ \A q \in Workers : wpc'[q] \in {wpc[q], "end"}
    BY <1>1, <2>1 DEF Ends, Goto, IInv, Base, TypeOK, All
  <2>. QED
    BY <1>3, <2>2 DEF IInv, SaveInv, CountInv, DaemonInv, coordinator
<1>7. CASE OpensSem(p, "main", "opened")
  <2>1. PICK s \in Sems : sem_open(s)
    BY <1>7 DEF OpensSem
  <2>2. /\ asem \in Sems => value'[asem] = value[asem]
        /\ \A r \in Sems : value'[r] = value[r] \/ value'[r] = 0
    BY <2>1, OpenValue DEF IInv, Base, TypeOK
  <2>3. UNCHANGED <<saved, posted>> /\ \A q \in Workers : wpc'[q] \in {wpc[q]} \cup (IF q = p THEN {"opened"} ELSE {})
    BY <1>1, <1>7 DEF OpensSem, Goto, IInv, Base, TypeOK, All
  <2>4. SaveInv'
    BY <1>3, <1>7, <2>3 DEF IInv, SaveInv, OpensSem
  <2>5. apc \in {"signal", "wait"} => asem \in Sems
    BY DEF IInv, Base, TypeOK
  <2>. QED
    BY <1>3, <2>2, <2>3, <2>4, <2>5 DEF IInv, CountInv, DaemonInv, coordinator
<1>8. CASE Posts(p)
  <2>1. wpc[p] = "post" /\ apc # "start" /\ p \in saved /\ p \notin posted /\ wsem[p] \in Sems
    BY <1>1, <1>8 DEF Posts, IInv, TellInv, SaveInv, Base, TypeOK, OpenInv
  <2>2. UNCHANGED saved /\ posted' = (IF wsem[p] = asem THEN posted \cup {p} ELSE posted)
        /\ wpc'[p] = "close" /\ \A q \in Workers \ {p} : wpc'[q] = wpc[q]
    BY <1>1, <1>8 DEF Posts, Goto, IInv, Base, TypeOK, All
  <2>3. SaveInv'
    BY <1>2, <1>3, <2>1, <2>2 DEF IInv, SaveInv
  <2>4. asem \in Sems => value'[asem] = IF wsem[p] = asem THEN value[asem] + 1 ELSE value[asem]
    BY <1>8, <2>1 DEF Posts, IInv, Base, TypeOK
  <2>5. IsFiniteSet(posted) /\ Cardinality(posted) \in Nat
    BY <1>3, FS_CardinalityType DEF IInv, CountInv
  <2>6. /\ IsFiniteSet(posted \cup {p}) /\ Cardinality(posted \cup {p}) = Cardinality(posted) + 1
    BY <2>1, <2>5, FS_AddElement
  <2>7. apc \in {"signal", "wait"} => asem \in Sems /\ value[asem] \in Nat /\ left \in 1..Takes /\ Takes \in Nat
    BY Parts DEF IInv, Base, TypeOK, StartInv
  <2>8. CountInv'
    <3>1. CASE wsem[p] = asem
      BY <1>3, <2>1, <2>2, <2>4, <2>6, <2>7, <3>1 DEF IInv, CountInv, coordinator
    <3>2. CASE wsem[p] # asem
      BY <1>3, <2>1, <2>2, <2>4, <2>5, <2>7, <3>2 DEF IInv, CountInv, coordinator
    <3>. QED
      BY <3>1, <3>2
  <2>. QED
    BY <1>3, <2>3, <2>8 DEF DaemonInv
<1>. QED
  BY <1>4, <1>5, <1>6, <1>7, <1>8 DEF Worker

\* The daemon's steps: it opens, releases and unlinks the semaphore in turn.
LEMMA DaemonCount ==
  ASSUME IInv, Starts(Daemon) \/ DaemonLoop(Daemon) \/ DaemonHandles(Daemon)
  PROVE  SaveInv' /\ CountInv' /\ DaemonInv'
<1>1. Daemon \in All /\ Daemon \notin Workers
  BY SemAssumption DEF All
<1>2. Daemon \in Participants
  <2>1. wpc[Daemon] = "off" => Starts(Daemon)
    BY DEF DaemonLoop, DaemonHandles, Alive, Steps, OpensSem, OpenSemFails, CreateFails, Saves,
           DaemonResets, Posts, DaemonCloses
  <2>. QED
    BY <1>1, <2>1 DEF IInv, Base, RoleInv, Starts
<1>3. system = "sonicPoint" /\ UNCHANGED <<system, coordinator, Signalled, Participants, Takes>>
  <2>1. system = "sonicPoint"
    BY <1>1, <1>2, Parts DEF IInv, Base, TypeOK
  <2>2. Starts(Daemon) \/ Process(Daemon)
    BY DEF Process
  <2>. QED
    BY <1>1, <2>1, <2>2, ProcessKeeps, SamePlaces
<1>4. SaveInv' /\ CountInv'
  <2>1. \A q \in Workers : wpc'[q] = wpc[q]
    BY <1>1 DEF IInv, Base, TypeOK, All, Starts, DaemonLoop, DaemonHandles, Steps, OpensSem,
       OpenSemFails, CreateFails, Saves, DaemonResets, Posts, DaemonCloses, Ends, Goto
  <2>2. saved \subseteq saved' /\ (posted' = posted \/ posted' = posted \cup {Daemon})
    BY DEF Starts, DaemonLoop, DaemonHandles, Steps, OpensSem, OpenSemFails, CreateFails, Saves,
       DaemonResets, Posts, DaemonCloses, Ends
  <2>. QED
    BY <1>1, <1>2, <1>3, <2>1, <2>2 DEF IInv, SaveInv, CountInv
<1>5. /\ value \in [Sems -> Nat] /\ wsem \in [All -> Sems \cup {NULL}]
      /\ NULL \notin Sems
      /\ apc \in {"signal", "wait"} => asem \in Sems /\ left \in Nat
  BY SemAssumption DEF IInv, Base, TypeOK
<1>6. CASE UNCHANGED <<name, value, wsem>> /\ wpc[Daemon] # "close"
  BY <1>3, <1>4, <1>5, <1>6 DEF IInv, DaemonInv, coordinator
<1>7. CASE Ends(Daemon) /\ wpc[Daemon] # "close" /\ (name' = name \/ name' = NULL)
  <2>1. wsem'[Daemon] = NULL /\ UNCHANGED value
    BY <1>1, <1>5, <1>7 DEF Ends
  <2>. QED
    BY <1>3, <1>4, <1>5, <1>7, <2>1 DEF IInv, DaemonInv, coordinator
<1>8. CASE OpensSem(Daemon, "loop", "save")
  <2>1. PICK s \in Sems : sem_open(s) /\ wsem' = [wsem EXCEPT ![Daemon] = s]
    BY <1>8 DEF OpensSem
  <2>2. /\ name' = s /\ wsem'[Daemon] = s /\ wpc[Daemon] = "loop"
        /\ name # NULL => s = name /\ value' = value
        /\ name = NULL => s # asem /\ value' = [value EXCEPT ![s] = 0]
    BY <1>1, <1>5, <1>8, <2>1, OpenValue DEF OpensSem, IInv
  <2>3. apc = "start" => value'[s] = 0
    <3>1. CASE name # NULL
      BY <1>3, <2>2, <3>1 DEF IInv, DaemonInv
    <3>2. CASE name = NULL
      BY <1>5, <2>2, <3>2
    <3>. QED
      BY <3>1, <3>2
  <2>4. apc \in {"signal", "wait"} => value'[asem] = value[asem]
    BY <1>5, <2>2
  <2>5. apc \in {"signal", "wait"} /\ value[asem] + (2 - left) = 1 => s # asem
    BY <1>3, <2>2 DEF IInv, DaemonInv
  <2>. QED
    BY <1>3, <1>4, <1>5, <2>2, <2>3, <2>4, <2>5 DEF IInv, DaemonInv, coordinator
<1>9. CASE Posts(Daemon)
  <2>1. /\ wpc[Daemon] = "post" /\ wsem[Daemon] \in Sems /\ UNCHANGED <<name, wsem>>
        /\ wpc'[Daemon] = "close"
        /\ \A s \in Sems : value'[s] = IF s = wsem[Daemon] THEN value[s] + 1 ELSE value[s]
    BY <1>1, <1>5, <1>9 DEF Posts, Goto, IInv, Base, OpenInv, TypeOK
  <2>2. apc = "start" => \A s \in Sems : s = name => value[s] = 0
    BY <1>3, <2>1 DEF IInv, DaemonInv
  <2>3. apc \in {"signal", "wait"} /\ wsem[Daemon] = asem => value[asem] + (2 - left) <= 0
    <3>. SUFFICES ASSUME apc \in {"signal", "wait"}, wsem[Daemon] = asem
                  PROVE  value[asem] + (2 - left) <= 0
      OBVIOUS
    <3>1. value[asem] + (2 - left) <= 1
      BY <1>3 DEF IInv, DaemonInv
    <3>2. value[asem] + (2 - left) # 1
      BY <1>3, <2>1 DEF IInv, DaemonInv
    <3>3. value[asem] \in Nat /\ left \in Nat
      BY <1>5
    <3>. QED
      BY <3>1, <3>2, <3>3
  <2>4. apc \in {"signal", "wait"} /\ wsem[Daemon] # asem => value'[asem] = value[asem]
    BY <1>5, <2>1
  <2>5. apc \in {"signal", "wait"} /\ wsem[Daemon] = asem => value'[asem] = value[asem] + 1
    BY <1>5, <2>1
  <2>6. CASE apc = "start"
    BY <1>3, <1>4, <2>1, <2>2, <2>6 DEF IInv, DaemonInv, coordinator
  <2>7. CASE apc # "start" /\ wsem[Daemon] = asem
    <3>1. apc' = apc /\ asem' = asem /\ left' = left /\ verdict' = verdict
      BY <1>3 DEF coordinator
    <3>2. verdict # "all"
      BY <1>3 DEF IInv, DaemonInv
    <3>3. ASSUME apc \in {"signal", "wait"}
          PROVE  value'[asem] + (2 - left) <= 1
      <4>1. value[asem] \in Nat /\ left \in Nat
        BY <1>5, <3>3
      <4>2. value[asem] + (2 - left) <= 0 /\ value'[asem] = value[asem] + 1
        BY <2>3, <2>5, <2>7, <3>3
      <4>. QED
        BY <4>1, <4>2
    <3>4. wpc'[Daemon] = "close" /\ wsem'[Daemon] = asem
      BY <2>1, <2>7
    <3>. QED
      BY <1>4, <2>7, <3>1, <3>2, <3>3, <3>4 DEF DaemonInv
  <2>8. CASE apc # "start" /\ wsem[Daemon] # asem
    BY <1>3, <1>4, <2>1, <2>4, <2>8 DEF IInv, DaemonInv, coordinator
  <2>. QED
    BY <2>6, <2>7, <2>8
<1>10. CASE DaemonCloses(Daemon)
  <2>1. name' = NULL /\ wsem'[Daemon] = NULL /\ UNCHANGED value
    BY <1>1, <1>5, <1>10 DEF DaemonCloses, sem_unlink
  <2>. QED
    BY <1>3, <1>4, <1>5, <2>1 DEF IInv, DaemonInv, coordinator
<1>11. CASE DaemonHandles(Daemon)
  BY <1>11, SameCount DEF DaemonHandles, IInv
<1>12. CASE Starts(Daemon) \/ Steps(Daemon, "main", "loop") \/ Saves(Daemon, "save", "reset") \/ DaemonResets(Daemon)
  BY <1>4, <1>6, <1>12 DEF Starts, Steps, Saves, DaemonResets
<1>13. CASE CreateFails(Daemon, "main") \/ OpenSemFails(Daemon, "loop")
  BY <1>4, <1>7, <1>13 DEF CreateFails, OpenSemFails, sem_unlink
<1>. QED
  BY <1>4, <1>8, <1>9, <1>10, <1>11, <1>12, <1>13 DEF DaemonLoop

-----------------------------------------------------------------------------
(* The invariant and the theorems.                                         *)

\* It holds at the start.
LEMMA InitInv == Init => IInv
<1>. SUFFICES ASSUME Init PROVE IInv
  OBVIOUS
<1>1. Workers \subseteq All
  BY DEF All
<1>2. TellInv
  BY <1>1 DEF Init, TellInv, Quiet, Sleeps
<1>3. SaveInv /\ CountInv
  BY <1>1, FS_EmptySet DEF Init, SaveInv, CountInv
<1>4. DaemonInv
  BY SemAssumption DEF Init, DaemonInv
<1>. QED
  BY <1>2, <1>3, <1>4, InitBase DEF IInv

\* Every step keeps it.
LEMMA NextInv == IInv /\ [Next]_vars => IInv'
<1>. SUFFICES ASSUME IInv, [Next]_vars PROVE IInv'
  OBVIOUS
<1>1. CASE Coordinator
  BY <1>1, CoordinatorBase, CoordinatorTell, CoordinatorCount DEF IInv
<1>2. ASSUME NEW p \in Workers, Starts(p) \/ Worker(p)
      PROVE  IInv'
  BY <1>2, WorkerBase, WorkerTell, WorkerCount DEF IInv
<1>3. ASSUME NEW p \in Workers, NEW c \in Contexts, Handler(p, c)
      PROVE  IInv'
  <2>1. UNCHANGED <<system, name, value, coordinator, wpc, wsem, saved, posted>>
    BY <1>3 DEF Handler, Delivered, HandlerTests, HandlerKills, HandlerFlags, HandlerClears
  <2>2. SaveInv' /\ CountInv' /\ DaemonInv'
    BY <2>1, SameCount DEF IInv
  <2>. QED
    BY <1>3, <2>2, HandlerBase, HandlerTell DEF IInv
<1>4. CASE Starts(Daemon) \/ DaemonLoop(Daemon) \/ DaemonHandles(Daemon)
  BY <1>4, DaemonBase, DaemonTell, DaemonCount DEF IInv
<1>5. CASE UNCHANGED vars
  <2>1. UNCHANGED <<Signalled, Participants, Takes>>
    BY <1>5, SamePlaces DEF vars
  <2>2. SaveInv' /\ CountInv' /\ DaemonInv'
    BY <1>5, SameCount DEF IInv, vars, coordinator
  <2>3. TypeOK'
    BY <1>5, <2>1 DEF IInv, Base, TypeOK, vars
  <2>4. StartInv' /\ OpenInv' /\ RoleInv'
    BY <1>5, <2>1 DEF IInv, Base, StartInv, OpenInv, RoleInv, vars
  <2>5. TellInv'
    BY <1>5 DEF IInv, TellInv, Quiet, Sleeps, vars
  <2>. QED
    BY <2>2, <2>3, <2>4, <2>5 DEF IInv, Base
<1>6. Workers = All \ {Daemon} /\ Daemon \in All
  BY SemAssumption DEF All
<1>. QED
  BY <1>1, <1>2, <1>3, <1>4, <1>5, <1>6 DEF Next, Process

\* The invariant holds throughout.
LEMMA Invariant == Spec => []IInv
BY InitInv, NextInv, PTL DEF Spec

\* Every process that the handler has woken, of any number, finds reboot set
\* when it comes to ask, however the two threads' handlers interleave.
THEOREM WokenAreTold == Spec => []WokenIsTold
<1>1. IInv => WokenIsTold
  BY DEF IInv, TellInv, WokenIsTold
<1>. QED
  BY <1>1, Invariant, PTL

\* sp_master never gets the second release it waits for.
THEOREM DaemonNeverSuffices == Spec => []DaemonIsNeverEnough
<1>1. IInv => DaemonIsNeverEnough
  BY DEF IInv, DaemonInv, DaemonIsNeverEnough
<1>. QED
  BY <1>1, Invariant, PTL

\* When processA has taken the semaphore as often as it counts processes,
\* every process has released it.
LEMMA AllPosted ==
  ASSUME IInv, system = "sem_open_test", IsFiniteSet(posted), Cardinality(posted) >= Len(Procs)
  PROVE  Workers \subseteq saved
<1>1. posted \subseteq Workers
  BY Parts DEF IInv, SaveInv
<1>2. IsFiniteSet(1..Len(Procs)) /\ Cardinality(1..Len(Procs)) = Len(Procs)
  <2>1. Len(Procs) \in Nat /\ Len(Procs) > 0
    BY SemAssumption
  <2>2. IsFiniteSet(1..Len(Procs)) /\ Cardinality(1..Len(Procs)) = IF 1 > Len(Procs) THEN 0 ELSE Len(Procs)-1+1
    BY <2>1, FS_Interval
  <2>. QED
    BY <2>1, <2>2
<1>3. Procs \in Surjection(1..Len(Procs), Workers)
  BY SemAssumption DEF Surjection, Workers
<1>4. IsFiniteSet(Workers) /\ Cardinality(Workers) <= Len(Procs)
  BY <1>2, <1>3, FS_Surjection
<1>5. posted = Workers
  <2>1. Cardinality(Workers) \in Nat /\ Cardinality(posted) \in Nat
    BY <1>4, FS_CardinalityType
  <2>2. Len(Procs) \in Nat
    BY SemAssumption
  <2>3. /\ Cardinality(posted) <= Cardinality(Workers)
        /\ Cardinality(Workers) = Cardinality(posted) => Workers = posted
    BY <1>1, <1>4, FS_Subset
  <2>. QED
    BY <1>4, <2>1, <2>2, <2>3
<1>. QED
  BY <1>5 DEF IInv, SaveInv

\* processA and sp_master implement the barrier, for any number of processes:
\* the one says that all have saved only when all have, the other never.
THEOREM SemImplementsBarrier == Spec => ImplementsBarrier
<1>. DEFINE asked == IF verdict = "none" THEN {} ELSE Participants
<1>1. Init => Barrier!Init
  BY DEF Init, Barrier!Init
<1>2. IInv /\ [Next]_vars => [Barrier!Next]_<<asked, saved, verdict>>
  <2>. SUFFICES ASSUME IInv, [Next]_vars
                PROVE  Barrier!Next \/ UNCHANGED <<asked, saved, verdict>>
    OBVIOUS
  <2>1. UNCHANGED system /\ UNCHANGED Participants
    <3>1. UNCHANGED system
      BY ProcessKeeps DEF Next, Coordinator, Opens, OpenFails, Signals, TakesOne, TimesOut, Closes, vars
    <3>. QED
      BY <3>1, SamePlaces
  <2>2. CASE Opens
    <3>1. verdict = "none" /\ verdict' = "waiting" /\ UNCHANGED saved
      BY <2>2 DEF Opens, process, IInv, Base, StartInv
    <3>2. Participants \subseteq All
      BY Parts DEF IInv, Base, TypeOK
    <3>. QED
      BY <2>1, <3>1, <3>2 DEF Barrier!Next, Barrier!Start
  <2>3. CASE TakesOne /\ left = 1
    <3>1. verdict = "waiting" /\ verdict' = "all" /\ UNCHANGED saved /\ apc = "wait" /\ asem \in Sems
          /\ value[asem] \in Nat \ {0}
      BY <2>3 DEF TakesOne, process, IInv, Base, StartInv, TypeOK
    <3>2. system = "sem_open_test"
      BY <2>3, <3>1 DEF IInv, Base, TypeOK, DaemonInv
    <3>3. IsFiniteSet(posted) /\ Cardinality(posted) >= Len(Procs)
      <4>1. IsFiniteSet(posted) /\ value[asem] + (Takes - 1) = Cardinality(posted) /\ Takes = Len(Procs)
        BY <2>3, <3>1, <3>2 DEF IInv, CountInv, Takes
      <4>2. Len(Procs) \in Nat
        BY SemAssumption
      <4>. QED
        BY <3>1, <4>1, <4>2
    <3>4. Participants = Workers /\ Participants # {}
      <4>1. Participants = Workers
        BY <3>2, Parts
      <4>2. Procs[1] \in Workers
        BY SemAssumption DEF Workers
      <4>. QED
        BY <4>1, <4>2
    <3>5. Workers \subseteq saved
      BY <3>2, <3>3, AllPosted
    <3>. QED
      BY <2>1, <3>1, <3>4, <3>5 DEF Barrier!Next, Barrier!AllSaved
  <2>4. CASE TimesOut
    <3>1. verdict = "waiting" /\ verdict' = "timeout" /\ UNCHANGED saved
      BY <2>4 DEF TimesOut, process, IInv, Base, StartInv
    <3>. QED
      BY <2>1, <3>1 DEF Barrier!Next, Barrier!GiveUp
  <2>5. CASE OpenFails \/ Signals \/ (TakesOne /\ left # 1) \/ Closes \/ UNCHANGED vars
    BY <2>1, <2>5 DEF OpenFails, Signals, TakesOne, Closes, process, vars
  <2>6. ASSUME NEW p \in All, Starts(p) \/ Process(p)
        PROVE  Barrier!Next \/ UNCHANGED <<asked, saved, verdict>>
    <3>1. UNCHANGED verdict
      BY <2>6, ProcessKeeps DEF coordinator
    <3>2. saved' = saved \/ saved' = saved \cup {p}
      BY <2>6 DEF Starts, Process, Steps, DaemonLoop, DaemonHandles, CreateFails, OpensSem,
         OpenSemFails, Saves, DaemonResets, Posts, DaemonCloses, Ends, Worker, SleepsAgain, WakesUp,
         Checks, Closed, Handler, Delivered, HandlerTests, HandlerKills, HandlerFlags, HandlerClears
    <3>. QED
      BY <2>1, <3>1, <3>2 DEF Barrier!Next, Barrier!Save
  <2>. QED
    BY <2>2, <2>3, <2>4, <2>5, <2>6 DEF Next, Coordinator
<1>. QED
  BY <1>1, <1>2, Invariant, PTL DEF Spec, ImplementsBarrier, Barrier!Spec
=============================================================================
