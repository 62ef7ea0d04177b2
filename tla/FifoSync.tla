------------------------------ MODULE FifoSync ------------------------------
(***************************************************************************)
(* fifo/sync_process_with_fifo: a master that asks slaves over one named   *)
(* pipe each to save their files, and collects their answers on a pipe of  *)
(* its own; slaveA_fifo.c and slaveB_fifo.c differ only in pipe and index. *)
(*                                                                         *)
(* The operating system's part is how open blocks: a pipe opened for       *)
(* reading waits for a writer, one opened for writing waits for a reader,  *)
(* and either is released by the other's call.  What is in a pipe is lost  *)
(* when nobody has it open.  The master and the slaves can be started      *)
(* again, and a slave can die anywhere.  Time is left out: the 20 seconds  *)
(* of select may pass whenever there is nothing to read, and the sleep of  *)
(* a slave takes any time.                                                 *)
(***************************************************************************)
EXTENDS Naturals

CONSTANTS N,            \* slaves, the size of res_fifo
          MaxRuns,      \* bound: how often the master is started
          MaxSlaveRuns  \* bound: how often a slave is started

ASSUME FifoAssumption == N \in Nat /\ N > 0 /\ MaxRuns \in Nat /\ MaxSlaveRuns \in Nat

VARIABLES
  mpc,        \* where the master stands
  i,          \* its loop variable
  fd,         \* the slaves whose pipe it has open for writing
  sync_bit,   \* the bits set in sync_bit
  res_bit,    \* the bits set in res_sync_bit
  answers,    \* the indices that can be read from the master's pipe
  path,       \* what /tmp/master_fifo is: none, live (the master reads it), stale
  verdict,    \* how the master's run ended
  runs,       \* how often the master was started
  spc,        \* where each slave stands
  exists,     \* the slaves whose pipe is in the file system
  msgs,       \* the messages that can be read from each slave's pipe
  linked,     \* the slaves whose master_fd is the live pipe
  sruns,      \* how often each slave was started
  saved       \* history: the slaves that have saved since the master started

master == <<mpc, i, fd, sync_bit, res_bit, path, verdict, runs>>

vars == <<mpc, i, fd, sync_bit, res_bit, answers, path, verdict, runs,
          spc, exists, msgs, linked, sruns, saved>>

Slaves == 0..N - 1

Init ==
  /\ mpc = "off" /\ i = 0
  /\ fd = {} /\ sync_bit = {} /\ res_bit = {} /\ answers = {}
  /\ path = "none"
  /\ verdict = "none"
  /\ runs = 0
  /\ spc = [s \in Slaves |-> "off"]
  /\ exists = {}
  /\ msgs = [s \in Slaves |-> 0]
  /\ linked = {}
  /\ sruns = [s \in Slaves |-> 0]
  /\ saved = {}

(* The slave has its pipe open for reading, or waits in open for a writer. *)
Reads(s) == spc[s] \notin {"off", "open"}

Goto(s, l) == spc' = [spc EXCEPT ![s] = l]

-----------------------------------------------------------------------------
(* The master.                                                             *)

MasterStarts ==
  /\ mpc = "off" /\ runs < MaxRuns
  /\ runs' = runs + 1
  /\ mpc' = "unlink"
  /\ i' = 0 /\ sync_bit' = {} /\ res_bit' = {} /\ saved' = {}
  /\ verdict' = "waiting"
  /\ UNCHANGED <<fd, answers, path, spc, exists, msgs, linked, sruns>>

MasterUnlinks ==
  /\ mpc = "unlink"
  /\ path' = "none"
  /\ mpc' = "create"
  /\ UNCHANGED <<i, fd, sync_bit, res_bit, answers, verdict, runs,
                 spc, exists, msgs, linked, sruns, saved>>

\* Mutation: the pipe of an earlier run is used again.
MasterCreatesNone ==
  /\ mpc = "create"
  /\ path' = "live"
  /\ mpc' = "ask"
  /\ spc' = [s \in Slaves |-> IF spc[s] = "late" THEN "read" ELSE spc[s]]
  /\ linked' = linked \cup {s \in Slaves : spc[s] = "late"}
  /\ UNCHANGED <<i, fd, sync_bit, res_bit, answers, verdict, runs,
                 exists, msgs, sruns, saved>>

(* mkfifo and open with O_RDWR, which does not wait.                       *)
MasterCreates ==
  /\ mpc = "create"
  /\ path' = "live"
  /\ mpc' = "ask"
  /\ UNCHANGED <<i, fd, sync_bit, res_bit, answers, verdict, runs,
                 spc, exists, msgs, linked, sruns, saved>>

NextSlave == i' = i + 1 /\ mpc' = IF i + 1 = N THEN "select" ELSE "ask"

(* access says that there is no such pipe.                                 *)
MasterSkips ==
  /\ mpc = "ask"
  /\ i \notin exists
  /\ NextSlave
  /\ UNCHANGED <<fd, sync_bit, res_bit, answers, path, verdict, runs,
                 spc, exists, msgs, linked, sruns, saved>>

(* open with O_WRONLY: a slave that has the pipe open, or waits to, lets   *)
(* it through; without one the master waits in open.                       *)
MasterOpens ==
  /\ mpc = "ask"
  /\ i \in exists
  /\ fd' = fd \cup {i}
  /\ mpc' = IF Reads(i) THEN "write" ELSE "blocked"
  /\ spc' = [spc EXCEPT ![i] = IF @ = "waiting" THEN "asked" ELSE @]
  /\ UNCHANGED <<i, sync_bit, res_bit, answers, path, verdict, runs,
                 exists, msgs, linked, sruns, saved>>

\* Mutation: the bit is set only after a write that succeeds.
MasterWritesChecked ==
  /\ mpc = "write"
  /\ sync_bit' = IF Reads(i) THEN sync_bit \cup {i} ELSE sync_bit
  /\ msgs' = [msgs EXCEPT ![i] = IF Reads(i) THEN @ + 1 ELSE @]
  /\ NextSlave
  /\ UNCHANGED <<fd, res_bit, answers, path, verdict, runs,
                 spc, exists, linked, sruns, saved>>

(* The bit is set whatever write says; a slave that has gone makes it fail *)
(* with SIGPIPE, which the handler ignores.                                *)
MasterWrites ==
  /\ mpc = "write"
  /\ sync_bit' = sync_bit \cup {i}
  /\ msgs' = [msgs EXCEPT ![i] = IF Reads(i) THEN @ + 1 ELSE @]
  /\ NextSlave
  /\ UNCHANGED <<fd, res_bit, answers, path, verdict, runs,
                 spc, exists, linked, sruns, saved>>

(* The master returns: its descriptors are closed, what nobody holds open  *)
(* any more is lost, and the name of its pipe stays behind.                *)
MasterExits(v) ==
  /\ mpc' = "off"
  /\ verdict' = v
  /\ fd' = {} /\ answers' = {} /\ linked' = {}
  /\ path' = "stale"
  /\ msgs' = [s \in Slaves |-> IF Reads(s) THEN msgs[s] ELSE 0]

\* Mutation: one answer is enough.
MasterReadsAny ==
  /\ mpc = "select"
  /\ answers # {}
  /\ res_bit' = res_bit \cup answers
  /\ MasterExits("all")
  /\ UNCHANGED <<i, sync_bit, runs, spc, exists, sruns, saved>>

(* select and read; select does not fail, for no signal has a handler but  *)
(* SIGPIPE, which write raises.                                            *)
MasterReads ==
  /\ mpc = "select"
  /\ answers # {}
  /\ res_bit' = res_bit \cup answers
  /\ IF sync_bit = res_bit'
       THEN MasterExits("all")
       ELSE answers' = {} /\ UNCHANGED <<mpc, fd, path, verdict, msgs, linked>>
  /\ UNCHANGED <<i, sync_bit, runs, spc, exists, sruns, saved>>

\* Mutation: a timeout does not leave the loop.
MasterTimesOutGoesOn ==
  /\ mpc = "select"
  /\ answers = {}
  /\ UNCHANGED vars

MasterTimesOut ==
  /\ mpc = "select"
  /\ answers = {}
  /\ MasterExits("timeout")
  /\ UNCHANGED <<i, sync_bit, res_bit, runs, spc, exists, sruns, saved>>

Master ==
  \/ MasterUnlinks \/ MasterCreates \/ MasterSkips \/ MasterOpens
  \/ MasterWrites \/ MasterReads \/ MasterTimesOut

-----------------------------------------------------------------------------
(* A slave.                                                                *)

(* mkfifo, which may find the pipe of an earlier run.                      *)
SlaveStarts(s) ==
  /\ spc[s] = "off" /\ sruns[s] < MaxSlaveRuns
  /\ sruns' = [sruns EXCEPT ![s] = @ + 1]
  /\ exists' = exists \cup {s}
  /\ Goto(s, "open")
  /\ UNCHANGED <<master, answers, msgs, linked, saved>>

(* open with O_RDONLY, which waits for the master; a master that waits to  *)
(* open the pipe, or has it open, lets the slave through.                  *)
SlaveOpens(s) ==
  /\ spc[s] = "open"
  /\ Goto(s, IF s \in fd THEN "asked" ELSE "waiting")
  /\ mpc' = IF mpc = "blocked" /\ i = s THEN "write" ELSE mpc
  /\ UNCHANGED <<i, fd, sync_bit, res_bit, answers, path, verdict, runs,
                 exists, msgs, linked, sruns, saved>>

(* open of the master's pipe with O_WRONLY, after the sleep: it fails when *)
(* there is no such name, and waits for ever on a pipe nobody will read.   *)
SlaveOpensMaster(s) ==
  /\ spc[s] = "asked"
  /\ Goto(s, IF path = "stale" THEN "late" ELSE "read")
  /\ linked' = IF path = "live" THEN linked \cup {s} ELSE linked
  /\ UNCHANGED <<master, answers, exists, msgs, sruns, saved>>

(* read waits for a message as long as the master has the pipe open, and   *)
(* returns 0 once it has not.                                              *)
SlaveReads(s) ==
  /\ spc[s] = "read"
  /\ msgs[s] > 0
  /\ msgs' = [msgs EXCEPT ![s] = @ - 1]
  /\ saved' = saved \cup {s}
  /\ Goto(s, "reply")
  /\ UNCHANGED <<master, answers, exists, linked, sruns>>

\* Mutation: the slave reads until there is something.
SlaveReadsNothingRetries(s) ==
  /\ spc[s] = "read"
  /\ msgs[s] = 0 /\ s \notin fd
  /\ UNCHANGED vars

SlaveReadsNothing(s) ==
  /\ spc[s] = "read"
  /\ msgs[s] = 0 /\ s \notin fd
  /\ Goto(s, "close")
  /\ UNCHANGED <<master, answers, exists, msgs, linked, sruns, saved>>

(* write of the slave's index; nobody gets it when master_fd is -1 or the  *)
(* master has gone (then SIGPIPE ends the slave).                          *)
SlaveReplies(s) ==
  /\ spc[s] = "reply"
  /\ answers' = IF s \in linked THEN answers \cup {s} ELSE answers
  /\ Goto(s, "close")
  /\ UNCHANGED <<master, exists, msgs, linked, sruns, saved>>

(* The slave's process ends: at its return, or anywhere.                   *)
Gone(s) ==
  /\ Goto(s, "off")
  /\ linked' = linked \ {s}
  /\ msgs' = [msgs EXCEPT ![s] = IF s \in fd THEN @ ELSE 0]
  /\ UNCHANGED <<master, answers, exists, sruns, saved>>

SlaveExits(s) == spc[s] = "close" /\ Gone(s)

SlaveDies(s) == spc[s] \notin {"off", "close"} /\ Gone(s)

Slave(s) ==
  \/ SlaveOpens(s) \/ SlaveOpensMaster(s) \/ SlaveReads(s)
  \/ SlaveReadsNothing(s) \/ SlaveReplies(s) \/ SlaveExits(s)

Next ==
  \/ MasterStarts
  \/ Master
  \/ \E s \in Slaves : SlaveStarts(s) \/ Slave(s) \/ SlaveDies(s)

(* A process that can go on does, and select does not wait for ever; that  *)
(* anything is started, or dies, is not assumed.                           *)
Spec ==
  /\ Init /\ [][Next]_vars
  /\ WF_vars(Master)
  /\ \A s \in Slaves : WF_vars(Slave(s))

-----------------------------------------------------------------------------
(* Properties.                                                             *)

TypeOK ==
  /\ mpc \in {"off", "unlink", "create", "ask", "blocked", "write", "select"}
  /\ i \in 0..N
  /\ mpc \in {"ask", "blocked", "write"} => i \in Slaves
  /\ fd \subseteq Slaves
  /\ sync_bit \subseteq Slaves /\ res_bit \subseteq Slaves
  /\ answers \subseteq Slaves
  /\ path \in {"none", "live", "stale"}
  /\ verdict \in {"none", "waiting", "all", "timeout"}
  /\ runs \in 0..MaxRuns
  /\ spc \in [Slaves -> {"off", "open", "waiting", "asked", "late", "read",
                         "reply", "close"}]
  /\ exists \subseteq Slaves
  /\ msgs \in [Slaves -> Nat]
  /\ linked \subseteq Slaves
  /\ sruns \in [Slaves -> 0..MaxSlaveRuns]
  /\ saved \subseteq Slaves

(* Whoever the master counts as answered has saved since this run of the   *)
(* master began: an answer to the message of an earlier run that arrives   *)
(* late is still an answer of a slave that has just saved.                 *)
AnswersAreSaved == res_bit \cup answers \subseteq saved

(* Once every slave has been asked, only slaves that were asked answer; an *)
(* answer outside sync_bit would keep the two from ever being equal.       *)
AnswersWereAsked == mpc = "select" => res_bit \cup answers \subseteq sync_bit

Blocked(s) == mpc = "blocked" /\ i = s

Late(s) == spc[s] = "late"

(* The master ends, or it waits in open for a slave that has left its pipe *)
(* behind: no timeout covers that wait.                                    *)
MasterEnds == mpc # "off" ~> (mpc = "off" \/ \E s \in Slaves : Blocked(s))

(* A slave that was asked ends, or it came to open the master's pipe after *)
(* the master had given up and waits there, or it waits for a message of a *)
(* master that waits for another slave.                                    *)
SlaveEnds ==
  \A s \in Slaves :
    spc[s] = "asked" ~> (spc[s] = "off" \/ Late(s) \/ \E t \in Slaves : Blocked(t))

(* Neither wait ends by itself: only a new run of the slave lets a blocked *)
(* master go on, and nothing but its death ends a late slave's, not even a *)
(* new run of the master, which makes a pipe of its own.                   *)
WaitsForEver ==
  [][\A s \in Slaves :
       /\ Blocked(s) /\ ~Blocked(s)' => SlaveOpens(s)
       /\ Late(s) /\ ~Late(s)' => SlaveDies(s)]_vars

Barrier == INSTANCE RebootSync WITH Participants <- Slaves, asked <- sync_bit

(* The master implements the barrier: it reports that all have answered    *)
(* only when all it has asked have saved since it started.                 *)
ImplementsBarrier == Barrier!Spec

=============================================================================
