--------------------------- MODULE FifoSync_proofs ---------------------------
(***************************************************************************)
(* Proofs about FifoSync, for any number of slaves and of runs.            *)
(***************************************************************************)
EXTENDS FifoSync, TLAPS

Listening == mpc \in {"ask", "blocked", "write", "select"}

(* Who has a process, a descriptor or an answer has a pipe.                *)
Known ==
  /\ \A s \in Slaves : spc[s] # "off" => s \in exists
  /\ fd \cup linked \cup answers \cup res_bit \subseteq exists

(* The master's pipe is live while the master listens, and nothing comes   *)
(* through it at any other time.                                           *)
LiveInv ==
  /\ path = "live" <=> Listening
  /\ ~Listening => linked = {} /\ answers = {}
  /\ mpc \in {"unlink", "create"} => i = 0
  /\ mpc = "select" => i = N
  /\ verdict = "waiting" <=> mpc # "off"

(* A slave whose answer can reach the master has saved.                    *)
ReplyInv == \A s \in Slaves : spc[s] = "reply" /\ s \in linked => s \in saved

(* A slave that the master passed over cannot answer in this run.          *)
PassedInv ==
  Listening =>
    \A s \in Slaves : s < i /\ s \notin sync_bit =>
      /\ s \notin fd \cup linked \cup answers \cup res_bit
      /\ spc[s] \in {"off", "open", "waiting"}

IInv == TypeOK /\ Known /\ LiveInv /\ ReplyInv /\ AnswersAreSaved /\ PassedInv

\* A run of the master begins with nothing asked and nothing answered.
LEMMA MasterStartsInv ==
  ASSUME IInv, MasterStarts
  PROVE  IInv'
<1> USE FifoAssumption DEF IInv, Slaves
<1>1. TypeOK'
  BY SMTT(30) DEF TypeOK, MasterStarts, LiveInv, Listening
<1>2. Known'
  BY DEF TypeOK, Known, MasterStarts
<1>3. LiveInv'
  BY DEF TypeOK, LiveInv, Listening, MasterStarts
<1>4. ReplyInv'
  BY DEF TypeOK, ReplyInv, LiveInv, Listening, MasterStarts
<1>5. AnswersAreSaved'
  BY DEF TypeOK, AnswersAreSaved, ReplyInv, LiveInv, Listening, MasterStarts
<1>6. PassedInv'
  BY DEF TypeOK, PassedInv, Known, LiveInv, Listening, MasterStarts
<1> QED
  BY <1>1, <1>2, <1>3, <1>4, <1>5, <1>6

\* The name of the old pipe goes.
LEMMA MasterUnlinksInv ==
  ASSUME IInv, MasterUnlinks
  PROVE  IInv'
<1> USE FifoAssumption DEF IInv, Slaves
<1>1. TypeOK'
  BY DEF TypeOK, MasterUnlinks, LiveInv, Listening
<1>2. Known'
  BY DEF TypeOK, Known, MasterUnlinks
<1>3. LiveInv'
  BY DEF TypeOK, LiveInv, Listening, MasterUnlinks
<1>4. ReplyInv'
  BY DEF TypeOK, ReplyInv, LiveInv, Listening, MasterUnlinks
<1>5. AnswersAreSaved'
  BY DEF TypeOK, AnswersAreSaved, ReplyInv, LiveInv, Listening, MasterUnlinks
<1>6. PassedInv'
  BY DEF TypeOK, PassedInv, Known, LiveInv, Listening, MasterUnlinks
<1> QED
  BY <1>1, <1>2, <1>3, <1>4, <1>5, <1>6

\* The new pipe has no writers yet.
LEMMA MasterCreatesInv ==
  ASSUME IInv, MasterCreates
  PROVE  IInv'
<1> USE FifoAssumption DEF IInv, Slaves
<1>1. TypeOK'
  <2>1. i = 0 /\ 0 \in 0..N - 1
    BY DEF MasterCreates, LiveInv
  <2> QED
    BY <2>1 DEF TypeOK, MasterCreates
<1>2. Known'
  BY DEF TypeOK, Known, MasterCreates
<1>3. LiveInv'
  BY DEF TypeOK, LiveInv, Listening, MasterCreates
<1>4. ReplyInv'
  BY DEF TypeOK, ReplyInv, LiveInv, Listening, MasterCreates
<1>5. AnswersAreSaved'
  BY DEF TypeOK, AnswersAreSaved, ReplyInv, LiveInv, Listening, MasterCreates
<1>6. PassedInv'
  BY DEF TypeOK, PassedInv, Known, LiveInv, Listening, MasterCreates
<1> QED
  BY <1>1, <1>2, <1>3, <1>4, <1>5, <1>6

\* A slave without a pipe is not there to answer.
LEMMA MasterSkipsInv ==
  ASSUME IInv, MasterSkips
  PROVE  IInv'
<1> USE FifoAssumption DEF IInv, Slaves
<1>1. TypeOK'
  <2>1. i \in 0..N - 1
    BY DEF TypeOK, MasterSkips
  <2>2. i + 1 \in 0..N /\ (i + 1 # N => i + 1 \in 0..N - 1)
    BY <2>1
  <2>3. /\ i' \in 0..N
        /\ mpc' \in {"ask", "select"}
        /\ mpc' \in {"ask", "blocked", "write"} => i' \in 0..N - 1
    BY <2>2 DEF MasterSkips, NextSlave
  <2> QED
    BY <2>3 DEF TypeOK, MasterSkips
<1>2. Known'
  BY DEF TypeOK, Known, MasterSkips, NextSlave
<1>3. LiveInv'
  BY DEF TypeOK, LiveInv, Listening, MasterSkips, NextSlave
<1>4. ReplyInv'
  BY DEF TypeOK, ReplyInv, LiveInv, Listening, MasterSkips, NextSlave
<1>5. AnswersAreSaved'
  BY DEF TypeOK, AnswersAreSaved, ReplyInv, LiveInv, Listening, MasterSkips, NextSlave
<1>6. PassedInv'
  BY DEF TypeOK, PassedInv, Known, LiveInv, Listening, MasterSkips, NextSlave
<1> QED
  BY <1>1, <1>2, <1>3, <1>4, <1>5, <1>6

\* Opening lets a slave that waits through.
LEMMA MasterOpensInv ==
  ASSUME IInv, MasterOpens
  PROVE  IInv'
<1> USE FifoAssumption DEF IInv, Slaves
<1>1. TypeOK'
  BY DEF TypeOK, MasterOpens, Reads, LiveInv, Listening
<1>2. Known'
  BY DEF TypeOK, Known, MasterOpens, Reads
<1>3. LiveInv'
  BY DEF TypeOK, LiveInv, Listening, MasterOpens, Reads
<1>4. ReplyInv'
  BY DEF TypeOK, ReplyInv, LiveInv, Listening, MasterOpens, Reads
<1>5. AnswersAreSaved'
  BY DEF TypeOK, AnswersAreSaved, ReplyInv, LiveInv, Listening, MasterOpens, Reads
<1>6. PassedInv'
  BY DEF TypeOK, PassedInv, Known, LiveInv, Listening, MasterOpens, Reads
<1> QED
  BY <1>1, <1>2, <1>3, <1>4, <1>5, <1>6

\* The slave is counted as asked.
LEMMA MasterWritesInv ==
  ASSUME IInv, MasterWrites
  PROVE  IInv'
<1> USE FifoAssumption DEF IInv, Slaves
<1>1. TypeOK'
  <2>1. i \in 0..N - 1
    BY DEF TypeOK, MasterWrites
  <2>2. i + 1 \in 0..N /\ (i + 1 # N => i + 1 \in 0..N - 1)
    BY <2>1
  <2>3. /\ i' \in 0..N
        /\ mpc' \in {"ask", "select"}
        /\ mpc' \in {"ask", "blocked", "write"} => i' \in 0..N - 1
    BY <2>2 DEF MasterWrites, NextSlave
  <2>4. msgs' \in [Slaves -> Nat]
    <3>1. msgs[i] \in Nat /\ msgs[i] + 1 \in Nat
      BY <2>1 DEF TypeOK
    <3> QED
      BY <2>1, <3>1 DEF TypeOK, MasterWrites
  <2>5. sync_bit' \subseteq Slaves
    BY <2>1 DEF TypeOK, MasterWrites
  <2> QED
    BY <2>3, <2>4, <2>5 DEF TypeOK, MasterWrites
<1>2. Known'
  BY DEF TypeOK, Known, MasterWrites, NextSlave, Reads
<1>3. LiveInv'
  BY DEF TypeOK, LiveInv, Listening, MasterWrites, NextSlave, Reads
<1>4. ReplyInv'
  BY DEF TypeOK, ReplyInv, LiveInv, Listening, MasterWrites, NextSlave, Reads
<1>5. AnswersAreSaved'
  BY DEF TypeOK, AnswersAreSaved, ReplyInv, LiveInv, Listening, MasterWrites, NextSlave, Reads
<1>6. PassedInv'
  BY DEF TypeOK, PassedInv, Known, LiveInv, Listening, MasterWrites, NextSlave, Reads
<1> QED
  BY <1>1, <1>2, <1>3, <1>4, <1>5, <1>6

\* The answers read are those of slaves that have saved.
LEMMA MasterReadsInv ==
  ASSUME IInv, MasterReads
  PROVE  IInv'
<1> USE FifoAssumption DEF IInv, Slaves
<1>1. TypeOK'
  <2>1. CASE sync_bit = res_bit'
    <3>1. msgs' \in [Slaves -> Nat]
      <4>1. msgs' = [s \in Slaves |-> IF Reads(s) THEN msgs[s] ELSE 0]
        BY <2>1 DEF MasterReads, MasterExits
      <4>2. \A s \in Slaves : msgs[s] \in Nat
        BY DEF TypeOK
      <4> QED
        BY <4>1, <4>2
    <3>2. /\ mpc' = "off" /\ fd' = {} /\ answers' = {} /\ linked' = {}
          /\ path' = "stale" /\ verdict' = "all"
          /\ res_bit' = res_bit \cup answers
      BY <2>1 DEF MasterReads, MasterExits
    <3> QED
      BY <3>1, <3>2 DEF TypeOK, MasterReads
  <2>2. CASE sync_bit # res_bit'
    BY <2>2 DEF TypeOK, MasterReads
  <2> QED
    BY <2>1, <2>2
<1>2. Known'
  BY DEF TypeOK, Known, MasterReads, MasterExits
<1>3. LiveInv'
  BY DEF TypeOK, LiveInv, Listening, MasterReads, MasterExits
<1>4. ReplyInv'
  BY DEF TypeOK, ReplyInv, LiveInv, Listening, MasterReads, MasterExits
<1>5. AnswersAreSaved'
  BY DEF TypeOK, AnswersAreSaved, ReplyInv, LiveInv, Listening, MasterReads, MasterExits
<1>6. PassedInv'
  BY DEF TypeOK, PassedInv, Known, LiveInv, Listening, MasterReads, MasterExits
<1> QED
  BY <1>1, <1>2, <1>3, <1>4, <1>5, <1>6

\* Giving up closes everything.
LEMMA MasterTimesOutInv ==
  ASSUME IInv, MasterTimesOut
  PROVE  IInv'
<1> USE FifoAssumption DEF IInv, Slaves
<1>1. TypeOK'
  BY DEF TypeOK, MasterTimesOut, MasterExits, LiveInv, Listening
<1>2. Known'
  BY DEF TypeOK, Known, MasterTimesOut, MasterExits
<1>3. LiveInv'
  BY DEF TypeOK, LiveInv, Listening, MasterTimesOut, MasterExits
<1>4. ReplyInv'
  BY DEF TypeOK, ReplyInv, LiveInv, Listening, MasterTimesOut, MasterExits
<1>5. AnswersAreSaved'
  BY DEF TypeOK, AnswersAreSaved, ReplyInv, LiveInv, Listening, MasterTimesOut, MasterExits
<1>6. PassedInv'
  BY DEF TypeOK, PassedInv, Known, LiveInv, Listening, MasterTimesOut, MasterExits
<1> QED
  BY <1>1, <1>2, <1>3, <1>4, <1>5, <1>6

\* A slave that starts has a pipe.
LEMMA SlaveStartsInv ==
  ASSUME IInv, NEW s \in Slaves, SlaveStarts(s)
  PROVE  IInv'
<1> USE FifoAssumption DEF IInv, Slaves
<1>1. TypeOK'
  <2>1. sruns[s] + 1 \in 0..MaxSlaveRuns
    BY DEF TypeOK, SlaveStarts
  <2>2. sruns' \in [Slaves -> 0..MaxSlaveRuns]
    BY <2>1 DEF TypeOK, SlaveStarts
  <2> QED
    BY <2>2 DEF TypeOK, SlaveStarts, Goto, master
<1>2. Known'
  BY DEF TypeOK, Known, SlaveStarts, Goto, master
<1>3. LiveInv'
  BY DEF TypeOK, LiveInv, Listening, SlaveStarts, Goto, master
<1>4. ReplyInv'
  BY DEF TypeOK, ReplyInv, LiveInv, Listening, SlaveStarts, Goto, master
<1>5. AnswersAreSaved'
  BY DEF TypeOK, AnswersAreSaved, ReplyInv, LiveInv, Listening, SlaveStarts, Goto, master
<1>6. PassedInv'
  BY DEF TypeOK, PassedInv, Known, LiveInv, Listening, SlaveStarts, Goto, master
<1> QED
  BY <1>1, <1>2, <1>3, <1>4, <1>5, <1>6

\* A slave lets the master through that waits for it.
LEMMA SlaveOpensInv ==
  ASSUME IInv, NEW s \in Slaves, SlaveOpens(s)
  PROVE  IInv'
<1> USE FifoAssumption DEF IInv, Slaves
<1>1. TypeOK'
  BY DEF TypeOK, SlaveOpens, Goto, master
<1>2. Known'
  BY DEF TypeOK, Known, SlaveOpens, Goto, master
<1>3. LiveInv'
  BY DEF TypeOK, LiveInv, Listening, SlaveOpens, Goto, master
<1>4. ReplyInv'
  BY DEF TypeOK, ReplyInv, LiveInv, Listening, SlaveOpens, Goto, master
<1>5. AnswersAreSaved'
  BY DEF TypeOK, AnswersAreSaved, ReplyInv, LiveInv, Listening, SlaveOpens, Goto, master
<1>6. PassedInv'
  BY DEF TypeOK, PassedInv, Known, LiveInv, Listening, SlaveOpens, Goto, master
<1> QED
  BY <1>1, <1>2, <1>3, <1>4, <1>5, <1>6

\* Only the pipe of a master that listens is linked.
LEMMA SlaveOpensMasterInv ==
  ASSUME IInv, NEW s \in Slaves, SlaveOpensMaster(s)
  PROVE  IInv'
<1> USE FifoAssumption DEF IInv, Slaves
<1>1. TypeOK'
  BY DEF TypeOK, SlaveOpensMaster, Goto, master
<1>2. Known'
  BY DEF TypeOK, Known, SlaveOpensMaster, Goto, master
<1>3. LiveInv'
  BY DEF TypeOK, LiveInv, Listening, SlaveOpensMaster, Goto, master
<1>4. ReplyInv'
  BY DEF TypeOK, ReplyInv, LiveInv, Listening, SlaveOpensMaster, Goto, master
<1>5. AnswersAreSaved'
  BY DEF TypeOK, AnswersAreSaved, ReplyInv, LiveInv, Listening, SlaveOpensMaster, Goto, master
<1>6. PassedInv'
  BY DEF TypeOK, PassedInv, Known, LiveInv, Listening, SlaveOpensMaster, Goto, master
<1> QED
  BY <1>1, <1>2, <1>3, <1>4, <1>5, <1>6

\* A slave that got a message has saved.
LEMMA SlaveReadsInv ==
  ASSUME IInv, NEW s \in Slaves, SlaveReads(s)
  PROVE  IInv'
<1> USE FifoAssumption DEF IInv, Slaves
<1>1. TypeOK'
  <2>1. msgs[s] - 1 \in Nat
    BY DEF TypeOK, SlaveReads
  <2>2. msgs' \in [Slaves -> Nat]
    BY <2>1 DEF TypeOK, SlaveReads
  <2> QED
    BY <2>2 DEF TypeOK, SlaveReads, Goto, master
<1>2. Known'
  BY DEF TypeOK, Known, SlaveReads, Goto, master
<1>3. LiveInv'
  BY DEF TypeOK, LiveInv, Listening, SlaveReads, Goto, master
<1>4. ReplyInv'
  BY DEF TypeOK, ReplyInv, LiveInv, Listening, SlaveReads, Goto, master
<1>5. AnswersAreSaved'
  BY DEF TypeOK, AnswersAreSaved, ReplyInv, LiveInv, Listening, SlaveReads, Goto, master
<1>6. PassedInv'
  BY DEF TypeOK, PassedInv, Known, LiveInv, Listening, SlaveReads, Goto, master
<1> QED
  BY <1>1, <1>2, <1>3, <1>4, <1>5, <1>6

\* A slave without a message does not answer.
LEMMA SlaveReadsNothingInv ==
  ASSUME IInv, NEW s \in Slaves, SlaveReadsNothing(s)
  PROVE  IInv'
<1> USE FifoAssumption DEF IInv, Slaves
<1>1. TypeOK'
  BY DEF TypeOK, SlaveReadsNothing, Goto, master
<1>2. Known'
  BY DEF TypeOK, Known, SlaveReadsNothing, Goto, master
<1>3. LiveInv'
  BY DEF TypeOK, LiveInv, Listening, SlaveReadsNothing, Goto, master
<1>4. ReplyInv'
  BY DEF TypeOK, ReplyInv, LiveInv, Listening, SlaveReadsNothing, Goto, master
<1>5. AnswersAreSaved'
  BY DEF TypeOK, AnswersAreSaved, ReplyInv, LiveInv, Listening, SlaveReadsNothing, Goto, master
<1>6. PassedInv'
  BY DEF TypeOK, PassedInv, Known, LiveInv, Listening, SlaveReadsNothing, Goto, master
<1> QED
  BY <1>1, <1>2, <1>3, <1>4, <1>5, <1>6

\* An answer comes from a slave that has saved.
LEMMA SlaveRepliesInv ==
  ASSUME IInv, NEW s \in Slaves, SlaveReplies(s)
  PROVE  IInv'
<1> USE FifoAssumption DEF IInv, Slaves
<1>1. TypeOK'
  BY DEF TypeOK, SlaveReplies, Goto, master
<1>2. Known'
  BY DEF TypeOK, Known, SlaveReplies, Goto, master
<1>3. LiveInv'
  BY DEF TypeOK, LiveInv, Listening, SlaveReplies, Goto, master
<1>4. ReplyInv'
  BY DEF TypeOK, ReplyInv, LiveInv, Listening, SlaveReplies, Goto, master
<1>5. AnswersAreSaved'
  BY DEF TypeOK, AnswersAreSaved, ReplyInv, LiveInv, Listening, SlaveReplies, Goto, master
<1>6. PassedInv'
  BY DEF TypeOK, PassedInv, Known, LiveInv, Listening, SlaveReplies, Goto, master
<1> QED
  BY <1>1, <1>2, <1>3, <1>4, <1>5, <1>6

\* A slave that has gone cannot answer.
LEMMA GoneInv ==
  ASSUME IInv, NEW s \in Slaves, Gone(s)
  PROVE  IInv'
<1> USE FifoAssumption DEF IInv, Slaves
<1>1. TypeOK'
  BY DEF TypeOK, Gone, Goto, master
<1>2. Known'
  BY DEF TypeOK, Known, Gone, Goto, master
<1>3. LiveInv'
  BY DEF TypeOK, LiveInv, Listening, Gone, Goto, master
<1>4. ReplyInv'
  BY DEF TypeOK, ReplyInv, LiveInv, Listening, Gone, Goto, master
<1>5. AnswersAreSaved'
  BY DEF TypeOK, AnswersAreSaved, ReplyInv, LiveInv, Listening, Gone, Goto, master
<1>6. PassedInv'
  BY DEF TypeOK, PassedInv, Known, LiveInv, Listening, Gone, Goto, master
<1> QED
  BY <1>1, <1>2, <1>3, <1>4, <1>5, <1>6

\* The invariant holds at the start.
LEMMA InitInv == Init => IInv
BY FifoAssumption DEF Init, IInv, TypeOK, Known, LiveInv, Listening, ReplyInv,
                      AnswersAreSaved, PassedInv, Slaves

\* A step that changes nothing keeps the invariant.
LEMMA StutterInv == ASSUME IInv, UNCHANGED vars PROVE IInv'
BY DEF vars, IInv, TypeOK, Known, LiveInv, Listening, ReplyInv, AnswersAreSaved,
       PassedInv, Slaves

\* Every step keeps the invariant.
LEMMA NextInv == IInv /\ [Next]_vars => IInv'
<1> SUFFICES ASSUME IInv, [Next]_vars PROVE IInv'
  OBVIOUS
<1>1. CASE MasterStarts
  BY <1>1, MasterStartsInv
<1>2. CASE Master
  BY <1>2, MasterUnlinksInv, MasterCreatesInv, MasterSkipsInv, MasterOpensInv,
     MasterWritesInv, MasterReadsInv, MasterTimesOutInv DEF Master
<1>3. ASSUME NEW s \in Slaves, SlaveStarts(s) \/ Slave(s) \/ SlaveDies(s)
      PROVE  IInv'
  BY <1>3, SlaveStartsInv, SlaveOpensInv, SlaveOpensMasterInv, SlaveReadsInv,
     SlaveReadsNothingInv, SlaveRepliesInv, GoneInv DEF Slave, SlaveExits, SlaveDies
<1>4. CASE UNCHANGED vars
  BY <1>4, StutterInv
<1> QED
  BY <1>1, <1>2, <1>3, <1>4 DEF Next

\* The invariant holds throughout.
LEMMA Invariant == Spec => []IInv
BY InitInv, NextInv, PTL DEF Spec

\* Types, answers only of slaves that have saved, and answers only of slaves
\* that were asked, for any number of slaves, of runs and of deaths.
THEOREM AnswersAreGood == Spec => [](TypeOK /\ AnswersAreSaved /\ AnswersWereAsked)
<1>1. IInv => TypeOK /\ AnswersAreSaved /\ AnswersWereAsked
  <2> SUFFICES ASSUME IInv, mpc = "select", NEW s \in res_bit \cup answers
               PROVE  s \in sync_bit
    BY DEF IInv, AnswersWereAsked
  <2>1. s \in 0..N - 1 /\ s < i /\ Listening
    BY FifoAssumption DEF IInv, TypeOK, Slaves, LiveInv, Listening
  <2> QED
    BY <2>1 DEF IInv, PassedInv, Slaves
<1> QED
  BY <1>1, Invariant, PTL

\* The two waits no timeout covers: a master in open leaves it only through
\* a new run of the slave, a late slave only by dying.
THEOREM WaitsAreForEver == Spec => WaitsForEver
<1>1. IInv /\ [Next]_vars =>
        [\A s \in Slaves :
           /\ Blocked(s) /\ ~Blocked(s)' => SlaveOpens(s)
           /\ Late(s) /\ ~Late(s)' => SlaveDies(s)]_vars
  <2> SUFFICES ASSUME IInv, Next, NEW s \in Slaves
               PROVE  /\ Blocked(s) /\ ~Blocked(s)' => SlaveOpens(s)
                      /\ Late(s) /\ ~Late(s)' => SlaveDies(s)
    OBVIOUS
  <2> USE DEF Blocked, Late
  <2>1. CASE MasterStarts
    BY <2>1 DEF MasterStarts
  <2>2. CASE Master
    <3>1. ASSUME MasterOpens PROVE spc[s] = "late" => spc'[s] = "late"
      BY <3>1 DEF MasterOpens, IInv, TypeOK
    <3> QED
      BY <2>2, <3>1 DEF Master, MasterUnlinks, MasterCreates, MasterSkips, MasterOpens,
         MasterWrites, MasterReads, MasterTimesOut, MasterExits, NextSlave
  <2>3. ASSUME NEW t \in Slaves, SlaveStarts(t) \/ Slave(t) \/ SlaveDies(t)
        PROVE  /\ Blocked(s) /\ ~Blocked(s)' => SlaveOpens(s)
               /\ Late(s) /\ ~Late(s)' => SlaveDies(s)
    <3>1. Blocked(s) /\ ~Blocked(s)' => SlaveOpens(s)
      BY <2>3 DEF SlaveStarts, Slave, SlaveOpens, SlaveOpensMaster, SlaveReads,
         SlaveReadsNothing, SlaveReplies, SlaveExits, SlaveDies, Gone, master
    <3>2. Late(s) /\ ~Late(s)' => t = s
      BY <2>3 DEF SlaveStarts, Slave, SlaveOpens, SlaveOpensMaster, SlaveReads,
         SlaveReadsNothing, SlaveReplies, SlaveExits, SlaveDies, Gone, Goto, IInv, TypeOK
    <3>3. Late(s) /\ t = s => SlaveDies(s)
      BY <2>3 DEF SlaveStarts, Slave, SlaveOpens, SlaveOpensMaster, SlaveReads,
         SlaveReadsNothing, SlaveReplies, SlaveExits
    <3> QED
      BY <3>1, <3>2, <3>3
  <2> QED
    BY <2>1, <2>2, <2>3 DEF Next
<1> QED
  BY <1>1, Invariant, PTL DEF Spec, WaitsForEver

\* The detailed protocol implements the barrier, so that "all response has
\* been received" is said only when every slave that was asked has saved.
THEOREM FifoImplementsBarrier == Spec => ImplementsBarrier
<1>1. Init => Barrier!Init
  BY DEF Init, Barrier!Init
<1>2. IInv /\ [Next]_vars => [Barrier!Next]_<<sync_bit, saved, verdict>>
  <2> SUFFICES ASSUME IInv, [Next]_vars
               PROVE  Barrier!Next \/ UNCHANGED <<sync_bit, saved, verdict>>
    OBVIOUS
  <2>1. CASE MasterStarts
    BY <2>1 DEF MasterStarts, IInv, LiveInv, TypeOK, Barrier!Next, Barrier!Start
  <2>2. CASE MasterWrites
    <3>1. i \in Slaves /\ verdict = "waiting"
      BY <2>2 DEF MasterWrites, IInv, TypeOK, LiveInv
    <3>2. Barrier!Ask(i)
      BY <2>2, <3>1 DEF MasterWrites, Barrier!Ask
    <3> QED
      BY <3>1, <3>2 DEF Barrier!Next
  <2>3. CASE MasterReads /\ sync_bit = res_bit'
    <3>1. verdict = "waiting" /\ verdict' = "all" /\ UNCHANGED <<sync_bit, saved>>
      BY <2>3 DEF MasterReads, MasterExits, IInv, LiveInv
    <3>2. sync_bit # {} /\ sync_bit \subseteq saved
      BY <2>3 DEF MasterReads, IInv, AnswersAreSaved
    <3> QED
      BY <3>1, <3>2 DEF Barrier!Next, Barrier!AllSaved
  <2>4. CASE MasterTimesOut
    BY <2>4 DEF MasterTimesOut, MasterExits, IInv, LiveInv, Barrier!Next, Barrier!GiveUp
  <2>5. ASSUME NEW s \in Slaves, SlaveReads(s)
        PROVE  Barrier!Next
    <3>1. Barrier!Save(s)
      BY <2>5 DEF SlaveReads, Barrier!Save, master
    <3> QED
      BY <3>1 DEF Barrier!Next
  <2>6. CASE UNCHANGED <<sync_bit, saved, verdict>>
    BY <2>6
  <2> QED
    BY <2>1, <2>2, <2>3, <2>4, <2>5, <2>6
       DEF Next, Master, MasterUnlinks, MasterCreates, MasterSkips, MasterOpens, MasterReads,
           Slave, SlaveStarts, SlaveOpens, SlaveOpensMaster, SlaveReadsNothing, SlaveReplies,
           SlaveExits, SlaveDies, Gone, master, vars
<1> QED
  BY <1>1, <1>2, Invariant, PTL DEF Spec, ImplementsBarrier, Barrier!Spec

=============================================================================
