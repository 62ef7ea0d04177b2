-------------------------- MODULE DcaTasks_proofs ---------------------------
(***************************************************************************)
(* Proofs about DcaTasks, for any set of access points, any number of      *)
(* events and any size of the pipes: the node list is stable during a      *)
(* calculation, and no command to start is thrown away.                    *)
(***************************************************************************)
EXTENDS DcaTasks, SequenceTheorems, TLAPS

-----------------------------------------------------------------------------
(* The mutex.                                                              *)

\* calc exists once ACP has booted, and the head never has the mode for which
\* the scan loop leaves a calculation without CALC_RESTART.
MutexInv ==
  /\ MutexDiscipline
  /\ headMode # "invalid"
  /\ calcPc = "unborn" <=> acpPc \in {"boot", "created"}

\* The tasks outside and ACP keep the discipline.
LEMMA AcpMutexInv ==
  ASSUME "invalid" \notin ConfigModes, MutexInv, Outside \/ AcpStep
  PROVE  MutexInv'
<1>. USE DEF MutexInv, MutexDiscipline, Calculating
<1>1. CASE Outside
  <2>1. UNCHANGED <<acp, head, mutexes, calc>>
    <3>1. UNCHANGED acp /\ UNCHANGED head /\ UNCHANGED mutexes /\ UNCHANGED calc
      BY <1>1 DEF Outside, AddPeer, DelPeer, ChangeState, PeerEvent, sendStartCalcCmd, ScanEnds
    <3>. QED
      BY <3>1
  <2>. QED
    BY <2>1 DEF acp, head, mutexes, calc
<1>2. CASE CopyPeers \/ SpawnCalc
  BY <1>2 DEF CopyPeers, SpawnCalc, head, mutexes, calc
<1>3. CASE BootTimeout \/ AssignTimeout \/ IdleTimeout
  BY <1>3 DEF BootTimeout, AssignTimeout, IdleTimeout, vars, acp, head, mutexes, calc
<1>4. CASE StopCalc \/ ReadNews
  BY <1>4 DEF StopCalc, ReadNews, head, mutexes, calc
<1>5. CASE AddNode \/ DelNode \/ NodeOperational
  BY <1>5 DEF AddNode, DelNode, NodeOperational, updateSPInfo, mutexes, calc
<1>6. CASE StartByGui \/ WriteStart
  BY <1>6 DEF StartByGui, WriteStart, HeadFree, head, calc
<1>. QED
  BY <1>1, <1>2, <1>3, <1>4, <1>5, <1>6 DEF AcpStep

\* So does calc: Lock takes the mutex, Restart gives it back, and every way
\* out of a calculation leads there.
LEMMA CalcMutexInv ==
  ASSUME MutexInv, CalcStep
  PROVE  MutexInv'
<1>. USE DEF MutexInv, MutexDiscipline, Calculating, ByCalc, acp
<1>1. CASE Idle \/ CheckPipe
  BY <1>1 DEF Idle, CheckPipe, mutexes
<1>2. CASE Prepare \/ ResetPower \/ Lock
  BY <1>2 DEF Prepare, ResetPower, Lock, HeadFree, mutexes
<1>3. CASE updateSPRelatedInfo \/ VisitNode
  BY <1>3 DEF updateSPRelatedInfo, VisitNode, mutexes
<1>4. CASE WaitSspp \/ SsppTimeout \/ AwaitScan
  BY <1>4 DEF WaitSspp, SsppTimeout, AwaitScan, NextNode, mutexes
<1>5. CASE RequestScan
  BY <1>5 DEF RequestScan, Request, NextNode, mutexes
<1>6. CASE SearchThreshold \/ SetChannel
  BY <1>6 DEF SearchThreshold, SetChannel, mutexes
<1>7. CASE Restart
  BY <1>7 DEF Restart
<1>8. CASE CheckAP
  BY <1>8 DEF CheckAP, mutexes
<1>. QED
  BY <1>1, <1>2, <1>3, <1>4, <1>5, <1>6, <1>7, <1>8 DEF CalcStep

\* The discipline of the mutex holds throughout.
LEMMA MutexInvariant ==
  ASSUME "invalid" \notin ConfigModes
  PROVE  Spec => []MutexInv
<1>1. Init => MutexInv
  BY DEF Init, MutexInv, MutexDiscipline, Calculating
<1>2. MutexInv /\ UNCHANGED vars => MutexInv'
  BY DEF MutexInv, MutexDiscipline, Calculating, vars, acp, head, mutexes, calc
<1>3. MutexInv /\ [Next]_vars => MutexInv'
  BY <1>2, AcpMutexInv, CalcMutexInv DEF Next
<1>. QED
  BY <1>1, <1>3, PTL DEF Spec

\* headDCA.semMutex is held exactly while a calculation runs or ACP writes a
\* start, for any access points and any number of events, if the configured
\* scan mode is one of the two that dcs.h defines.
THEOREM MutexIsDisciplined ==
  ASSUME "invalid" \notin ConfigModes
  PROVE  Spec => []MutexDiscipline
<1>1. MutexInv => MutexDiscipline
  BY DEF MutexInv
<1>. QED
  BY <1>1, MutexInvariant, PTL

\* The node list never changes during a calculation: the mutex shuts ACP out,
\* and the copy of the peers is made before calc exists.
THEOREM ListIsStable ==
  ASSUME "invalid" \notin ConfigModes
  PROVE  Spec => ListStable
<1>1. MutexInv /\ [Next]_vars => [Calculating => list' = list]_vars
  <2>. SUFFICES ASSUME MutexInv, Next, Calculating PROVE list' = list
    OBVIOUS
  <2>. USE DEF MutexInv, MutexDiscipline, Calculating
  <2>1. CASE Outside
    BY <2>1 DEF Outside, AddPeer, DelPeer, ChangeState, PeerEvent, sendStartCalcCmd, ScanEnds, head
  <2>2. CASE AcpStep
    BY <2>2 DEF AcpStep, CopyPeers, SpawnCalc, BootTimeout, AssignTimeout, IdleTimeout, StopCalc,
                ReadNews, AddNode, DelNode, NodeOperational, updateSPInfo, HeadFree, StartByGui,
                WriteStart, vars, head
  <2>3. CASE CalcStep
    BY <2>3 DEF CalcStep, Idle, CheckAP, CheckPipe, Prepare, ResetPower, Lock, updateSPRelatedInfo,
                VisitNode, WaitSspp, SsppTimeout, RequestScan, AwaitScan, SearchThreshold,
                SetChannel, Restart, ByCalc
  <2>. QED
    BY <2>1, <2>2, <2>3 DEF Next
<1>. QED
  BY <1>1, MutexInvariant, PTL DEF Spec, ListStable

-----------------------------------------------------------------------------
(* The commands in the pipe of calc.                                       *)

\* calc is at work and may read its pipe before it is idle again.
Reads == calcPc \in {"checkAP", "checkPipe", "prepare", "power", "lock", "info", "scan", "sspp", "wait"}

Sent(x) == {i \in 1..Len(calcPipe) : calcPipe[i] = x}

\* Between two starts there is a stop.
Alternate ==
  \A i, k \in Sent(Start) : i < k => \E j \in Sent(Stop) : i < j /\ j < k

\* While calc is at work, a stop comes before any start.
StopFirst == Reads => \A k \in Sent(Start) : \E j \in Sent(Stop) : j < k

\* All that was started has been told to stop, or will be when it reads on.
Covered ==
  /\ \A i \in Sent(Start) : \E j \in Sent(Stop) : i < j
  /\ Reads => Sent(Stop) # {}

\* ACP may write a start: it has written a stop since the last one.
Due == assignFlag \/ acpPc \in {"delay", "update", "write"}

CommandInv ==
  /\ calcPipe \in Seq(Cmds)
  /\ Alternate /\ StopFirst
  /\ Due => Covered
  /\ acpPc = "write" => ~assignFlag /\ ~justBoot
  /\ justBoot => ~Reads /\ Sent(Start) = {}

\* What a write does to the positions of the commands.
LEMMA WriteMoves ==
  ASSUME calcPipe \in Seq(Cmds), NEW x \in Cmds, calcPipe' = Append(calcPipe, x), NEW y
  PROVE  /\ calcPipe' \in Seq(Cmds)
         /\ Len(calcPipe) \in Nat
         /\ Sent(y) \subseteq 1..Len(calcPipe)
         /\ x = y => Sent(y)' = Sent(y) \cup {Len(calcPipe) + 1}
         /\ x # y => Sent(y)' = Sent(y)
<1>1. /\ calcPipe' \in Seq(Cmds) /\ Len(calcPipe) \in Nat
      /\ Len(calcPipe') = Len(calcPipe) + 1
      /\ \A i \in 1..Len(calcPipe) : calcPipe'[i] = calcPipe[i]
      /\ calcPipe'[Len(calcPipe) + 1] = x
  OBVIOUS
<1>. QED
  BY <1>1 DEF Sent

\* What a read does to them.
LEMMA ReadMoves ==
  ASSUME calcPipe \in Seq(Cmds), calcPipe # <<>>, calcPipe' = Tail(calcPipe), NEW y
  PROVE  /\ calcPipe' \in Seq(Cmds)
         /\ Sent(y) \subseteq Nat \ {0}
         /\ Sent(y)' = {i \in Nat \ {0} : i + 1 \in Sent(y)}
         /\ 1 \in Sent(y) <=> Head(calcPipe) = y
<1>1. /\ calcPipe' \in Seq(Cmds) /\ Len(calcPipe) \in Nat \ {0}
      /\ Len(calcPipe') = Len(calcPipe) - 1
      /\ \A i \in 1..Len(calcPipe) - 1 : calcPipe'[i] = calcPipe[i + 1]
      /\ Head(calcPipe) = calcPipe[1]
  OBVIOUS
<1>. QED
  BY <1>1 DEF Sent

\* The commands are different and belong to the pipe.
LEMMA CommandsDiffer ==
  /\ Start \in Cmds /\ Stop \in Cmds /\ Start # Stop /\ Nothing # Start /\ Nothing # Stop
  /\ \A a \in AP : Answer(a) \in Cmds /\ Answer(a) # Start /\ Answer(a) # Stop
BY DEF Start, Stop, Nothing, Answer, Cmds

\* A step that leaves the pipe alone, and does not set calc to work.
LEMMA PlaceMoves ==
  ASSUME CommandInv, calcPipe' = calcPipe, Reads' => Reads
  PROVE  /\ calcPipe' \in Seq(Cmds) /\ Alternate' /\ StopFirst'
         /\ Covered => Covered'
         /\ Sent(Start)' = Sent(Start)
BY DEF CommandInv, Alternate, StopFirst, Covered, Sent, Start, Stop

\* A stop is written: whatever was started is told to stop.
LEMMA StopWritten ==
  ASSUME CommandInv, calcPipe' = Append(calcPipe, Stop), Reads' = Reads
  PROVE  /\ calcPipe' \in Seq(Cmds) /\ Alternate' /\ StopFirst' /\ Covered'
         /\ Sent(Start)' = Sent(Start)
<1>0. calcPipe \in Seq(Cmds) /\ Stop \in Cmds /\ Stop # Start
  BY CommandsDiffer DEF CommandInv
<1>1. /\ calcPipe' \in Seq(Cmds) /\ Len(calcPipe) \in Nat
      /\ Sent(Start) \subseteq 1..Len(calcPipe) /\ Sent(Stop) \subseteq 1..Len(calcPipe)
      /\ Sent(Start)' = Sent(Start) /\ Sent(Stop)' = Sent(Stop) \cup {Len(calcPipe) + 1}
  BY <1>0, WriteMoves
<1>2. Start' = Start /\ Stop' = Stop
  BY DEF Start, Stop
<1>3. Alternate' /\ StopFirst'
  BY <1>1, <1>2 DEF CommandInv, Alternate, StopFirst
<1>4. Covered'
  <2>1. \A i \in Sent(Start)' : i < Len(calcPipe) + 1
    BY <1>1
  <2>. QED
    BY <1>1, <1>2, <2>1 DEF Covered
<1>. QED
  BY <1>1, <1>3, <1>4

\* A scan answer is written: the commands stay where they are.
LEMMA AnswerWritten ==
  ASSUME CommandInv, NEW a \in AP, calcPipe' = Append(calcPipe, Answer(a)), Reads' = Reads
  PROVE  /\ calcPipe' \in Seq(Cmds) /\ Alternate' /\ StopFirst'
         /\ Covered => Covered'
         /\ Sent(Start)' = Sent(Start)
<1>0. calcPipe \in Seq(Cmds) /\ Answer(a) \in Cmds /\ Answer(a) # Start /\ Answer(a) # Stop
  BY CommandsDiffer DEF CommandInv
<1>1. /\ calcPipe' \in Seq(Cmds) /\ Sent(Start)' = Sent(Start) /\ Sent(Stop)' = Sent(Stop)
  <2>1. calcPipe' \in Seq(Cmds) /\ Sent(Start)' = Sent(Start)
    BY <1>0, WriteMoves
  <2>2. Sent(Stop)' = Sent(Stop)
    BY <1>0, WriteMoves
  <2>. QED
    BY <2>1, <2>2
<1>2. Start' = Start /\ Stop' = Stop
  BY DEF Start, Stop
<1>. QED
  BY <1>1, <1>2 DEF CommandInv, Alternate, StopFirst, Covered

\* A start is written when it is due: a stop lies between it and the last.
LEMMA StartWritten ==
  ASSUME CommandInv, Covered, calcPipe' = Append(calcPipe, Start), Reads' = Reads
  PROVE  calcPipe' \in Seq(Cmds) /\ Alternate' /\ StopFirst'
<1>0. calcPipe \in Seq(Cmds) /\ Start \in Cmds /\ Start # Stop
  BY CommandsDiffer DEF CommandInv
<1>1. /\ calcPipe' \in Seq(Cmds) /\ Len(calcPipe) \in Nat
      /\ Sent(Start) \subseteq 1..Len(calcPipe) /\ Sent(Stop) \subseteq 1..Len(calcPipe)
      /\ Sent(Start)' = Sent(Start) \cup {Len(calcPipe) + 1} /\ Sent(Stop)' = Sent(Stop)
  <2>1. /\ calcPipe' \in Seq(Cmds) /\ Len(calcPipe) \in Nat
        /\ Sent(Start) \subseteq 1..Len(calcPipe)
        /\ Sent(Start)' = Sent(Start) \cup {Len(calcPipe) + 1}
    BY <1>0, WriteMoves
  <2>2. Sent(Stop) \subseteq 1..Len(calcPipe) /\ Sent(Stop)' = Sent(Stop)
    BY <1>0, WriteMoves
  <2>. QED
    BY <2>1, <2>2
<1>2. Start' = Start /\ Stop' = Stop
  BY DEF Start, Stop
<1>3. Alternate'
  BY <1>1, <1>2 DEF CommandInv, Alternate, Covered
<1>4. StopFirst'
  BY <1>1, <1>2 DEF CommandInv, StopFirst, Covered
<1>. QED
  BY <1>1, <1>3, <1>4

\* calc reads: a start only when idle, and it is at work afterwards exactly
\* if it read a start or was at work and did not read a stop.
LEMMA CommandRead ==
  ASSUME CommandInv, calcPipe # <<>>, calcPipe' = Tail(calcPipe),
         Reads' => IF Reads THEN Head(calcPipe) # Stop ELSE Head(calcPipe) = Start
  PROVE  /\ calcPipe' \in Seq(Cmds) /\ Alternate' /\ StopFirst'
         /\ Covered => Covered'
         /\ Sent(Start) = {} => Sent(Start)' = {}
<1>1. /\ calcPipe' \in Seq(Cmds)
      /\ Sent(Start) \subseteq Nat \ {0} /\ Sent(Stop) \subseteq Nat \ {0}
      /\ Sent(Start)' = {i \in Nat \ {0} : i + 1 \in Sent(Start)}
      /\ Sent(Stop)' = {i \in Nat \ {0} : i + 1 \in Sent(Stop)}
      /\ 1 \in Sent(Start) <=> Head(calcPipe) = Start
      /\ 1 \in Sent(Stop) <=> Head(calcPipe) = Stop
  BY ReadMoves DEF CommandInv
<1>2. Start' = Start /\ Stop' = Stop
  BY DEF Start, Stop
<1>3. ASSUME NEW j \in Sent(Stop), j # 1 PROVE j - 1 \in Sent(Stop)'
  BY <1>1, <1>3
<1>4. Alternate'
  <2>. SUFFICES ASSUME NEW i \in Sent(Start)', NEW k \in Sent(Start)', i < k
                PROVE  \E j \in Sent(Stop)' : i < j /\ j < k
    BY <1>2 DEF Alternate
  <2>1. i + 1 \in Sent(Start) /\ k + 1 \in Sent(Start) /\ i + 1 < k + 1 /\ i \in Nat /\ k \in Nat
    BY <1>1
  <2>2. PICK j \in Sent(Stop) : i + 1 < j /\ j < k + 1
    BY <2>1 DEF CommandInv, Alternate
  <2>3. j \in Nat /\ j # 1 /\ i < j - 1 /\ j - 1 < k
    BY <1>1, <2>1, <2>2
  <2>. QED
    BY <1>3, <2>3
<1>5. StopFirst'
  <2>. SUFFICES ASSUME Reads', NEW k \in Sent(Start)'
                PROVE  \E j \in Sent(Stop)' : j < k
    BY <1>2 DEF StopFirst
  <2>1. k + 1 \in Sent(Start) /\ k \in Nat \ {0}
    BY <1>1
  <2>2. PICK j \in Sent(Stop) : j # 1 /\ j < k + 1
    <3>1. CASE Reads
      BY <1>1, <2>1, <3>1, CommandsDiffer DEF CommandInv, StopFirst
    <3>2. CASE ~Reads
      BY <1>1, <2>1, <3>2, CommandsDiffer DEF CommandInv, Alternate
    <3>. QED
      BY <3>1, <3>2
  <2>. QED
    BY <1>1, <1>3, <2>1, <2>2
<1>6. ASSUME Covered PROVE Covered'
  <2>1. ASSUME NEW i \in Sent(Start)' PROVE \E j \in Sent(Stop)' : i < j
    <3>1. i + 1 \in Sent(Start) /\ i \in Nat
      BY <1>1
    <3>2. PICK j \in Sent(Stop) : i + 1 < j
      BY <1>6, <3>1 DEF Covered
    <3>3. j \in Nat /\ j # 1 /\ i < j - 1
      BY <1>1, <3>1, <3>2
    <3>. QED
      BY <1>3, <3>3
  <2>2. ASSUME Reads' PROVE Sent(Stop)' # {}
    <3>1. \E j \in Sent(Stop) : j # 1
      BY <1>1, <1>6, <2>2, CommandsDiffer DEF Covered
    <3>. QED
      BY <1>3, <3>1
  <2>. QED
    BY <1>2, <2>1, <2>2 DEF Covered
<1>. QED
  BY <1>1, <1>4, <1>5, <1>6

\* The tasks outside and ACP keep the order of the commands.
LEMMA AcpCommandInv ==
  ASSUME CommandInv, Outside \/ AcpStep
  PROVE  CommandInv'
<1>0. ASSUME UNCHANGED <<assignFlag, acpPc, justBoot, calcPc>>,
             \/ calcPipe' = calcPipe
             \/ \E a \in AP : calcPipe' = Append(calcPipe, Answer(a))
      PROVE  CommandInv'
  <2>1. Reads' = Reads /\ Due' = Due
    BY <1>0 DEF Reads, Due
  <2>2. /\ calcPipe' \in Seq(Cmds) /\ Alternate' /\ StopFirst'
        /\ Covered => Covered'
        /\ Sent(Start)' = Sent(Start)
    BY <1>0, <2>1, PlaceMoves, AnswerWritten
  <2>. QED
    BY <1>0, <2>1, <2>2 DEF CommandInv
<1>1. CASE Outside
  BY <1>0, <1>1 DEF Outside, AddPeer, DelPeer, ChangeState, PeerEvent, sendStartCalcCmd, ScanEnds,
                    acp, calc
<1>2. ASSUME calcPipe' = calcPipe, calcPc' \in {calcPc, "idle"},
             assignFlag' => Due \/ justBoot, justBoot' => justBoot,
             acpPc' \in {"delay", "update", "write"} => Due,
             acpPc' = "write" => ~assignFlag' /\ ~justBoot'
      PROVE  CommandInv'
  <2>1. Reads' => Reads
    BY <1>2 DEF Reads
  <2>2. /\ calcPipe' \in Seq(Cmds) /\ Alternate' /\ StopFirst'
        /\ Covered => Covered'
        /\ Sent(Start)' = Sent(Start)
    BY <1>2, <2>1, PlaceMoves
  <2>3. Due' => Covered
    BY <1>2 DEF Due, CommandInv, Covered
  <2>. QED
    BY <1>2, <2>1, <2>2, <2>3 DEF CommandInv
<1>3. CASE CopyPeers \/ SpawnCalc \/ BootTimeout \/ IdleTimeout
  <2>1. acpPc' \notin {"delay", "update", "write"}
    BY <1>3 DEF CopyPeers, SpawnCalc, BootTimeout, IdleTimeout, vars, acp
  <2>. QED
    BY <1>2, <1>3, <2>1 DEF CopyPeers, SpawnCalc, BootTimeout, IdleTimeout, Due, vars, acp, calc
<1>4. CASE ReadNews \/ AddNode \/ DelNode \/ StartByGui \/ NodeOperational
  <2>1. Due
    BY <1>4 DEF ReadNews, AddNode, DelNode, StartByGui, NodeOperational, updateSPInfo, Due
  <2>2. calcPipe' = calcPipe /\ calcPc' = calcPc /\ (justBoot' => justBoot)
    BY <1>4 DEF ReadNews, AddNode, DelNode, StartByGui, NodeOperational, updateSPInfo, calc
  <2>3. acpPc' = "write" => ~assignFlag' /\ ~justBoot'
    BY <1>4 DEF ReadNews, AddNode, DelNode, StartByGui, NodeOperational, updateSPInfo
  <2>. QED
    BY <1>2, <2>1, <2>2, <2>3
<1>5. CASE StopCalc
  <2>1. Reads' = Reads
    BY <1>5 DEF StopCalc, Reads, calc
  <2>2. /\ calcPipe' \in Seq(Cmds) /\ Alternate' /\ StopFirst' /\ Covered'
        /\ Sent(Start)' = Sent(Start)
    BY <1>5, <2>1, StopWritten DEF StopCalc
  <2>. QED
    BY <1>5, <2>1, <2>2 DEF StopCalc, CommandInv
<1>6. CASE AssignTimeout \/ WriteStart
  <2>1. Reads' = Reads
    BY <1>6 DEF AssignTimeout, WriteStart, Reads, calc
  <2>2. Covered
    BY <1>6 DEF AssignTimeout, WriteStart, CommandInv, Due
  <2>3. calcPipe' \in Seq(Cmds) /\ Alternate' /\ StopFirst'
    BY <1>6, <2>1, <2>2, StartWritten DEF AssignTimeout, WriteStart
  <2>4. ~Due' /\ ~justBoot' /\ acpPc' # "write"
    BY <1>6 DEF AssignTimeout, WriteStart, Due, CommandInv
  <2>. QED
    BY <2>3, <2>4 DEF CommandInv
<1>. QED
  BY <1>1, <1>3, <1>4, <1>5, <1>6 DEF AcpStep

\* calc keeps it: what it reads decides where it goes.
LEMMA CalcCommandInv ==
  ASSUME CommandInv, CalcStep
  PROVE  CommandInv'
<1>1. UNCHANGED <<assignFlag, acpPc, justBoot>>
  BY DEF CalcStep, Idle, CheckAP, CheckPipe, Prepare, ResetPower, Lock, updateSPRelatedInfo,
         VisitNode, WaitSspp, SsppTimeout, RequestScan, AwaitScan, SearchThreshold,
         SetChannel, Restart, ByCalc, acp
<1>2. ASSUME /\ calcPipe' \in Seq(Cmds) /\ Alternate' /\ StopFirst'
             /\ Covered => Covered'
             /\ Sent(Start) = {} => Sent(Start)' = {},
             Reads' => Reads \/ Sent(Start) # {}
      PROVE  CommandInv'
  BY <1>1, <1>2 DEF CommandInv, Due
<1>3. ASSUME calcPipe' = calcPipe, Reads' => Reads PROVE CommandInv'
  BY <1>2, <1>3, PlaceMoves
<1>4. ASSUME checkCalcTaskPipe, Reads, Reads' => Got # Stop PROVE CommandInv'
  <2>1. CASE calcPipe = <<>>
    BY <1>3, <1>4, <2>1 DEF checkCalcTaskPipe
  <2>2. CASE calcPipe # <<>>
    BY <1>2, <1>4, <2>2, CommandRead DEF checkCalcTaskPipe, Got
  <2>. QED
    BY <2>1, <2>2
<1>5. CASE Idle
  <2>1. calcPipe # <<>> /\ calcPipe' = Tail(calcPipe) /\ ~Reads /\ (Reads' => Head(calcPipe) = Start)
    BY <1>5 DEF Idle, checkCalcTaskPipe, Got, Reads
  <2>2. Head(calcPipe) = Start => Sent(Start) # {}
    BY <2>1, ReadMoves DEF CommandInv
  <2>. QED
    BY <1>2, <2>1, <2>2, CommandRead
<1>6. CASE CheckPipe
  BY <1>4, <1>6 DEF CheckPipe, Reads
<1>7. CASE WaitSspp
  BY <1>4, <1>7 DEF WaitSspp, Reads
<1>8. CASE AwaitScan
  BY <1>4, <1>8 DEF AwaitScan, NextNode, Reads
<1>9. CASE CheckAP \/ Prepare \/ ResetPower \/ Lock
  BY <1>3, <1>9 DEF CheckAP, Prepare, ResetPower, Lock, Reads
<1>10. CASE updateSPRelatedInfo \/ VisitNode \/ SsppTimeout \/ RequestScan
  BY <1>3, <1>10 DEF updateSPRelatedInfo, VisitNode, SsppTimeout, RequestScan, Request, NextNode,
                     Reads
<1>11. CASE SearchThreshold \/ SetChannel \/ Restart
  BY <1>3, <1>11 DEF SearchThreshold, SetChannel, Restart, Reads
<1>. QED
  BY <1>5, <1>6, <1>7, <1>8, <1>9, <1>10, <1>11 DEF CalcStep

\* The order of the commands holds throughout.
LEMMA CommandInvariant == Spec => []CommandInv
<1>1. Init => CommandInv
  BY DEF Init, CommandInv, Alternate, StopFirst, Due, Reads, Sent
<1>2. CommandInv /\ UNCHANGED vars => CommandInv'
  <2>. SUFFICES ASSUME CommandInv, UNCHANGED vars PROVE CommandInv'
    OBVIOUS
  <2>1. UNCHANGED <<calcPipe, calcPc, assignFlag, acpPc, justBoot>> /\ Reads' = Reads
    BY DEF vars, acp, calc, Reads
  <2>. QED
    BY <2>1, PlaceMoves DEF CommandInv, Due
<1>3. CommandInv /\ [Next]_vars => CommandInv'
  BY <1>2, AcpCommandInv, CalcCommandInv DEF Next
<1>. QED
  BY <1>1, <1>3, PTL DEF Spec

\* Only the idle task takes a start out of the pipe, for any access points,
\* pipes and number of events: at work, calc meets a stop before any start.
THEOREM NoStartIsLost == Spec => StartNotLost
<1>1. CommandInv /\ [Next]_vars =>
        [calcPipe # <<>> /\ calcPipe' = Tail(calcPipe) /\ Got = Start => calcPc = "idle"]_vars
  <2>. SUFFICES ASSUME CommandInv, Next, calcPipe # <<>>, calcPipe' = Tail(calcPipe), Got = Start
                PROVE  calcPc = "idle"
    OBVIOUS
  <2>1. Head(calcPipe) = Start /\ 1 \in Sent(Start) /\ Sent(Stop) \subseteq Nat \ {0}
    BY ReadMoves DEF CommandInv, Got
  <2>2. ~Reads
    BY <2>1 DEF CommandInv, StopFirst
  <2>3. calcPipe \in Seq(Cmds) /\ calcPipe' # calcPipe
    BY DEF CommandInv
  <2>4. \A x : calcPipe' # Append(calcPipe, x)
    BY <2>3
  <2>5. CASE Outside \/ AcpStep
    BY <2>3, <2>4, <2>5 DEF Outside, AddPeer, DelPeer, ChangeState, PeerEvent, sendStartCalcCmd,
       ScanEnds, AcpStep, CopyPeers, SpawnCalc, BootTimeout, AssignTimeout, IdleTimeout, StopCalc,
       ReadNews, AddNode, DelNode, NodeOperational, StartByGui, WriteStart, vars
  <2>6. CASE CalcStep
    BY <2>2, <2>3, <2>6 DEF CalcStep, Idle, CheckAP, CheckPipe, Prepare, ResetPower, Lock,
       updateSPRelatedInfo, VisitNode, WaitSspp, SsppTimeout, RequestScan, AwaitScan,
       SearchThreshold, SetChannel, Restart, Reads
  <2>. QED
    BY <2>5, <2>6 DEF Next
<1>. QED
  BY <1>1, CommandInvariant, PTL DEF Spec, StartNotLost
=============================================================================
