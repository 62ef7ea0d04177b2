------------------------------ MODULE DcaTasks ------------------------------
(***************************************************************************)
(* The tasks of src/DCS/dcs.c and what they share.                         *)
(*                                                                         *)
(*   ACP    autoChannelAndPowerTask: follows the peer list, decides when a *)
(*          calculation is due;                                            *)
(*   calc   calculateChannelTask: scans the access points one by one and   *)
(*          assigns channels (the assignment itself is DcaColor);          *)
(*   SDP, SSPP, GUI   tasks outside dcs.c: they own the peer list, run the *)
(*          scans and ask for a calculation.                               *)
(*                                                                         *)
(* ACP and calc share the node list under headDCA.semMutex, which calc     *)
(* keeps for a whole calculation; calc and SDP share the peer list under   *)
(* the SDP mutex.  The two pipes are message devices: a read takes one     *)
(* message.  Time is left out: a select times out at any moment at which   *)
(* its pipe is empty.                                                      *)
(***************************************************************************)
EXTENDS Integers, Sequences, FiniteSets

CONSTANTS
  AP, NoAP,            \* the access points, and the one of a message about none
  DcaEnabled,          \* those with nEnableACP set
  ConfigModes,         \* the values of gDCASchedParam.dcaScanMode
  AcpPipeMax,          \* ACPTASK_PIPE_MAX_MSGS
  CalcPipeMax,         \* CALCTASK_PIPE_MAX_MSGS
  MaxChecks,           \* m_maxCheckCnt of checkAPOk
  SsppRounds,          \* SSPP_TIMEOUT_CNT
  MaxEvents            \* bound on what SDP and GUI do in a behaviour

WorkStates  == {"operational", "waiting", "other"}
HeadModes   == {"force", "time", "invalid"}
NodeModes   == {"force", "time"}
ScanReturns == {"INVALID", "OK", "TIMEOUT"}

ASSUME TasksAssumption ==
  /\ IsFiniteSet(AP) /\ NoAP \notin AP
  /\ DcaEnabled \subseteq AP
  /\ ConfigModes \subseteq HeadModes
  /\ AcpPipeMax \in Nat \ {0} /\ CalcPipeMax \in Nat \ {0}
  /\ MaxChecks \in Nat \ {0} /\ SsppRounds \in Nat \ {0}
  /\ MaxEvents \in Nat

VARIABLES
  peers, state,        \* gSonicPointSlList and the work state of a peer
  scanning,            \* access points that have a scan command to answer
  events,              \* what SDP and GUI may still do
  untold,              \* history: a peer came or went before ACP was told of any
  acpPipe, calcPipe,   \* gDynamicChannelFd, gCalcTaskPipeFd
  acpRunning, calcRunning,   \* sACPFlag
  acpPc, acpMsg,
  justBoot, assignFlag,
  list,                \* headDCA.slList
  headMode, nodeMode,  \* enum_spScanMode of the head and of each node
  scanReturn, work,    \* m_scanReturn and spsWorkState of each node
  numOfVertex,         \* capacity of the colour scheme
  headOwner, headDepth,      \* headDCA.semMutex, a recursive mutex
  sdpHeld,             \* calc has returned without giving the SDP mutex back
  calcPc, row, cnt, waitAP

outside == <<peers, state, scanning, events, untold>>
acp     == <<acpRunning, acpPc, acpMsg, justBoot, assignFlag>>
node    == <<nodeMode, scanReturn, work>>
head    == <<list, headMode, node, numOfVertex>>
mutexes == <<headOwner, headDepth, sdpHeld>>
calc    == <<calcRunning, calcPc, row, cnt, waitAP>>
vars    == <<outside, acpPipe, calcPipe, acp, head, mutexes, calc>>

Msgs  == [cmd : {"ADD", "DEL", "START", "OPERATIONAL"}, ap : AP \cup {NoAP}]
Cmds  == [cmd : {"START", "STOP", "SCAN_RETURN"}, ap : AP \cup {NoAP}]
Nothing == [cmd |-> "NONE", ap |-> NoAP]
Start == [cmd |-> "START", ap |-> NoAP]
Stop  == [cmd |-> "STOP", ap |-> NoAP]
Answer(a) == [cmd |-> "SCAN_RETURN", ap |-> a]

Nodes == {list[i] : i \in 1..Len(list)}
-----------------------------------------------------------------------------
Init ==
  /\ peers \in SUBSET AP
  /\ state = [a \in AP |-> "operational"]
  /\ scanning = {} /\ events = MaxEvents /\ untold = FALSE
  /\ acpPipe = <<>> /\ calcPipe = <<>>
  /\ acpRunning = FALSE /\ calcRunning = FALSE
  /\ acpPc = "boot" /\ acpMsg = Nothing
  /\ justBoot = TRUE /\ assignFlag = FALSE
  /\ list = <<>>
  /\ headMode = "force"
  /\ nodeMode = [a \in AP |-> "time"]
  \* SWMALLOC does not clear a node, and the memset clears a pointer's worth
  /\ scanReturn \in [AP -> {"INVALID", "OK"}]
  /\ work = [a \in AP |-> "other"]
  /\ numOfVertex = 0
  /\ headOwner = "none" /\ headDepth = 0 /\ sdpHeld = FALSE
  /\ calcPc = "unborn" /\ row = 1 /\ cnt = 0 /\ waitAP = FALSE
-----------------------------------------------------------------------------
(* The tasks around dcs.c.                                                 *)

\* SDP tells ACP of its peers once m_acpTaskRunning says it may.
Tell(cmd, a) ==
  IF acpRunning
  THEN /\ Len(acpPipe) < AcpPipeMax
       /\ acpPipe' = Append(acpPipe, [cmd |-> cmd, ap |-> a])
  ELSE UNCHANGED acpPipe

PeerEvent ==
  /\ events > 0 /\ events' = events - 1
  /\ ~sdpHeld
  /\ UNCHANGED <<scanning, calcPipe, acp, head, mutexes, calc>>

AddPeer(a) ==
  /\ PeerEvent
  /\ a \notin peers
  /\ peers' = peers \cup {a}
  /\ state' = [state EXCEPT ![a] = "waiting"]
  /\ Tell("ADD", a)
  /\ untold' = (untold \/ acpPc = "created")

DelPeer(a) ==
  /\ PeerEvent
  /\ a \in peers
  /\ peers' = peers \ {a}
  /\ state' = [state EXCEPT ![a] = "operational"]
  /\ Tell("DEL", a)
  /\ untold' = (untold \/ acpPc = "created")

ChangeState(a, s) ==
  /\ PeerEvent
  /\ a \in peers /\ s # state[a]
  /\ state' = [state EXCEPT ![a] = s]
  /\ IF s = "operational" THEN Tell("OPERATIONAL", a) ELSE UNCHANGED acpPipe
  /\ UNCHANGED <<peers, untold>>

\* The web page asks for a calculation; before ACP has opened the pipe the
\* command goes nowhere.
sendStartCalcCmd ==
  /\ events > 0 /\ events' = events - 1
  /\ Tell("START", NoAP)
  /\ UNCHANGED <<peers, state, scanning, untold, calcPipe, acp, head, mutexes, calc>>

\* A scan is over: SSPP tells calc while a calculation runs.
ScanEnds(a) ==
  /\ a \in scanning
  /\ scanning' = scanning \ {a}
  /\ IF calcRunning
     THEN Len(calcPipe) < CalcPipeMax /\ calcPipe' = Append(calcPipe, Answer(a))
     ELSE UNCHANGED calcPipe
  /\ UNCHANGED <<peers, state, events, untold, acpPipe, acp, head, mutexes, calc>>

Outside ==
  \/ \E a \in AP : AddPeer(a) \/ DelPeer(a) \/ ScanEnds(a)
  \/ \E a \in AP, s \in WorkStates : ChangeState(a, s)
  \/ sendStartCalcCmd
-----------------------------------------------------------------------------
(* The ACP task.                                                           *)

HeadFree(task) == headOwner \in {"none", task}

\* spInfoInit, up to SDP_RELEASE: a node for each peer, the last one first.
CopyPeers ==
  /\ acpPc = "boot"
  /\ \E s \in [1..Cardinality(peers) -> peers] :
       /\ \A a \in peers : \E i \in DOMAIN s : s[i] = a
       /\ list' = s
  /\ acpPc' = "created"
  /\ UNCHANGED <<outside, acpPipe, calcPipe, acpRunning, acpMsg, justBoot, assignFlag,
                 headMode, node, numOfVertex, mutexes, calc>>

\* The rest of it (the pipes, m_acpTaskRunning) and the spawning of calc.
SpawnCalc ==
  /\ acpPc = "created"
  /\ acpRunning' = TRUE /\ calcRunning' = FALSE
  /\ calcPc' = "idle"
  /\ acpPc' = "select"
  /\ UNCHANGED <<outside, acpPipe, calcPipe, acpMsg, justBoot, assignFlag, head, mutexes,
                 row, cnt, waitAP>>

\* select has timed out: no news for dcaLatencyTimeforNewSP seconds.
BootTimeout ==
  /\ acpPc = "select" /\ acpPipe = <<>>
  /\ justBoot
  /\ justBoot' = FALSE /\ assignFlag' = TRUE
  /\ headMode' = "force"
  /\ UNCHANGED <<outside, acpPipe, calcPipe, acpRunning, acpPc, acpMsg, list, node,
                 numOfVertex, mutexes, calc>>

\* Mutation: the flag is not cleared ("only once").
AssignTimeoutRepeats ==
  /\ acpPc = "select" /\ acpPipe = <<>>
  /\ ~justBoot /\ assignFlag
  /\ Len(calcPipe) < CalcPipeMax
  /\ calcPipe' = Append(calcPipe, Start)
  /\ UNCHANGED <<outside, acpPipe, acp, head, mutexes, calc>>

AssignTimeout ==
  /\ acpPc = "select" /\ acpPipe = <<>>
  /\ ~justBoot /\ assignFlag
  /\ assignFlag' = FALSE
  /\ Len(calcPipe) < CalcPipeMax
  /\ calcPipe' = Append(calcPipe, Start)
  /\ UNCHANGED <<outside, acpPipe, acpRunning, acpPc, acpMsg, justBoot, head, mutexes, calc>>

IdleTimeout ==
  /\ acpPc = "select" /\ acpPipe = <<>>
  /\ ~justBoot /\ ~assignFlag
  /\ UNCHANGED vars

\* Mutation: calc is not stopped first.
StopCalcNot ==
  /\ acpPc = "select" /\ acpPipe # <<>>
  /\ acpPc' = "delay"
  /\ UNCHANGED <<outside, acpPipe, calcPipe, acpRunning, acpMsg, justBoot, assignFlag, head,
                 mutexes, calc>>

\* There is news: calc is stopped before the message is read.
StopCalc ==
  /\ acpPc = "select" /\ acpPipe # <<>>
  /\ Len(calcPipe) < CalcPipeMax
  /\ calcPipe' = Append(calcPipe, Stop)
  /\ acpPc' = "delay"
  /\ UNCHANGED <<outside, acpPipe, acpRunning, acpMsg, justBoot, assignFlag, head, mutexes, calc>>

ReadNews ==
  /\ acpPc = "delay"
  /\ acpMsg' = Head(acpPipe) /\ acpPipe' = Tail(acpPipe)
  /\ acpPc' = "update"
  /\ UNCHANGED <<outside, calcPipe, acpRunning, justBoot, assignFlag, head, mutexes, calc>>

\* Mutation: the mutex is not taken.
updateSPInfoUnlocked(cmd) ==
  /\ acpPc = "update" /\ acpMsg.cmd = cmd
  /\ acpPc' = "select" /\ acpMsg' = Nothing
  /\ UNCHANGED <<outside, acpPipe, acpRunning, work, numOfVertex, mutexes, calc>>

\* updateSPInfo: one action per command, all inside headDCA.semMutex.
updateSPInfo(cmd) ==
  /\ acpPc = "update" /\ acpMsg.cmd = cmd
  /\ HeadFree("acp")
  /\ acpPc' = "select" /\ acpMsg' = Nothing
  /\ UNCHANGED <<outside, acpPipe, acpRunning, work, numOfVertex, mutexes, calc>>

AddNode ==
  /\ updateSPInfo("ADD")
  /\ IF acpMsg.ap \in Nodes
     THEN UNCHANGED <<list, headMode, nodeMode, scanReturn, justBoot, assignFlag>>
     ELSE /\ list' = <<acpMsg.ap>> \o list
          /\ headMode' = "time"
          /\ \E m \in NodeModes : nodeMode' = [nodeMode EXCEPT ![acpMsg.ap] = m]
          /\ \E r \in {"INVALID", "OK"} : scanReturn' = [scanReturn EXCEPT ![acpMsg.ap] = r]
          /\ justBoot' = FALSE /\ assignFlag' = TRUE
  /\ UNCHANGED calcPipe

\* Mutation: a deletion is left to the next start.
DelNodeLater ==
  /\ updateSPInfo("DEL")
  /\ UNCHANGED <<list, justBoot, assignFlag, headMode, nodeMode, scanReturn, calcPipe>>

DelNode ==
  /\ updateSPInfo("DEL")
  /\ IF acpMsg.ap \in Nodes
     THEN /\ list' = SelectSeq(list, LAMBDA a : a # acpMsg.ap)
          /\ justBoot' = FALSE /\ assignFlag' = FALSE
     ELSE UNCHANGED <<list, justBoot, assignFlag>>
  /\ UNCHANGED <<headMode, nodeMode, scanReturn, calcPipe>>

\* The command to start is written with the mutex taken: should the pipe be
\* full, ACP waits for calc to read while calc may wait for the mutex.
StartByGui ==
  /\ acpPc = "update" /\ acpMsg.cmd = "START"
  /\ HeadFree("acp")
  /\ headOwner' = "acp" /\ headDepth' = headDepth + 1
  /\ justBoot' = FALSE /\ assignFlag' = FALSE
  /\ headMode' \in ConfigModes
  /\ acpPc' = "write" /\ acpMsg' = Nothing
  /\ UNCHANGED <<outside, acpPipe, calcPipe, acpRunning, list, node, numOfVertex, sdpHeld, calc>>

WriteStart ==
  /\ acpPc = "write"
  /\ Len(calcPipe) < CalcPipeMax
  /\ calcPipe' = Append(calcPipe, Start)
  /\ headOwner' = "none" /\ headDepth' = headDepth - 1
  /\ acpPc' = "select"
  /\ UNCHANGED <<outside, acpPipe, acpRunning, acpMsg, justBoot, assignFlag, head, sdpHeld, calc>>

\* Mutation: the due calculation is called off.
NodeOperationalClears ==
  /\ updateSPInfo("OPERATIONAL")
  /\ IF acpMsg.ap \in Nodes
     THEN /\ nodeMode' = [nodeMode EXCEPT ![acpMsg.ap] = "force"]
          /\ assignFlag' = FALSE
     ELSE UNCHANGED <<nodeMode, assignFlag>>
  /\ UNCHANGED <<list, headMode, scanReturn, justBoot, calcPipe>>

NodeOperational ==
  /\ updateSPInfo("OPERATIONAL")
  /\ IF acpMsg.ap \in Nodes
     THEN /\ nodeMode' = [nodeMode EXCEPT ![acpMsg.ap] = "force"]
          /\ assignFlag' = TRUE
     ELSE UNCHANGED <<nodeMode, assignFlag>>
  /\ UNCHANGED <<list, headMode, scanReturn, justBoot, calcPipe>>

AcpStep ==
  \/ CopyPeers \/ SpawnCalc
  \/ BootTimeout \/ AssignTimeout \/ IdleTimeout
  \/ StopCalc \/ ReadNews
  \/ AddNode \/ DelNode \/ StartByGui \/ WriteStart \/ NodeOperational
-----------------------------------------------------------------------------
(* The calc task.  calcPc is the place it has reached:                     *)
(*   idle       waiting at ACP_START                                       *)
(*   checkAP, checkPipe   the two halves of a round of checkAPOk           *)
(*   prepare, power, lock   3885, 3901 and 3909                            *)
(*   info       the loop of updateSPRelatedInfo, at node row               *)
(*   scan, sspp, wait   the scan loop, at node row                         *)
(*   assign     the loop of setPowerOrCh(NULL, SET_CHANNEL, 0), at node row *)
(*   restart    CALC_RESTART                                               *)

\* checkCalcTaskPipe: one message, or none when select times out.
Got == IF calcPipe = <<>> THEN Nothing ELSE Head(calcPipe)

checkCalcTaskPipe == calcPipe' = IF calcPipe = <<>> THEN <<>> ELSE Tail(calcPipe)

\* A calc action reads the pipe or leaves it alone; no calc action touches
\* what ACP and the tasks outside own.
ByCalc == UNCHANGED <<acpPipe, acp, peers, state, events, untold, list>>

Idle ==
  /\ calcPc = "idle" /\ calcPipe # <<>>
  /\ checkCalcTaskPipe
  /\ IF Got = Start THEN calcPc' = "checkAP" /\ cnt' = 0 ELSE UNCHANGED <<calcPc, cnt>>
  /\ ByCalc /\ UNCHANGED <<scanning, headMode, node, numOfVertex, mutexes, calcRunning, row, waitAP>>

CheckAP ==
  /\ calcPc = "checkAP"
  /\ calcPc' = IF peers = {} THEN "idle"
               ELSE IF \A a \in peers : state[a] = "operational" THEN "prepare" ELSE "checkPipe"
  /\ waitAP' = (\E a \in peers : state[a] = "waiting")
  /\ cnt' = IF calcPc' = "checkPipe" THEN cnt ELSE 0
  /\ ByCalc /\ UNCHANGED <<calcPipe, scanning, headMode, node, numOfVertex, mutexes, calcRunning, row>>

\* The statistics are those of before the wait on the pipe.
CheckPipe ==
  /\ calcPc = "checkPipe"
  /\ checkCalcTaskPipe
  /\ IF Got # Stop /\ waitAP /\ cnt + 1 < MaxChecks
     THEN calcPc' = "checkAP" /\ cnt' = cnt + 1
     ELSE calcPc' = (IF Got = Stop THEN "idle" ELSE "prepare") /\ cnt' = 0
  /\ waitAP' = FALSE
  /\ ByCalc /\ UNCHANGED <<scanning, headMode, node, numOfVertex, mutexes, calcRunning, row>>

\* Mutation: the colour scheme is set up once.
PrepareOnce ==
  /\ calcPc = "prepare" /\ HeadFree("calc")
  /\ IF list = <<>>
     THEN calcPc' = "idle" /\ numOfVertex' = 0
     ELSE /\ calcPc' = "power"
          /\ numOfVertex' = IF numOfVertex = 0 THEN Len(list) ELSE numOfVertex
  /\ ByCalc /\ UNCHANGED <<calcPipe, scanning, headMode, node, mutexes, calcRunning, row, cnt, waitAP>>

\* setupAdjacentAndRSSIMatrix and setupColorScheme: room for the list of now.
Prepare ==
  /\ calcPc = "prepare" /\ HeadFree("calc")
  /\ IF list = <<>>
     THEN calcPc' = "idle" /\ numOfVertex' = 0
     ELSE /\ calcPc' = "power"
          /\ numOfVertex' = IF numOfVertex < Len(list) THEN Len(list) ELSE numOfVertex
  /\ ByCalc /\ UNCHANGED <<calcPipe, scanning, headMode, node, mutexes, calcRunning, row, cnt, waitAP>>

\* setPowerOrCh(NULL, SET_POWER, 0) takes the mutex and gives it back.
ResetPower ==
  /\ calcPc = "power" /\ HeadFree("calc")
  /\ calcPc' = "lock"
  /\ ByCalc /\ UNCHANGED <<calcPipe, scanning, headMode, node, numOfVertex, mutexes, calcRunning,
                           row, cnt, waitAP>>

Lock ==
  /\ calcPc = "lock" /\ HeadFree("calc")
  /\ headOwner' = "calc" /\ headDepth' = headDepth + 1
  /\ calcRunning' = TRUE
  /\ calcPc' = "info" /\ row' = 1
  /\ ByCalc /\ UNCHANGED <<calcPipe, scanning, headMode, node, numOfVertex, sdpHeld, cnt, waitAP>>

\* updateSPRelatedInfo; for a node without a peer it returns with the SDP
\* mutex taken.
updateSPRelatedInfo ==
  /\ calcPc = "info"
  /\ IF row > Len(list) THEN calcPc' = "scan" /\ row' = 1 /\ UNCHANGED <<sdpHeld, work>>
     ELSE IF list[row] \in peers
     THEN /\ work' = [work EXCEPT ![list[row]] = state[list[row]]]
          /\ row' = row + 1 /\ UNCHANGED <<calcPc, sdpHeld>>
     ELSE calcPc' = "restart" /\ sdpHeld' = TRUE /\ UNCHANGED <<row, work>>
  /\ ByCalc /\ UNCHANGED <<calcPipe, scanning, headMode, nodeMode, scanReturn, numOfVertex,
                           headOwner, headDepth, calcRunning, cnt, waitAP>>

\* The head of the scan loop, up to checkSSPPCompletion.
VisitNode ==
  /\ calcPc = "scan" /\ row <= Len(list)
  /\ LET a == list[row]
     IN IF a \notin DcaEnabled
        THEN row' = row + 1 /\ UNCHANGED <<calcPc, work, cnt>>
        ELSE IF a \notin peers
        THEN calcPc' = "restart" /\ UNCHANGED <<row, work, cnt>>
        ELSE /\ work' = [work EXCEPT ![a] = state[a]]
             /\ IF state[a] = "operational"
                THEN calcPc' = "sspp" /\ cnt' = 0 /\ UNCHANGED row
                ELSE row' = row + 1 /\ UNCHANGED <<calcPc, cnt>>
  /\ ByCalc /\ UNCHANGED <<calcPipe, scanning, headMode, nodeMode, scanReturn, numOfVertex, mutexes,
                           calcRunning, waitAP>>

\* Mutation: the turns are not counted.
WaitSsppForEver ==
  /\ calcPc = "sspp" /\ cnt < SsppRounds
  /\ checkCalcTaskPipe
  /\ calcPc' = IF Got = Stop THEN "restart" ELSE calcPc
  /\ ByCalc /\ UNCHANGED <<scanning, headMode, node, numOfVertex, mutexes, calcRunning, row, cnt, waitAP>>

\* checkSSPPCompletion, one turn of its loop: the access point is busy with
\* an earlier command.
WaitSspp ==
  /\ calcPc = "sspp" /\ cnt < SsppRounds
  /\ checkCalcTaskPipe
  /\ IF Got = Stop THEN calcPc' = "restart" /\ UNCHANGED cnt
                   ELSE cnt' = cnt + 1 /\ UNCHANGED calcPc
  /\ ByCalc /\ UNCHANGED <<scanning, headMode, node, numOfVertex, mutexes, calcRunning, row, waitAP>>

NextNode == calcPc' = "scan" /\ row' = row + 1 /\ cnt' = 0

SsppTimeout ==
  /\ calcPc = "sspp" /\ cnt = SsppRounds
  /\ NextNode
  /\ ByCalc /\ UNCHANGED <<calcPipe, scanning, headMode, node, numOfVertex, mutexes, calcRunning, waitAP>>

Request(a) ==
  /\ scanning' = scanning \cup {a}
  /\ scanReturn' = [scanReturn EXCEPT ![a] = "INVALID"]
  /\ calcPc' = "wait" /\ cnt' = 0 /\ UNCHANGED row

\* checkSSPPCompletion has returned LAST_SSPP_COMPLETED: no command to this
\* access point is under way.  A node to be scanned based on time is due or
\* not; the first case is a mode that is none of the head's.
RequestScan ==
  LET a == list[row]
  IN /\ calcPc = "sspp" /\ cnt < SsppRounds /\ a \notin scanning
     /\ IF headMode = "invalid"
        THEN /\ headMode' = "time" /\ calcPc' = "idle"
             /\ UNCHANGED <<scanning, scanReturn, nodeMode, row, cnt>>
        ELSE IF headMode = "time" /\ nodeMode[a] = "time"
        THEN /\ Request(a) \/ (NextNode /\ UNCHANGED <<scanning, scanReturn>>)
             /\ UNCHANGED <<headMode, nodeMode>>
        ELSE /\ Request(a)
             /\ headMode' = "time"
             /\ nodeMode' = [nodeMode EXCEPT ![a] = "time"]
     /\ ByCalc /\ UNCHANGED <<calcPipe, work, numOfVertex, mutexes, calcRunning, waitAP>>

\* The wait for the answer: a time-out, a stop, or an answer, whichever
\* access point it is from.
AwaitScan ==
  /\ calcPc = "wait"
  /\ checkCalcTaskPipe
  /\ IF Got = Stop THEN calcPc' = "restart" /\ UNCHANGED <<row, cnt>> ELSE NextNode
  /\ scanReturn' = [scanReturn EXCEPT ![list[row]] =
                      CASE Got = Nothing -> "TIMEOUT"
                        [] Got.cmd = "SCAN_RETURN" -> "OK"
                        [] OTHER -> @]
  /\ ByCalc /\ UNCHANGED <<scanning, headMode, nodeMode, work, numOfVertex, mutexes, calcRunning, waitAP>>

\* The end of the scan loop, and the calculation (DcaColor).
SearchThreshold ==
  /\ calcPc = "scan" /\ row > Len(list)
  /\ calcRunning' = FALSE
  /\ calcPc' = "assign" /\ row' = 1
  /\ ByCalc /\ UNCHANGED <<calcPipe, scanning, headMode, node, numOfVertex, mutexes, cnt, waitAP>>

\* pVertexColor[row] is not 0xff.
HasChannel(a) == a \in DcaEnabled /\ work[a] = "operational" /\ scanReturn[a] = "OK"

SetChannel ==
  /\ calcPc = "assign"
  /\ IF row <= Len(list) /\ (HasChannel(list[row]) => list[row] \in peers)
     THEN row' = row + 1 /\ UNCHANGED calcPc
     ELSE calcPc' = "restart" /\ UNCHANGED row
  /\ ByCalc /\ UNCHANGED <<calcPipe, scanning, headMode, node, numOfVertex, mutexes, calcRunning,
                           cnt, waitAP>>

\* The locals, and the work states the calculation has read, are dead now.
Restart ==
  /\ calcPc = "restart"
  /\ calcRunning' = FALSE
  /\ headDepth' = headDepth - 1
  /\ headOwner' = IF headDepth = 1 THEN "none" ELSE headOwner
  /\ calcPc' = "idle"
  /\ row' = 1 /\ cnt' = 0 /\ waitAP' = FALSE
  /\ work' = [a \in AP |-> "other"]
  /\ ByCalc /\ UNCHANGED <<calcPipe, scanning, headMode, nodeMode, scanReturn, numOfVertex, sdpHeld>>

CalcStep ==
  \/ Idle \/ CheckAP \/ CheckPipe \/ Prepare \/ ResetPower \/ Lock
  \/ updateSPRelatedInfo \/ VisitNode \/ WaitSspp \/ SsppTimeout \/ RequestScan
  \/ AwaitScan \/ SearchThreshold \/ SetChannel \/ Restart

Next == Outside \/ AcpStep \/ CalcStep

Spec == Init /\ [][Next]_vars

\* Both tasks are scheduled for ever, and every select has a time-out; the
\* tasks outside need not do anything.
FairSpec == Spec /\ WF_vars(AcpStep) /\ WF_vars(CalcStep)
-----------------------------------------------------------------------------
TypeOK ==
  /\ peers \subseteq AP /\ state \in [AP -> WorkStates]
  /\ scanning \subseteq AP /\ events \in 0..MaxEvents /\ untold \in BOOLEAN
  /\ acpPipe \in Seq(Msgs) /\ Len(acpPipe) <= AcpPipeMax
  /\ calcPipe \in Seq(Cmds) /\ Len(calcPipe) <= CalcPipeMax
  /\ acpRunning \in BOOLEAN /\ calcRunning \in BOOLEAN
  /\ acpPc \in {"boot", "created", "select", "delay", "update", "write"}
  /\ acpMsg \in Msgs \cup {Nothing}
  /\ justBoot \in BOOLEAN /\ assignFlag \in BOOLEAN
  /\ list \in Seq(AP)
  /\ headMode \in HeadModes /\ nodeMode \in [AP -> NodeModes]
  /\ scanReturn \in [AP -> ScanReturns] /\ work \in [AP -> WorkStates]
  /\ numOfVertex \in 0..Cardinality(AP)
  /\ headOwner \in {"none", "acp", "calc"} /\ headDepth \in Nat /\ sdpHeld \in BOOLEAN
  /\ calcPc \in {"unborn", "idle", "checkAP", "checkPipe", "prepare", "power", "lock", "info",
                 "scan", "sspp", "wait", "assign", "restart"}
  /\ row \in 1..Cardinality(AP) + 1 /\ cnt \in 0..MaxChecks + SsppRounds /\ waitAP \in BOOLEAN

Calculating == calcPc \in {"info", "scan", "sspp", "wait", "assign", "restart"}

\* updateSPInfo blocks "if calcTask hasn't exited" (dcs.c:4935): the node
\* list, over which calc walks with bare pointers, never changes during a
\* calculation.
ListStable == [][Calculating => list' = list]_vars

\* A command to start that ACP has written is never thrown away: only the
\* idle task takes one out of the pipe, though every wait on the pipe ignores
\* those it meets (dcs.c:3099, 4195).
StartNotLost ==
  [][calcPipe # <<>> /\ calcPipe' = Tail(calcPipe) /\ Got = Start => calcPc = "idle"]_vars

\* ACP follows SDP: the messages ACP has not handled yet turn its list into
\* SDP's, unless a peer came or went before ACP could be told.
Pending == (IF acpMsg = Nothing THEN <<>> ELSE <<acpMsg>>) \o acpPipe

News(a) == {i \in 1..Len(Pending) : Pending[i].ap = a /\ Pending[i].cmd \in {"ADD", "DEL"}}

ListFollowsPeers ==
  acpPc # "boot" /\ ~untold =>
    \A a \in AP :
      a \in peers <=> IF News(a) = {} THEN a \in Nodes
                      ELSE \E i \in News(a) :
                             (\A j \in News(a) : j <= i) /\ Pending[i].cmd = "ADD"

\* What calc has not read yet is bounded by the news ACP has handled: a stop
\* and a start for each, the start of the boot, and an answer per access
\* point.  As long as that fits CALCTASK_PIPE_MAX_MSGS nobody blocks on the
\* pipe of calc.
PipeBound == Len(calcPipe) <= 2 * (MaxEvents - events) + 1 + Cardinality(AP)

\* headDCA.semMutex is held exactly while a calculation runs or ACP writes a
\* start, never by both, and SSPP is asked for answers only inside a
\* calculation: every way out of one (a stop, a missing peer, the end) goes
\* through CALC_RESTART (dcs.c:4761-4771), which leaves nothing behind.
MutexDiscipline ==
  /\ Calculating <=> headOwner = "calc"
  /\ acpPc = "write" <=> headOwner = "acp"
  /\ headDepth = IF headOwner = "none" THEN 0 ELSE 1
  /\ calcRunning => Calculating
  /\ calcPc \in {"info", "scan", "sspp", "wait"} => calcRunning

\* What holds between any two steps of the tasks: ACP's list follows SDP's,
\* the pipe of calc stays bounded and the mutex is where it should be.
TasksInv == TypeOK /\ ListFollowsPeers /\ PipeBound /\ MutexDiscipline

\* Once nothing new happens both tasks come to rest, with every message
\* handled and every calculation that was due done.
Quiesces ==
  <>[](/\ acpPc = "select" /\ acpPipe = <<>> /\ ~justBoot /\ ~assignFlag
       /\ calcPc = "idle" /\ calcPipe = <<>>)
\* "the peerList will be destined to be identical to pACPNodeList"
\* (dcs.c:4221) whatever comes and goes while calc is at work, unless a peer
\* came or went before ACP could be told.
ListsBecomeIdentical == <>[](untold \/ Nodes = peers)

\* The colour scheme "points to memory which records colors of every vertexs"
\* (dcs.h:283).  It has room for each node from the moment it is set up; what
\* takes the room away is a node that ACP adds after setupColorScheme and
\* before calc has taken the mutex for the calculation, and nothing else.
Prepared == Calculating \/ calcPc \in {"power", "lock"}

RoomLostByAddition ==
  [][Prepared' /\ Len(list') > numOfVertex' =>
       \/ Prepared /\ Len(list) > numOfVertex
       \/ calcPc \in {"power", "lock"} /\ acpPc = "update" /\ acpMsg.cmd = "ADD"]_vars

\* A calculation that is due is started, unless ACP handles the deletion of a
\* node first, which calls it off (dcs.c:2601) although the list has changed.
DueIsStarted ==
  assignFlag ~> \/ \E i \in 1..Len(calcPipe) : calcPipe[i] = Start
                \/ acpPc = "update" /\ acpMsg.cmd = "DEL"
-----------------------------------------------------------------------------
(* What a comment of dcs.c says, and the code does otherwise.              *)

\* "save scanning time only when the scanning result has been returned
\* sucessfully" (dcs.c:107): the result credited to a node is its own.
AnswerIsOwn ==
  [][calcPc = "wait" /\ calcPc' # "wait" /\ Got.cmd = "SCAN_RETURN" => Got.ap = list[row]]_vars
=============================================================================
