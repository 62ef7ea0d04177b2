------------------------------- MODULE DcaRfa -------------------------------
(***************************************************************************)
(* The channels of one access point in src/DCS/dcs.c, from calculation to  *)
(* calculation: its radio configuration (getChNFromPeerList), the score of *)
(* interference of the eleven channels after a scan, the order in which    *)
(* the three channels are tried (sort, decideOptionalCh, doRfa), and the   *)
(* primary and secondary channel it is sent (setPowerOrCh).                *)
(*                                                                         *)
(* s_rfa is a pair of arrays that sort permutes in place, so that an index *)
(* is a channel before the first sort and a rank after it.                 *)
(***************************************************************************)
EXTENDS Integers, FiniteSets, SequencesExt

CONSTANTS
  Scans,        \* what a scan may hear: sets of [ch, rssi]
  Assigned,     \* what earlier vertices may have: sets of [ch, rssi]
  Configured    \* the channels a user may have fixed, and 0

Using == 1 .. 11              \* NUM_USING_CHANNEL
Slots == 0 .. 2               \* OPTIONAL_CHANNEL_NUM
Channels == {1, 6, 11}
Invalid  == 255               \* 0xff

MainModes == {"11G_24", "11A_50", "11N_24", "11N_50"}
Bands     == {"auto", "standard", "wide"}

Signal == [ch : 0 .. 11, rssi : Nat]

ASSUME RfaAssumption ==
  /\ \A S \in Scans \cup Assigned : IsFiniteSet(S) /\ \A s \in S : s \in Signal
  /\ Configured \subseteq Nat /\ 0 \in Configured

VARIABLES
  ch, width, fixed,   \* s_radioInfo[1].ch[0] and enum_modeAndBand
  rfa,                \* s_rfa: score and ch, by index
  noise,              \* history: the score of each channel in the last scan
  given,              \* history: the vertices counted when optionalCh was set
  optionalCh,
  scanned,            \* m_scanReturn is SSPP_RETURN_OK
  color,              \* pVertexColor of this vertex
  primary, secondary, \* dynamicChAssign[1]
  pc                  \* "info", "scan", "decide", "assign", "ready", "send", "sent"

vars == <<ch, width, fixed, rfa, noise, given, optionalCh, scanned, color, primary, secondary, pc>>

Plain == [score |-> [i \in Using |-> 0], ch |-> [i \in Using |-> i]]

Forgotten == [score |-> [i \in Using |-> 0], ch |-> [i \in Using |-> 0]]

NoChoice == [i \in Slots |-> 0]

Init ==
  /\ ch = 0 /\ width = 20 /\ fixed = FALSE
  /\ rfa = Forgotten /\ noise = Plain.score /\ given = {}
  /\ optionalCh = NoChoice
  /\ scanned = FALSE
  /\ color = 0
  /\ primary = Invalid /\ secondary = Invalid
  /\ pc = "info"
-----------------------------------------------------------------------------
Abs(x) == IF x < 0 THEN -x ELSE x

\* rfaGetInterferenceCoefChan (and ...Freq): the farther, the less it counts.
Coef(a, b) == 1 + Abs(a - b)

\* What the signals add to the score of channel c, within four channels.
Interference(signals, c) ==
  FoldLeft(LAMBDA acc, s : acc + s.rssi \div Coef(c, s.ch), 0,
           SetToSeq({s \in signals : Abs(s.ch - c) <= 4}))

\* The RFA part of the scan loop (dcs.c:4437-4541).
Evaluate(signals) ==
  IF signals # {} /\ ch = 0
  THEN [score |-> [i \in Using |-> Interference(signals, i)], ch |-> Plain.ch]
  ELSE Plain

\* doRfa adds the effect of the vertices that have a channel already.
AddAssigned(r, signals) ==
  [r EXCEPT !.score = [i \in Using |-> @[i] + Interference(signals, r.ch[i])]]

Swap(r, i, k) ==
  [score |-> [r.score EXCEPT ![i] = r.score[k], ![k] = r.score[i]],
   ch    |-> [r.ch EXCEPT ![i] = r.ch[k], ![k] = r.ch[i]]]

\* The first index from i on with the least score.
Least(r, i) ==
  CHOOSE k \in i .. 11 :
    \A j \in i .. 11 : r.score[k] < r.score[j] \/ (r.score[k] = r.score[j] /\ k <= j)

\* The two loops of sort: a selection sort by score, ascending.
SelectionSort(r) ==
  FoldLeft(LAMBDA acc, i : Swap(acc, i, Least(acc, i)), r, [i \in Using |-> i])

\* The three channels in the order in which they stand in r; op is left
\* alone when r has none.
TakeOut(r, op) ==
  LET places == {i \in Using : r.ch[i] \in Channels}
      Rank(i) == Cardinality({j \in places : j < i})
  IN [k \in Slots |->
        IF \E i \in places : Rank(i) = k
        THEN r.ch[CHOOSE i \in places : Rank(i) = k] ELSE op[k]]

\* getRandomWithoutReduplicate(1, 11, 11, ...): the three in any order.
Shuffled == {f \in [Slots -> Channels] : \A c \in Channels : \E i \in Slots : f[i] = c}

\* Mutation: the channels are taken out before the sort.
sortLate(r, op) ==
  IF \E i \in Using : r.score[i] > 0
  THEN {[rfa |-> SelectionSort(r), op |-> TakeOut(r, op)]}
  ELSE {[rfa |-> r, op |-> f] : f \in Shuffled}

\* sort(r, op): what it may leave in its two arguments.
sort(r, op) ==
  IF \E i \in Using : r.score[i] > 0
  THEN LET sorted == SelectionSort(r) IN {[rfa |-> sorted, op |-> TakeOut(sorted, op)]}
  ELSE {[rfa |-> r, op |-> f] : f \in Shuffled}
-----------------------------------------------------------------------------
\* Mutation: the width is looked at in place of the channel.
getChNWide(mode, band, c) ==
  /\ ch' = IF mode \in {"11N_24", "11N_50"} /\ band = "auto" THEN 0 ELSE c
  /\ width' = IF mode \in {"11N_24", "11N_50"} /\ band # "standard" THEN 40 ELSE 20
  /\ fixed' = (width' = 20 /\ c # 0)

\* getChNFromPeerList: the channel a user has fixed for this mode and band,
\* or none.  A band chosen by the access point is 40 MHz and never fixed.
getChNFromPeerList(mode, band, c) ==
  /\ ch' = IF mode \in {"11N_24", "11N_50"} /\ band = "auto" THEN 0 ELSE c
  /\ width' = IF mode \in {"11N_24", "11N_50"} /\ band # "standard" THEN 40 ELSE 20
  /\ fixed' = (ch' # 0)

UpdateInfo ==
  /\ pc = "info"
  /\ \E mode \in MainModes, band \in Bands, c \in Configured : getChNFromPeerList(mode, band, c)
  /\ pc' = "scan"
  /\ UNCHANGED <<rfa, noise, given, optionalCh, scanned, color, primary, secondary>>

\* A scan result has arrived.
ScanRfa ==
  /\ pc = "scan"
  /\ \E signals \in Scans :
       rfa' = Evaluate(signals) /\ noise' = Evaluate(signals).score
  /\ scanned' = TRUE
  /\ pc' = "decide"
  /\ UNCHANGED <<ch, width, fixed, given, optionalCh, color, primary, secondary>>

\* No scan result within the time: the vertex is left out (dcs.c:4187).
ScanTimeout ==
  /\ pc = "scan"
  /\ rfa' = Forgotten
  /\ scanned' = FALSE
  /\ pc' = "info"
  /\ UNCHANGED <<ch, width, fixed, noise, given, optionalCh, color, primary, secondary>>

\* The last scan is recent enough: the node is passed over (dcs.c:4057).
KeepScan ==
  /\ pc = "scan" /\ scanned
  /\ pc' = "assign"
  /\ UNCHANGED <<ch, width, fixed, rfa, noise, given, optionalCh, scanned, color, primary, secondary>>

\* The last command to the access point is not completed in time: the node
\* is passed over, and keeps the m_scanReturn of its last scan (dcs.c:4123).
SsppTimeout ==
  /\ pc = "scan" /\ scanned
  /\ rfa' = Forgotten
  /\ pc' = "assign"
  /\ UNCHANGED <<ch, width, fixed, noise, given, optionalCh, scanned, color, primary, secondary>>

\* The order after the scan (dcs.c:4545-4573).
DecideOptionalCh ==
  /\ pc = "decide"
  /\ IF ch # 0
     THEN optionalCh' = NoChoice /\ UNCHANGED rfa
     ELSE \E o \in sort(rfa, optionalCh) : rfa' = o.rfa /\ optionalCh' = o.op
  /\ given' = {}
  /\ pc' = "assign"
  /\ UNCHANGED <<ch, width, fixed, noise, scanned, color, primary, secondary>>

\* Mutation: the scores of this attempt stay in s_rfa.
DoRfaInPlace ==
  /\ pc = "assign"
  /\ IF ch # 0
     THEN optionalCh' = NoChoice /\ UNCHANGED <<rfa, given>>
     ELSE \E signals \in Assigned :
            /\ \E o \in sort(AddAssigned(rfa, signals), optionalCh) :
                 rfa' = o.rfa /\ optionalCh' = o.op
            /\ given' = signals
  /\ pc' = "ready"
  /\ UNCHANGED <<ch, width, fixed, noise, scanned, color, primary, secondary>>

\* doRfa, in each frame of giveOneAssign but the first: the order for this
\* branch of the search, on a copy of s_rfa.
DoRfa ==
  /\ pc = "assign"
  /\ IF ch # 0
     THEN optionalCh' = NoChoice /\ UNCHANGED given
     ELSE \E signals \in Assigned :
            /\ \E o \in sort(AddAssigned(rfa, signals), optionalCh) : optionalCh' = o.op
            /\ given' = signals
  /\ pc' = "ready"
  /\ UNCHANGED <<ch, width, fixed, rfa, noise, scanned, color, primary, secondary>>

\* giveOneAssign takes one of the channels (DcaColor).
TakeColor ==
  /\ pc \in {"assign", "ready"}
  /\ \E i \in Slots : color' = optionalCh[i]
  /\ pc' = "send"
  /\ UNCHANGED <<ch, width, fixed, rfa, noise, given, optionalCh, scanned, primary, secondary>>

\* The secondary channel of a 40 MHz radio.
SecondaryOf(p) ==
  IF p <= 4 THEN p + 4
  ELSE IF p >= 8 THEN p - 4
  ELSE IF rfa.score[p + 4] > rfa.score[p - 4] THEN p - 4 ELSE p + 4

\* setPowerOrCh(NULL, SET_CHANNEL, 0) for this access point.
SetChannel ==
  /\ pc = "send"
  /\ primary' = IF fixed THEN Invalid ELSE color
  /\ secondary' = IF fixed \/ width = 20 THEN Invalid ELSE SecondaryOf(color)
  /\ pc' = "sent"
  /\ UNCHANGED <<ch, width, fixed, rfa, noise, given, optionalCh, scanned, color>>

\* The next calculation.
NextCalculation ==
  /\ pc = "sent"
  /\ pc' = "info"
  /\ color' = 0 /\ primary' = Invalid /\ secondary' = Invalid
  /\ UNCHANGED <<ch, width, fixed, rfa, noise, given, optionalCh, scanned>>

Next == UpdateInfo \/ ScanRfa \/ ScanTimeout \/ KeepScan \/ SsppTimeout \/ DecideOptionalCh
          \/ DoRfa \/ TakeColor \/ SetChannel \/ NextCalculation

Spec == Init /\ [][Next]_vars
-----------------------------------------------------------------------------
Rated == rfa # Forgotten

Ordered ==
  LET Total(c) == noise[c] + Interference(given, c)
  IN \A i, j \in Slots : i < j => Total(optionalCh[i]) <= Total(optionalCh[j])

\* sort permutes s_rfa in place and doRfa works on a copy of it: over any
\* number of calculations and attempts each channel keeps the score of its
\* scan (dcs.c:995-1011, 3215, and the comment at 3399).
ScoresFollowChannels ==
  Rated =>
    /\ \A c \in Using : \E i \in Using : rfa.ch[i] = c
    /\ \A i \in Using : rfa.score[i] = noise[rfa.ch[i]]

\* A vertex with a choice tries all of 1, 6 and 11, from the quietest to the
\* noisiest, counting what its scan has heard and the vertices before it
\* (dcs.c:1017-1043, 3219-3319).
QuietestFirst ==
  Rated /\ pc \in {"assign", "ready", "send"} /\ optionalCh # NoChoice =>
    optionalCh \in Shuffled /\ Ordered

\* The colouring and setPowerOrCh read the configuration in two forms, ch and
\* enum_modeAndBand: a vertex that is free for the one is sent its colour by
\* the other, with a secondary channel that exists and is four away, and a
\* fixed one is sent no channel (dcs.c:1187-1241).
SentAsAssigned ==
  pc = "sent" =>
    /\ ch = 0 => primary = color
    /\ ch # 0 => primary = Invalid /\ secondary = Invalid
    /\ secondary # Invalid => secondary \in Using /\ Abs(secondary - primary) = 4
=============================================================================
