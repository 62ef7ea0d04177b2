----------------------------- MODULE RebootSync -----------------------------
(***************************************************************************)
(* What the programs that synchronise a reboot promise, whatever they      *)
(* synchronise with: a coordinator asks participants to save their files,  *)
(* and says that all have done so only when every participant it asked has *)
(* saved.  It may give up at any time.                                     *)
(*                                                                         *)
(* FifoSync (fifo/sync_process_with_fifo) and SemSync (sem_test) are shown *)
(* to implement this specification.                                        *)
(***************************************************************************)
CONSTANT Participants

VARIABLES asked,     \* the participants the coordinator waits for
          saved,     \* those whose files are saved
          verdict    \* how the coordinator's run ended

Init ==
  /\ asked = {}
  /\ saved = {}
  /\ verdict = "none"

(* A run begins; what was saved before it may be of use to it or not.      *)
Start ==
  /\ verdict # "waiting"
  /\ verdict' = "waiting"
  /\ asked' \in SUBSET Participants
  /\ saved' \in SUBSET saved

Ask(p) ==
  /\ verdict = "waiting"
  /\ asked' = asked \cup {p}
  /\ UNCHANGED <<saved, verdict>>

Save(p) ==
  /\ saved' = saved \cup {p}
  /\ UNCHANGED <<asked, verdict>>

AllSaved ==
  /\ verdict = "waiting"
  /\ asked # {}
  /\ asked \subseteq saved
  /\ verdict' = "all"
  /\ UNCHANGED <<asked, saved>>

GiveUp ==
  /\ verdict = "waiting"
  /\ verdict' = "timeout"
  /\ UNCHANGED <<asked, saved>>

Next ==
  \/ Start \/ AllSaved \/ GiveUp
  \/ \E p \in Participants : Ask(p) \/ Save(p)

Spec == Init /\ [][Next]_<<asked, saved, verdict>>

=============================================================================
