---------------------------- MODULE OutcomeRelay ----------------------------
(***************************************************************************)
(* How the outcome of a mission may travel, whoever carries it: a machine  *)
(* ends the mission, the adapter notes how, sends reports of what it noted *)
(* and of nothing else, and the OS Core records what a report says, once.  *)
(*                                                                         *)
(*     ended  -->  noted  -->  carried  -->  recorded                      *)
(*                                                                         *)
(* Each station takes the outcome from the one before it.  Reports may be  *)
(* lost or arrive late, and a restart forgets what was noted; what was     *)
(* recorded stays.                                                         *)
(***************************************************************************)
CONSTANT Missions

VARIABLES ended,     \* how the mission ended at its machine
          noted,     \* what the adapter holds of that
          carried,   \* reports under way: pairs of a mission and an outcome
          recorded   \* what the OS Core has recorded

vars == <<ended, noted, carried, recorded>>

Outcomes == {"COMPLETED", "EXCEPTION"}

Init ==
  /\ ended    = [m \in Missions |-> "none"]
  /\ noted    = [m \in Missions |-> "none"]
  /\ carried  = {}
  /\ recorded = [m \in Missions |-> "none"]

End(m) ==
  /\ ended[m] = "none"
  /\ \E o \in Outcomes : ended' = [ended EXCEPT ![m] = o]
  /\ UNCHANGED <<noted, carried, recorded>>

Note(m) ==
  /\ ended[m] # "none"
  /\ noted[m] = "none"
  /\ noted' = [noted EXCEPT ![m] = ended[m]]
  /\ UNCHANGED <<ended, carried, recorded>>

Report(m) ==
  /\ noted[m] # "none"
  /\ carried' = carried \cup {<<m, noted[m]>>}
  /\ UNCHANGED <<ended, noted, recorded>>

Record(m) ==
  /\ recorded[m] = "none"
  /\ \E o \in Outcomes :
       <<m, o>> \in carried /\ recorded' = [recorded EXCEPT ![m] = o]
  /\ UNCHANGED <<ended, noted, carried>>

\* Reports that were answered, given up or lost on the way.
Lose ==
  /\ carried' \subseteq carried
  /\ UNCHANGED <<ended, noted, recorded>>

\* A restart of the adapter.
Forget ==
  /\ carried' \subseteq carried
  /\ noted' = [m \in Missions |-> "none"]
  /\ UNCHANGED <<ended, recorded>>

Next ==
  \/ Lose
  \/ Forget
  \/ \E m \in Missions : End(m) \/ Note(m) \/ Report(m) \/ Record(m)

SafeSpec == Init /\ [][Next]_vars
=============================================================================
