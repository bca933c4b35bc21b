------------------------------ MODULE Selection ------------------------------
(***************************************************************************)
(* Which machine a mission goes to (adapter_node.py, _select_machine), as  *)
(* operators over the records the adapter keeps of what it has heard.      *)
(*                                                                         *)
(* Capabilities are stripped and lower-cased on both sides before they are *)
(* compared; here they are the members of a set.                           *)
(***************************************************************************)
EXTENDS OSContract, FiniteSets

CONSTANTS
  Capabilities,  \* what a mission may ask for
  MinBattery,    \* min_battery_percent
  Mains,         \* battery of a machine with has_battery = False
  Unnamed,       \* an empty msg.machine_id
  Place,         \* [Machines -> Nat]: the alphabetical order of the ids
  NoRecord       \* the adapter has no record of the machine

ASSUME SelectionAssumption ==
  /\ IsFiniteSet(Machines)
  /\ MinBattery \in Nat
  /\ Mains \notin Nat
  /\ Unnamed \notin Machines
  /\ Place \in [Machines -> Nat]
  /\ \A m, n \in Machines : Place[m] = Place[n] => m = n

MachineStates == {"AVAILABLE", "ASSIGNED", "RUNNING", "COMPLETED", "EXCEPTION"}
Connections   == {"ONLINE", "OFFLINE", "CONNECTION_BROKEN"}
Messages ==
  [id : Machines \cup {Unnamed}, connection : Connections, state : MachineStates,
   capabilities : SUBSET Capabilities, battery : Nat \cup {Mains}]

\* MachineRecord.  lapsed: more than stale_after_sec since last_seen.
MachineRecords == [msg : Messages, lapsed : BOOLEAN, reported_stale : BOOLEAN]

ASSUME NoRecordAssumption == NoRecord \notin MachineRecords

Heard(fleet) == {m \in Machines : fleet[m] # NoRecord}

Capable(fleet, wanted) ==
  {m \in Heard(fleet) : wanted \in fleet[m].msg.capabilities}

\* Slip: a machine that has fallen silent stays eligible.
EligibleThoughSilent(fleet, m) ==
  /\ fleet[m].msg.connection = "ONLINE"
  /\ fleet[m].msg.state = "AVAILABLE"
  /\ fleet[m].msg.battery # Mains => fleet[m].msg.battery >= MinBattery

Eligible(fleet, m) ==
  /\ ~fleet[m].lapsed
  /\ fleet[m].msg.connection = "ONLINE"
  /\ fleet[m].msg.state = "AVAILABLE"
  /\ fleet[m].msg.battery # Mains => fleet[m].msg.battery >= MinBattery

Candidates(fleet, wanted) == {m \in Capable(fleet, wanted) : Eligible(fleet, m)}

\* The highest battery first, mains power above all; the id breaks a tie.
Precedes(fleet, m, n) ==
  LET b == fleet[m].msg.battery
      c == fleet[n].msg.battery
  IN  \/ b = Mains /\ c # Mains
      \/ b # Mains /\ c # Mains /\ b > c
      \/ b = c /\ Place[m] < Place[n]

SelectMachine(fleet, wanted) ==
  LET candidates == Candidates(fleet, wanted)
  IN  IF candidates = {}
        THEN NoMachine
        ELSE CHOOSE m \in candidates :
               \A n \in candidates \ {m} : Precedes(fleet, m, n)

\* Why nothing was selected: the two call for different reactions.
Refusal(fleet, wanted) ==
  IF Capable(fleet, wanted) = {} THEN "no_machine_with_capability" ELSE "no_available_machine"
=============================================================================
