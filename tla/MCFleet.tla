------------------------------- MODULE MCFleet -------------------------------
(* Small instances of Fleet for TLC. *)
EXTENDS FleetProperties

CONSTANTS m1, cleaning, t1, t2, w1

MCPlace == [m \in Machines |-> 1]

Message(id, state, battery) ==
  [id |-> id, connection |-> "ONLINE", state |-> state,
   capabilities |-> {cleaning}, battery |-> battery]

\* A machine is idle or at work.  (The proofs cover machines that speak under
\* another id, or under none.)
MCSays == [c \in Topics |->
  {Message(c, "AVAILABLE", 50), Message(c, "RUNNING", 40)}]
=============================================================================
