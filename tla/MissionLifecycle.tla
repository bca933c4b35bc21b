-------------------------- MODULE MissionLifecycle --------------------------
(***************************************************************************)
(* What the Mission action promises its clients, whoever implements it     *)
(* (Mission.action, and the lifecycle in the header of machine_node.py):   *)
(*                                                                         *)
(*   AVAILABLE -> ASSIGNED -> RUNNING -> COMPLETED | EXCEPTION -> AVAILABLE*)
(*                                                                         *)
(* A machine carries one mission at a time; a mission is refused at once   *)
(* or ends in exactly one verdict, and the terminal state the machine      *)
(* shows is the one that verdict calls for.                                *)
(***************************************************************************)
CONSTANTS Goals,        \* the goal requests that may be sent
          NoMission     \* "no mission": current_mission_id is empty

VARIABLES phase,        \* the lifecycle state the machine is in
          holder,       \* the mission that holds the machine, or NoMission
          verdict       \* [Goals -> Verdicts]

vars == <<phase, holder, verdict>>

Phases   == {"AVAILABLE", "ASSIGNED", "RUNNING", "COMPLETED", "EXCEPTION"}
Terminal == {"COMPLETED", "EXCEPTION"}
Endings  == {"succeeded", "aborted", "canceled"}
Verdicts == {"open", "refused"} \cup Endings

Init ==
  /\ phase = "AVAILABLE"
  /\ holder = NoMission
  /\ verdict = [g \in Goals |-> "open"]

\* An open goal is turned away; the machine is not touched.
Refuse(g) ==
  /\ g # holder
  /\ verdict[g] = "open"
  /\ verdict' = [verdict EXCEPT ![g] = "refused"]
  /\ UNCHANGED <<phase, holder>>

\* Only an idle machine takes a mission.
Accept(g) ==
  /\ phase = "AVAILABLE"
  /\ verdict[g] = "open"
  /\ phase' = "ASSIGNED"
  /\ holder' = g
  /\ UNCHANGED verdict

Begin ==
  /\ phase = "ASSIGNED"
  /\ phase' = "RUNNING"
  /\ UNCHANGED <<holder, verdict>>

\* The mission ends, once.  A mission that never started can only abort.
Decide(e) ==
  /\ phase \in {"ASSIGNED", "RUNNING"}
  /\ verdict[holder] = "open"
  /\ phase = "ASSIGNED" => e = "aborted"
  /\ verdict' = [verdict EXCEPT ![holder] = e]
  /\ UNCHANGED <<phase, holder>>

\* The machine shows the terminal state that goes with the verdict.
Land ==
  /\ phase = "RUNNING"
  /\ verdict[holder] \in Endings
  /\ phase' = IF verdict[holder] = "succeeded" THEN "COMPLETED" ELSE "EXCEPTION"
  /\ UNCHANGED <<holder, verdict>>

Release ==
  /\ phase \in Terminal
  /\ phase' = "AVAILABLE"
  /\ holder' = NoMission
  /\ UNCHANGED verdict

Next ==
  \/ \E g \in Goals : Refuse(g) \/ Accept(g)
  \/ Begin
  \/ \E e \in Endings : Decide(e)
  \/ Land
  \/ Release

\* What may happen ...
SafeSpec == Init /\ [][Next]_vars

\* ... and what must: a mission that was accepted is carried to its end and the
\* machine comes back.
Spec ==
  /\ SafeSpec
  /\ WF_vars(Begin)
  /\ WF_vars(\E e \in Endings : Decide(e))
  /\ WF_vars(Land)
  /\ WF_vars(Release)
=============================================================================
