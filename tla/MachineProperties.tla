------------------------- MODULE MachineProperties -------------------------
(***************************************************************************)
(* What SimulatedMachine must do, stated over the model in Machine.        *)
(***************************************************************************)
EXTENDS Machine

\* Every variable stays in its domain; a heartbeat in preparation is a message.
TypeOK ==
  /\ state \in States
  /\ currentMission \in Missions
  /\ missionErrors \in SUBSET ErrorCodes
  /\ target \in Missions
  /\ resetTimer \in Missions
  /\ timer \in [Goals -> TimerStates]
  /\ battery \in Nat
  /\ hasBattery \in BOOLEAN
  /\ batteryDead \in BOOLEAN
  /\ deathAnnounced \in BOOLEAN
  /\ faultTicksLeft \in Nat
  /\ link \in Links
  /\ status \in [Goals -> Statuses]
  /\ pc \in [Goals -> Pcs]
  /\ step \in [Goals -> Nat]
  /\ steps \in [Goals -> Nat]
  /\ outcome \in [Goals -> Outcomes]
  /\ result \in [Goals -> Results]
  /\ heartbeat \in {NoBeat} \cup Beats
  /\ published \in {NoMessage} \cup Messages

-----------------------------------------------------------------------------
(* Safety *)

\* The code between the acceptance of a goal and the end of _finish.
InMission(g) == pc[g] \in {"starting", "planning", "loop", "working", "finishing"}

\* The machine holds one mission at a time, and the state and mission id it
\* publishes are those of the mission its thread is executing: two goals that
\* both passed the unlocked checks are decided by the lock in _on_goal_request.
OneMissionAtATime ==
  \A g \in Goals : InMission(g) =>
    /\ currentMission = g
    /\ state = IF pc[g] = "starting" THEN "ASSIGNED" ELSE "RUNNING"
    /\ \A h \in Goals \ {g} : status[h] \notin Active /\ ~InMission(h)

\* A reset timer is running, or has fired and waits for the lock, exactly for
\* the mission whose terminal state the machine is showing: no timer of an
\* earlier mission can cut short a later one, and no terminal state is left
\* without a timer to end it.
ResetTimerBelongsToMission ==
  \A g \in Goals :
    /\ timer[g] \in {"armed", "fired"}
         <=> /\ state \in Terminal
             /\ currentMission = g
    /\ timer[g] \in {"armed", "fired"} => resetTimer = g

\* The Result a client gets agrees with the status of its goal, for every
\* mission whose callback ran to its end.
ResultAgreesWithStatus ==
  \A g \in Goals :
    (/\ result[g] # NoResult
     /\ TargetOf[g] = "finite")
       => /\ status[g] \in Ended
          /\ result[g].result_state = "RESULT_COMPLETED" <=> status[g] = "succeeded"
          /\ result[g].error_code = "MISSION_CANCELLED" <=> status[g] = "canceled"

\* The terminal state on show is the one that goes with the mission's verdict,
\* and the codes of one mission never show under another: an idle machine has
\* no mission, no target and no codes.
ShownStateAgreesWithMission ==
  /\ state \in Terminal =>
       /\ currentMission \in Goals
       /\ status[currentMission] \in Ended
       /\ state = "COMPLETED" <=> status[currentMission] = "succeeded"
       /\ target = NoMission
  /\ state \in {"AVAILABLE", "ASSIGNED", "RUNNING", "COMPLETED"} => missionErrors = {}
  /\ state = "AVAILABLE" => currentMission = NoMission

\* The health a message carries and the codes that explain it come from two
\* separate tables of thresholds (_update_health, _build_message): every FAULT
\* and DEGRADED that is sent is explained by a code, and the battery's faults are
\* not blamed on the sensor.
HeartbeatExplainsHealth ==
  published # NoMessage =>
    /\ published.health = "FAULT" <=>
         published.errors \cap {"BATTERY_DEPLETED", "BATTERY_CRITICAL",
                               "SIM_SENSOR_GLITCH"} # {}
    /\ published.health = "DEGRADED" <=>
         published.errors \cap {"BATTERY_LOW", "SIM_SENSOR_GLITCH"} = {"BATTERY_LOW"}
    /\ "BATTERY_DEPLETED" \in published.errors =>
         "SIM_SENSOR_GLITCH" \notin published.errors

-----------------------------------------------------------------------------
(* Action properties *)

\* A flat battery has the last word: after the message that carries
\* BATTERY_DEPLETED nothing is transmitted, whatever happens to the mission, to
\* the link or to has_battery.
FlatBatteryHasLastWord ==
  [][("BATTERY_DEPLETED" \in published.errors) => UNCHANGED published]_vars

-----------------------------------------------------------------------------
(* Refinement *)

VerdictOf(s) ==
  CASE s = "rejected" -> "refused"
    [] s \in Ended    -> s
    [] OTHER          -> "open"

Lifecycle ==
  INSTANCE MissionLifecycle WITH
    phase   <- state,
    holder  <- currentMission,
    verdict <- [g \in Goals |-> VerdictOf(status[g])]

\* Every step of the machine is a step of the lifecycle in the header of
\* machine_node.py, or none.
ImplementsLifecycle == Lifecycle!SafeSpec

\* What a client sees of a goal: rclpy aborts one whose callback raised, and the
\* Result it makes up reads as completed.
SeenOf(s, r) ==
  CASE s = "unknown"   -> "open"
    [] s = "rejected"  -> "refused"
    [] s \in Active    -> "accepted"
    [] s = "aborted"   -> IF r.result_state = "RESULT_COMPLETED" THEN "raised" ELSE s
    [] s \in {"succeeded", "canceled"} -> s

AnswerOf(r) ==
  IF r = NoResult THEN "none"
  ELSE IF r.result_state = "RESULT_COMPLETED" THEN "COMPLETED" ELSE "EXCEPTION"

Contract ==
  INSTANCE GoalContract WITH
    goal   <- [g \in Goals |-> SeenOf(status[g], result[g])],
    answer <- [g \in Goals |-> AnswerOf(result[g])]

\* A goal has one verdict and one Result, which agree, whatever race of cancel
\* requests, resets and raising callbacks decided it; no second goal is accepted
\* before the first has ended.
KeepsGoalContract == Contract!SafeSpec

-----------------------------------------------------------------------------
(* Liveness *)

\* When every target is a number: an accepted mission starts, is decided and
\* shown, and the machine becomes available again.
CarriesMissionsToTheEnd == Lifecycle!Spec

\* When every target is a number, every client that was accepted gets its Result,
\* whatever becomes of the mission, the battery and the link meanwhile.
EveryGoalIsAnswered ==
  \A g \in Goals : (status[g] \in Active) ~> (result[g] # NoResult)

-----------------------------------------------------------------------------
(* What the documents say and the code does not do *)

\* machine_node.py: "AVAILABLE -> ASSIGNED -> RUNNING -> COMPLETED | EXCEPTION
\* -> AVAILABLE".  A machine that took a mission becomes available again.
BecomesAvailableAgain == (state # "AVAILABLE") ~> (state = "AVAILABLE")

\* machine-layer/README.md: "One last heartbeat, then the machine stops
\* publishing [...] Any mission already running aborts with BATTERY_DEPLETED
\* first".  The last heartbeat does not show a running mission.
MissionAbortsBeforeLastHeartbeat ==
  ("BATTERY_DEPLETED" \in published.errors) => (published.state # "RUNNING")

-----------------------------------------------------------------------------
(* The inductive invariant behind the safety properties *)

\* What a callback is about to return agrees with how it left the goal.
Agrees(o, s) ==
  \/ o = "completed" /\ s = "succeeded"
  \/ o = "cancelled" /\ s = "canceled"
  \/ o \in {"depleted", "obstacle"} /\ s = "aborted"

\* A goal's status follows its thread.
ThreadInv ==
  \A g \in Goals :
    /\ pc[g] \in {"unsent", "admitting"} => status[g] = "unknown"
    /\ pc[g] \in {"starting", "planning", "loop", "working"} => status[g] \in Active
    /\ pc[g] = "finishing" => Agrees(outcome[g], status[g])
    /\ pc[g] = "returning" =>
         \/ Agrees(outcome[g], status[g])
         \/ /\ outcome[g] = "raised"
            /\ status[g] \in Active
            /\ TargetOf[g] # "finite"
    /\ pc[g] = "done" => status[g] \in {"rejected"} \cup Ended
    /\ result[g] # NoResult =>
         /\ pc[g] = "done"
         /\ status[g] \in Ended

\* A goal that is live holds the machine.
HolderInv ==
  /\ \A g \in Goals :
       /\ InMission(g) \/ status[g] \in Active =>
            /\ currentMission = g
            /\ state \in {"ASSIGNED", "RUNNING"}
       /\ InMission(g) => state = IF pc[g] = "starting" THEN "ASSIGNED" ELSE "RUNNING"
       /\ currentMission = g => pc[g] \notin {"unsent", "admitting"}
  /\ state = "AVAILABLE" <=> currentMission = NoMission
  /\ state \in Terminal =>
       /\ status[currentMission] \in Ended
       /\ state = "COMPLETED" <=> status[currentMission] = "succeeded"
  /\ target # NoMission => state = "RUNNING"
  /\ missionErrors # {} => state = "EXCEPTION"

\* Death is latched and announced in one step, and the code BATTERY_DEPLETED is
\* nowhere, in the mission's codes, in a message under way or on the air,
\* before it; once on the air, a message under way is one that will not be sent.
DeathInv ==
  /\ deathAnnounced = batteryDead
  /\ "BATTERY_DEPLETED" \in missionErrors => batteryDead
  /\ \A g \in Goals : outcome[g] = "depleted" => batteryDead
  /\ heartbeat # NoBeat =>
       /\ heartbeat.newlyDead => heartbeat.dead
       /\ heartbeat.dead => batteryDead
       /\ ~heartbeat.dead => "BATTERY_DEPLETED" \notin heartbeat.msg.errors
  /\ "BATTERY_DEPLETED" \in published.errors =>
       /\ batteryDead
       /\ heartbeat # NoBeat => heartbeat.dead /\ ~heartbeat.newlyDead

IInv ==
  /\ TypeOK
  /\ ThreadInv
  /\ HolderInv
  /\ ResetTimerBelongsToMission
  /\ ResultAgreesWithStatus
  /\ DeathInv
=============================================================================
