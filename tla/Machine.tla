------------------------------ MODULE Machine ------------------------------
(***************************************************************************)
(* One simulated machine (machine_node.py, class SimulatedMachine): the    *)
(* Mission action server, the thread that executes an accepted mission,    *)
(* the one-shot timer that returns the machine to AVAILABLE, and the 1 Hz  *)
(* heartbeat.  They share the attributes guarded by self._lock; an action  *)
(* below is one critical section of that lock together with the unlocked   *)
(* code that follows it up to the next point where another thread can be   *)
(* observed.                                                               *)
(*                                                                         *)
(* Abstracted: seq and position (no decision reads them but the number of  *)
(* steps, which PlanSteps chooses), the battery figure in a message (its   *)
(* error codes tell the band), the static identity fields, wall-clock      *)
(* time, and wording.  A goal is its own mission id.                       *)
(***************************************************************************)
EXTENDS Integers, FiniteSets

CONSTANTS
  Goals,            \* the goal requests sent to this machine
  NoMission,        \* the empty current_mission_id
  Capable,          \* goals whose capability_required this machine has
  Failing,          \* goals whose parameters carry simulate_failure
  TargetOf,         \* [Goals -> TargetKinds]: what their target coordinates are
  MissionSteps,     \* the mission_steps parameter; 0: work it out
  MinSteps,         \* MIN_MISSION_STEPS
  MaxSteps,         \* MAX_MISSION_STEPS
  FailureAtPercent, \* FAILURE_AT_PERCENT
  InitialBattery,   \* initial_battery_percent, in units of battery
  DrainRunning,     \* BATTERY_DRAIN_RUNNING, in the same units, per tick
  DrainIdle,        \* BATTERY_DRAIN_IDLE
  CriticalBelow,    \* BATTERY_CRITICAL_BELOW
  MissionMinimum,   \* BATTERY_MISSION_MINIMUM
  DegradedBelow,    \* BATTERY_DEGRADED_BELOW
  FaultProbability, \* the fault_probability parameter, as a percentage
  FaultBlipTicks,   \* FAULT_BLIP_TICKS
  LinkSettings,     \* the values sim_connection_status is given
  BatterySettings   \* the values has_battery is given

\* float(target) is a number, is inf or nan, or raises OverflowError.
TargetKinds == {"finite", "nonFinite", "overflow"}

ASSUME GoalsAssumption ==
  /\ NoMission \notin Goals
  /\ Capable \subseteq Goals
  /\ Failing \subseteq Goals
  /\ TargetOf \in [Goals -> TargetKinds]

ASSUME StepsAssumption ==
  /\ MissionSteps \in Nat
  /\ MinSteps \in Nat \ {0}
  /\ MaxSteps \in Nat
  /\ MinSteps <= MaxSteps
  /\ FailureAtPercent \in Nat

Links == {"online", "offline", "connection_broken"}

ASSUME SettingsAssumption ==
  /\ LinkSettings \subseteq Links
  /\ BatterySettings \subseteq BOOLEAN

ASSUME BatteryAssumption ==
  /\ {InitialBattery, DrainRunning, DrainIdle} \subseteq Nat
  /\ {CriticalBelow, MissionMinimum, DegradedBelow} \subseteq Nat \ {0}
  /\ {FaultProbability, FaultBlipTicks} \subseteq Nat

VARIABLES
  state,            \* _state
  currentMission,   \* _current_mission_id
  missionErrors,    \* _mission_errors, as the set of codes
  target,           \* _target: whose target the machine is driving to
  resetTimer,       \* _reset_timer: the goal whose _finish armed it
  timer,            \* [Goals -> TimerStates]: the threading.Timer threads
  battery,          \* _battery
  hasBattery,       \* _has_battery
  batteryDead,      \* _battery_dead
  deathAnnounced,   \* _death_announced
  faultTicksLeft,   \* _fault_ticks_left
  link,             \* the sim_connection_status parameter
  status,           \* [Goals -> Statuses]: the goal handles' status
  pc,               \* [Goals -> Pcs]: where the goal's callbacks stand
  step,             \* [Goals -> Nat]: the loop variable
  steps,            \* [Goals -> Nat]: its limit
  outcome,          \* [Goals -> Outcomes]: what _execute_mission is returning
  result,           \* [Goals -> Results]: the Result the client gets
  heartbeat,        \* the tick between its lock and its publish, or NoBeat
  published         \* the last MachineState sent, or NoMessage

missionVars == <<state, currentMission, missionErrors, target>>
timerVars   == <<resetTimer, timer>>
powerVars   == <<battery, hasBattery, batteryDead, deathAnnounced, faultTicksLeft>>
goalVars    == <<status, pc, step, steps, outcome, result>>
radioVars   == <<heartbeat, published>>
vars == <<missionVars, timerVars, powerVars, link, goalVars, radioVars>>

States      == {"AVAILABLE", "ASSIGNED", "RUNNING", "COMPLETED", "EXCEPTION"}
Terminal    == {"COMPLETED", "EXCEPTION"}
Missions    == Goals \cup {NoMission}
ErrorCodes  == {"OBSTACLE_DETECTED", "BATTERY_DEPLETED"}
TimerStates == {"none", "armed", "fired", "cancelled", "done"}

Active      == {"executing", "canceling"}
Ended       == {"succeeded", "aborted", "canceled"}
Statuses    == {"unknown", "rejected"} \cup Active \cup Ended

Pcs      == {"unsent", "admitting", "starting", "planning", "loop", "working",
             "finishing", "returning", "done"}
Outcomes == {"none", "completed", "cancelled", "depleted", "obstacle", "raised"}

\* Mission.Result.  A callback that raises leaves rclpy an empty Result, whose
\* result_state is 0, that is RESULT_COMPLETED.
NoResult == [result_state |-> "none", error_code |-> ""]
ResultOf(o) ==
  [result_state |-> IF o \in {"completed", "raised"} THEN "RESULT_COMPLETED"
                                                     ELSE "RESULT_EXCEPTION",
   error_code   |-> CASE o = "cancelled" -> "MISSION_CANCELLED"
                      [] o = "depleted"  -> "BATTERY_DEPLETED"
                      [] o = "obstacle"  -> "OBSTACLE_DETECTED"
                      [] OTHER           -> ""]
Results == {NoResult} \cup {ResultOf(o) : o \in Outcomes}

BatteryErrors == {"BATTERY_DEPLETED", "BATTERY_CRITICAL", "BATTERY_LOW"}
Messages ==
  [state : States, mission : Missions, connection : {"ONLINE", "OFFLINE"},
   health : {"OK", "DEGRADED", "FAULT"},
   errors : SUBSET (ErrorCodes \cup BatteryErrors \cup {"SIM_SENSOR_GLITCH"})]
NoMessage == [state |-> "none", errors |-> {}]
NoBeat    == [pending |-> FALSE]
Beats     == [pending : {TRUE}, msg : Messages, dead : BOOLEAN, newlyDead : BOOLEAN]

Init ==
  /\ state = "AVAILABLE"
  /\ currentMission = NoMission
  /\ missionErrors = {}
  /\ target = NoMission
  /\ resetTimer = NoMission
  /\ timer = [g \in Goals |-> "none"]
  /\ battery = InitialBattery
  /\ hasBattery \in BatterySettings
  /\ batteryDead = FALSE
  /\ deathAnnounced = FALSE
  /\ faultTicksLeft = 0
  /\ link \in LinkSettings
  /\ status = [g \in Goals |-> "unknown"]
  /\ pc = [g \in Goals |-> "unsent"]
  /\ step = [g \in Goals |-> 0]
  /\ steps = [g \in Goals |-> 0]
  /\ outcome = [g \in Goals |-> "none"]
  /\ result = [g \in Goals |-> NoResult]
  /\ heartbeat = NoBeat
  /\ published = NoMessage

-----------------------------------------------------------------------------
(* The goal callback *)

Reject(g) ==
  /\ status' = [status EXCEPT ![g] = "rejected"]
  /\ pc' = [pc EXCEPT ![g] = "done"]
  /\ UNCHANGED <<missionVars, timerVars, step, steps, outcome, result>>

\* The capability and the link are looked at before the lock is taken ...
OnGoalRequest(g) ==
  /\ pc[g] = "unsent"
  /\ IF g \in Capable /\ link = "online"
       THEN /\ pc' = [pc EXCEPT ![g] = "admitting"]
            /\ UNCHANGED <<missionVars, timerVars, status, step, steps, outcome, result>>
       ELSE Reject(g)
  /\ UNCHANGED <<powerVars, link, radioVars>>

\* _cancel_reset_timer_locked: a timer that has already fired is past cancelling.
CancelTimer(t) ==
  IF resetTimer \in Goals /\ t[resetTimer] = "armed"
    THEN [t EXCEPT ![resetTimer] = "cancelled"]
    ELSE t

\* Slips: the state is not re-checked under the lock; a mission may supersede
\* the cool-down of the previous one.
FitForWorkUnchecked == ~(hasBattery /\ battery < MissionMinimum)
FitForWorkInCoolDown ==
  /\ state \in {"AVAILABLE"} \cup Terminal
  /\ ~(hasBattery /\ battery < MissionMinimum)

FitForWork ==
  /\ state = "AVAILABLE"
  /\ ~(hasBattery /\ battery < MissionMinimum)

\* ... the state and the battery under it.
AdmitGoal(g) ==
  /\ pc[g] = "admitting"
  /\ IF FitForWork
       THEN /\ timer' = CancelTimer(timer)
            /\ resetTimer' = NoMission
            /\ state' = "ASSIGNED"
            /\ currentMission' = g
            /\ missionErrors' = {}
            /\ status' = [status EXCEPT ![g] = "executing"]
            /\ pc' = [pc EXCEPT ![g] = "starting"]
            /\ UNCHANGED <<target, step, steps, outcome, result>>
       ELSE Reject(g)
  /\ UNCHANGED <<powerVars, link, radioVars>>

\* Slip: a goal that has ended can still be cancelled.
CancellableOnceAccepted(g) == status[g] \notin {"unknown", "rejected", "canceling"}

Cancellable(g) == status[g] = "executing"

\* Every cancel request for a live goal is accepted; the mission thread polls it.
OnCancelRequest(g) ==
  /\ Cancellable(g)
  /\ status' = [status EXCEPT ![g] = "canceling"]
  /\ UNCHANGED <<missionVars, timerVars, powerVars, link, pc, step, steps,
                 outcome, result, radioVars>>
-----------------------------------------------------------------------------
(* The mission thread: _execute_mission *)

Goto(g, p) == pc' = [pc EXCEPT ![g] = p]

\* Slip: the callback returns without a call on the goal handle.
EndSilently(g, ending, o) ==
  /\ outcome' = [outcome EXCEPT ![g] = o]
  /\ Goto(g, "finishing")
  /\ UNCHANGED status

\* The goal handle leaves the active states, for good, before _finish runs.
End(g, ending, o) ==
  /\ status' = [status EXCEPT ![g] = ending]
  /\ outcome' = [outcome EXCEPT ![g] = o]
  /\ Goto(g, "finishing")

\* The callback raises: nothing below the raising line is executed.
Raise(g) ==
  /\ outcome' = [outcome EXCEPT ![g] = "raised"]
  /\ Goto(g, "returning")

\* _resolve_target converts the coordinates before the lock is taken.
StartMission(g) ==
  /\ pc[g] = "starting"
  /\ IF TargetOf[g] = "overflow"
       THEN Raise(g) /\ UNCHANGED <<state, target>>
       ELSE /\ state' = "RUNNING"
            /\ target' = g
            /\ Goto(g, "planning")
            /\ UNCHANGED outcome
  /\ UNCHANGED <<currentMission, missionErrors, timerVars, powerVars, link,
                 status, step, steps, result, radioVars>>

\* _steps_for: pinned by the parameter, or the distance rounded and clamped.
\* round() of a distance that is not finite raises.
StepsFor(g) ==
  IF MissionSteps > 0 THEN {MissionSteps}
  ELSE IF TargetOf[g] = "finite" THEN MinSteps .. MaxSteps
  ELSE {}

PlanSteps(g) ==
  /\ pc[g] = "planning"
  /\ \/ /\ \E n \in StepsFor(g) : steps' = [steps EXCEPT ![g] = n]
        /\ Goto(g, "loop")
        /\ UNCHANGED outcome
     \/ /\ StepsFor(g) = {}
        /\ Raise(g)
        /\ UNCHANGED steps
  /\ UNCHANGED <<missionVars, timerVars, powerVars, link, status, step, result,
                 radioVars>>

\* The head of the loop: one more step, unless a cancel request is seen ...
NextStep(g) ==
  /\ pc[g] = "loop"
  /\ step[g] < steps[g]
  /\ IF status[g] = "canceling"
       THEN End(g, "canceled", "cancelled") /\ UNCHANGED step
       ELSE /\ step' = [step EXCEPT ![g] = @ + 1]
            /\ Goto(g, "working")
            /\ UNCHANGED <<status, outcome>>
  /\ UNCHANGED <<missionVars, timerVars, powerVars, link, steps, result, radioVars>>

Progress(g) == (step[g] * 100) \div steps[g]

\* ... its body, which ends in feedback and a sleep unless the mission fails ...
DoStep(g) ==
  /\ pc[g] = "working"
  /\ IF batteryDead THEN End(g, "aborted", "depleted")
     ELSE IF g \in Failing /\ Progress(g) >= FailureAtPercent
       THEN End(g, "aborted", "obstacle")
       ELSE Goto(g, "loop") /\ UNCHANGED <<status, outcome>>
  /\ UNCHANGED <<missionVars, timerVars, powerVars, link, step, steps, result,
                 radioVars>>

\* Slip: one step too many is waited for.
LoopOverrun(g) == step[g] > steps[g]

LoopDone(g) == step[g] = steps[g]

\* ... and the code after it.
Succeed(g) ==
  /\ pc[g] = "loop"
  /\ LoopDone(g)
  /\ End(g, "succeeded", "completed")
  /\ UNCHANGED <<missionVars, timerVars, powerVars, link, step, steps, result,
                 radioVars>>

\* The errors each _finish call passes on; a cancelled mission passes none.
ErrorsOf(o) ==
  CASE o = "depleted" -> {"BATTERY_DEPLETED"}
    [] o = "obstacle" -> {"OBSTACLE_DETECTED"}
    [] OTHER          -> {}

\* Slip: a mission that was asked to stop and stopped counts as completed.
TerminalStateUnlessFailed(o) ==
  IF o \in {"completed", "cancelled"} THEN "COMPLETED" ELSE "EXCEPTION"

TerminalStateOf(o) == IF o = "completed" THEN "COMPLETED" ELSE "EXCEPTION"

Finish(g) ==
  /\ pc[g] = "finishing"
  /\ state' = TerminalStateOf(outcome[g])
  /\ missionErrors' = ErrorsOf(outcome[g])
  /\ target' = NoMission
  /\ timer' = [CancelTimer(timer) EXCEPT ![g] = "armed"]
  /\ resetTimer' = g
  /\ Goto(g, "returning")
  /\ UNCHANGED <<currentMission, powerVars, link, status, step, steps, outcome,
                 result, radioVars>>

\* rclpy, around the callback: a goal it left active is aborted, and the Result
\* goes to the client.
ReturnResult(g) ==
  /\ pc[g] = "returning"
  /\ status' = [status EXCEPT ![g] = IF @ \in Active THEN "aborted" ELSE @]
  /\ result' = [result EXCEPT ![g] = ResultOf(outcome[g])]
  /\ step' = [step EXCEPT ![g] = 0]
  /\ steps' = [steps EXCEPT ![g] = 0]
  /\ outcome' = [outcome EXCEPT ![g] = "none"]
  /\ Goto(g, "done")
  /\ UNCHANGED <<missionVars, timerVars, powerVars, link, radioVars>>

-----------------------------------------------------------------------------
(* The reset timer *)

\* threading.Timer: the hold is over, the callback is on its way to the lock.
TimerFires(g) ==
  /\ timer[g] = "armed"
  /\ timer' = [timer EXCEPT ![g] = "fired"]
  /\ UNCHANGED <<missionVars, resetTimer, powerVars, link, goalVars, radioVars>>

\* Slips: the reset leaves the codes of the last mission; it forgets EXCEPTION.
ResetKeepingErrors(g) ==
  /\ timer[g] = "fired"
  /\ timer' = [timer EXCEPT ![g] = "done"]
  /\ resetTimer' = NoMission
  /\ state' = "AVAILABLE"
  /\ currentMission' = NoMission
  /\ UNCHANGED <<missionErrors, target, powerVars, link, goalVars, radioVars>>
ResettableWhenCompleted == {"COMPLETED"}

Resettable == Terminal

ResetToAvailable(g) ==
  /\ timer[g] = "fired"
  /\ timer' = [timer EXCEPT ![g] = "done"]
  /\ resetTimer' = NoMission
  /\ IF state \in Resettable
       THEN /\ state' = "AVAILABLE"
            /\ currentMission' = NoMission
            /\ missionErrors' = {}
       ELSE UNCHANGED <<state, currentMission, missionErrors>>
  /\ UNCHANGED <<target, powerVars, link, goalVars, radioVars>>

-----------------------------------------------------------------------------
(* The heartbeat *)

\* Slip: no floor.
DrainedBelowZero ==
  battery - (IF ~hasBattery THEN 0 ELSE IF state = "RUNNING" THEN DrainRunning ELSE DrainIdle)

DrainedBattery ==
  LET drain == IF state = "RUNNING" THEN DrainRunning ELSE DrainIdle
  IN  IF ~hasBattery THEN battery
      ELSE IF battery > drain THEN battery - drain ELSE 0

\* Slip: death is read off the battery each tick instead of latched.
HealthUnlatched(b, blip) ==
  [health |-> CASE hasBattery /\ b < CriticalBelow -> "FAULT"
                [] hasBattery /\ b >= CriticalBelow /\ b < DegradedBelow -> "DEGRADED"
                [] OTHER -> "OK",
   glitch |-> FALSE, dead |-> hasBattery /\ b = 0, left |-> 0]

\* _update_health: what it leaves in _health, _sensor_glitch, _battery_dead and
\* _fault_ticks_left, given the battery and the throw of the dice.
HealthUpdate(b, blip) ==
  IF hasBattery /\ b = 0
    THEN [health |-> "FAULT", glitch |-> FALSE, dead |-> TRUE, left |-> faultTicksLeft]
  ELSE IF faultTicksLeft > 0
    THEN [health |-> "FAULT", glitch |-> TRUE, dead |-> batteryDead,
          left |-> faultTicksLeft - 1]
  ELSE IF blip
    THEN [health |-> "FAULT", glitch |-> TRUE, dead |-> batteryDead,
          left |-> FaultBlipTicks]
  ELSE [health |-> CASE hasBattery /\ b < CriticalBelow -> "FAULT"
                     [] hasBattery /\ b >= CriticalBelow /\ b < DegradedBelow -> "DEGRADED"
                     [] OTHER -> "OK",
        glitch |-> FALSE, dead |-> batteryDead, left |-> 0]

\* Slip: the two tables disagree at a threshold.
BatteryErrorInclusive(b) ==
  IF ~hasBattery THEN {}
  ELSE IF b = 0 THEN {"BATTERY_DEPLETED"}
  ELSE IF b <= CriticalBelow THEN {"BATTERY_CRITICAL"}
  ELSE IF b < DegradedBelow THEN {"BATTERY_LOW"}
  ELSE {}

BatteryError(b) ==
  IF ~hasBattery THEN {}
  ELSE IF b = 0 THEN {"BATTERY_DEPLETED"}
  ELSE IF b < CriticalBelow THEN {"BATTERY_CRITICAL"}
  ELSE IF b < DegradedBelow THEN {"BATTERY_LOW"}
  ELSE {}

BuildMessage(b, h) ==
  [state      |-> state,
   mission    |-> currentMission,
   connection |-> IF link = "online" THEN "ONLINE" ELSE "OFFLINE",
   health     |-> h.health,
   errors     |-> missionErrors \cup BatteryError(b)
                    \cup (IF h.glitch THEN {"SIM_SENSOR_GLITCH"} ELSE {})]

\* The locked half of _tick ...
Tick ==
  /\ heartbeat = NoBeat
  /\ \E blip \in IF FaultProbability = 0 THEN {FALSE} ELSE BOOLEAN :
       LET b == DrainedBattery
           h == HealthUpdate(b, blip)
       IN  /\ battery' = b
           /\ faultTicksLeft' = h.left
           /\ batteryDead' = h.dead
           /\ deathAnnounced' = (deathAnnounced \/ h.dead)
           /\ heartbeat' = [pending |-> TRUE, msg |-> BuildMessage(b, h),
                            dead |-> h.dead, newlyDead |-> h.dead /\ ~deathAnnounced]
  /\ UNCHANGED <<missionVars, timerVars, hasBattery, link, goalVars, published>>

\* ... and the half after it: a broken link sends nothing, a dead machine sends
\* one message and no other.
TickPublish ==
  /\ heartbeat # NoBeat
  /\ published' = IF link # "connection_broken"
                       /\ (heartbeat.dead => heartbeat.newlyDead)
                    THEN heartbeat.msg
                    ELSE published
  /\ heartbeat' = NoBeat
  /\ UNCHANGED <<missionVars, timerVars, powerVars, link, goalVars>>

-----------------------------------------------------------------------------
(* The operator's parameters *)

SetLink(l) ==
  /\ link # l
  /\ link' = l
  /\ UNCHANGED <<missionVars, timerVars, powerVars, goalVars, radioVars>>

\* _validate_parameters applies has_battery itself.
SetHasBattery(b) ==
  /\ hasBattery # b
  /\ hasBattery' = b
  /\ UNCHANGED <<missionVars, timerVars, battery, batteryDead, deathAnnounced,
                 faultTicksLeft, link, goalVars, radioVars>>

-----------------------------------------------------------------------------
MissionThread(g) ==
  \/ StartMission(g)
  \/ PlanSteps(g)
  \/ NextStep(g)
  \/ DoStep(g)
  \/ Succeed(g)
  \/ Finish(g)
  \/ ReturnResult(g)

Next ==
  \/ \E g \in Goals :
       \/ OnGoalRequest(g)
       \/ AdmitGoal(g)
       \/ OnCancelRequest(g)
       \/ MissionThread(g)
       \/ TimerFires(g)
       \/ ResetToAvailable(g)
  \/ Tick
  \/ TickPublish
  \/ \E l \in LinkSettings : SetLink(l)
  \/ \E b \in BatterySettings : SetHasBattery(b)

SafeSpec == Init /\ [][Next]_vars

\* The executor's threads and the timer threads run; requests, cancels, ticks
\* and parameter changes need not come.
Fairness ==
  \A g \in Goals :
    /\ WF_vars(AdmitGoal(g))
    /\ WF_vars(MissionThread(g))
    /\ WF_vars(TimerFires(g))
    /\ WF_vars(ResetToAvailable(g))

Spec == SafeSpec /\ Fairness
=============================================================================
