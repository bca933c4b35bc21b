--------------------------- MODULE MachineProofs ---------------------------
(***************************************************************************)
(* Proofs about Machine, for any set of goals, any targets and any         *)
(* battery and step constants.                                             *)
(***************************************************************************)
EXTENDS MachineProperties, TLAPS

\* What the types of the variables are made of.
USE GoalsAssumption, StepsAssumption, BatteryAssumption, SettingsAssumption
USE DEF GoalsAssumption, StepsAssumption, BatteryAssumption, SettingsAssumption

(* Facts about the helpers *)

\* Cancelling a timer leaves a table of timers.
LEMMA CancelTimerType ==
  ASSUME TypeOK PROVE CancelTimer(timer) \in [Goals -> TimerStates]
BY DEF TypeOK, CancelTimer, TimerStates

\* A Result exists for every outcome.
LEMMA ResultOfType ==
  ASSUME NEW o \in Outcomes PROVE ResultOf(o) \in Results
BY DEF Results

\* What a drain leaves is a battery charge.
LEMMA DrainedBatteryType ==
  ASSUME TypeOK PROVE DrainedBattery \in Nat
BY DEF TypeOK, DrainedBattery

\* The fields of the health update, whatever the dice say.
LEMMA HealthUpdateType ==
  ASSUME TypeOK, NEW b \in Nat, NEW blip \in BOOLEAN
  PROVE  /\ HealthUpdate(b, blip).health \in {"OK", "DEGRADED", "FAULT"}
         /\ HealthUpdate(b, blip).glitch \in BOOLEAN
         /\ HealthUpdate(b, blip).dead \in BOOLEAN
         /\ HealthUpdate(b, blip).left \in Nat
         /\ HealthUpdate(b, blip).dead = (batteryDead \/ (hasBattery /\ b = 0))
<1>1. CASE hasBattery /\ b = 0
  BY <1>1 DEF HealthUpdate, TypeOK
<1>2. CASE ~(hasBattery /\ b = 0) /\ faultTicksLeft > 0
  <2>1. HealthUpdate(b, blip) = [health |-> "FAULT", glitch |-> TRUE,
                                 dead |-> batteryDead, left |-> faultTicksLeft - 1]
    BY <1>2 DEF HealthUpdate
  <2>2. faultTicksLeft - 1 \in Nat
    BY <1>2 DEF TypeOK
  <2>3. batteryDead = (batteryDead \/ (hasBattery /\ b = 0))
    BY <1>2 DEF TypeOK
  <2> QED BY <2>1, <2>2, <2>3 DEF TypeOK
<1>3. CASE ~(hasBattery /\ b = 0) /\ ~(faultTicksLeft > 0)
  <2>1. CASE blip
    BY <1>3, <2>1 DEF HealthUpdate, TypeOK
  <2>2. CASE ~blip
    <3> DEFINE band == CASE hasBattery /\ b < CriticalBelow -> "FAULT"
                         [] hasBattery /\ b >= CriticalBelow /\ b < DegradedBelow -> "DEGRADED"
                         [] OTHER -> "OK"
    <3>1. band \in {"OK", "DEGRADED", "FAULT"}
      <4>1. CASE hasBattery /\ b < CriticalBelow
        BY <4>1
      <4>2. CASE ~(hasBattery /\ b < CriticalBelow)
        BY <4>2
      <4> QED BY <4>1, <4>2
    <3>2. HealthUpdate(b, blip) = [health |-> band, glitch |-> FALSE,
                                   dead |-> batteryDead, left |-> 0]
      BY <1>3, <2>2 DEF HealthUpdate
    <3> HIDE DEF band
    <3> QED BY <1>3, <3>1, <3>2 DEF TypeOK
  <2> QED BY <2>1, <2>2
<1> QED BY <1>1, <1>2, <1>3 DEF TypeOK

\* A message built under the lock is a message.
LEMMA BuildMessageType ==
  ASSUME TypeOK, NEW b \in Nat, NEW blip \in BOOLEAN
  PROVE  BuildMessage(b, HealthUpdate(b, blip)) \in Messages
<1> DEFINE h == HealthUpdate(b, blip)
<1>1. /\ h.health \in {"OK", "DEGRADED", "FAULT"}
      /\ h.glitch \in BOOLEAN
  BY HealthUpdateType
<1>2. BatteryError(b) \in SUBSET BatteryErrors
  BY DEF BatteryError, BatteryErrors
<1> HIDE DEF h
<1>3. BuildMessage(b, h) \in Messages
  BY <1>1, <1>2 DEF BuildMessage, Messages, TypeOK, ErrorCodes
<1> QED BY <1>3 DEF h

-----------------------------------------------------------------------------
(* Type correctness *)

\* At power-up every variable is in its domain.
LEMMA TypeInit == Init => TypeOK
<1> SUFFICES ASSUME Init PROVE TypeOK
  OBVIOUS
<1> USE DEF Init
<1>1. /\ state \in States /\ currentMission \in Missions
      /\ missionErrors \in SUBSET ErrorCodes /\ target \in Missions
      /\ resetTimer \in Missions /\ timer \in [Goals -> TimerStates]
  BY DEF States, Missions, TimerStates
<1>2. /\ battery \in Nat /\ hasBattery \in BOOLEAN /\ batteryDead \in BOOLEAN
      /\ deathAnnounced \in BOOLEAN /\ faultTicksLeft \in Nat /\ link \in Links
  OBVIOUS
<1>3. /\ status \in [Goals -> Statuses] /\ pc \in [Goals -> Pcs]
      /\ step \in [Goals -> Nat] /\ steps \in [Goals -> Nat]
      /\ outcome \in [Goals -> Outcomes] /\ result \in [Goals -> Results]
  BY DEF Statuses, Pcs, Outcomes, Results
<1> QED BY <1>1, <1>2, <1>3 DEF TypeOK

\* The goal callbacks keep every variable in its domain.
LEMMA TypeGoalCallback ==
  ASSUME TypeOK, NEW g \in Goals,
         OnGoalRequest(g) \/ AdmitGoal(g) \/ OnCancelRequest(g)
  PROVE  TypeOK'
<1> USE DEF TypeOK, missionVars, timerVars, powerVars, goalVars, radioVars
<1>1. CASE OnGoalRequest(g)
  BY <1>1 DEF OnGoalRequest, Reject, Pcs, Statuses
<1>2. CASE AdmitGoal(g)
  BY <1>2, CancelTimerType DEF AdmitGoal, Reject, Pcs, Statuses, Active, States,
     Missions, ErrorCodes
<1>3. CASE OnCancelRequest(g)
  BY <1>3 DEF OnCancelRequest, Cancellable, Statuses, Active
<1> QED BY <1>1, <1>2, <1>3

\* So does the mission thread.
LEMMA TypeMissionThread ==
  ASSUME TypeOK, NEW g \in Goals, MissionThread(g)
  PROVE  TypeOK'
<1> USE DEF TypeOK, missionVars, timerVars, powerVars, goalVars, radioVars
<1>1. CASE StartMission(g)
  BY <1>1 DEF StartMission, Raise, Goto, Pcs, Outcomes, States, Missions
<1>2. CASE PlanSteps(g)
  <2>1. \A n \in StepsFor(g) : n \in Nat
    BY DEF StepsFor
  <2> QED BY <1>2, <2>1 DEF PlanSteps, Raise, Goto, Pcs, Outcomes
<1>3. CASE NextStep(g)
  BY <1>3 DEF NextStep, End, Goto, Pcs, Outcomes, Statuses, Ended
<1>4. CASE DoStep(g)
  BY <1>4 DEF DoStep, End, Goto, Pcs, Outcomes, Statuses, Ended
<1>5. CASE Succeed(g)
  BY <1>5 DEF Succeed, End, Goto, Pcs, Outcomes, Statuses, Ended
<1>6. CASE Finish(g)
  BY <1>6, CancelTimerType DEF Finish, TerminalStateOf, ErrorsOf, ErrorCodes, Goto, Pcs, States,
     Missions, TimerStates
<1>7. CASE ReturnResult(g)
  BY <1>7, ResultOfType DEF ReturnResult, Goto, Pcs, Outcomes, Statuses, Ended
<1> QED BY <1>1, <1>2, <1>3, <1>4, <1>5, <1>6, <1>7 DEF MissionThread

\* So do the battery, the timers, the operator and the heartbeat.
LEMMA TypeOther ==
  ASSUME TypeOK,
         \/ \E g \in Goals : TimerFires(g) \/ ResetToAvailable(g)
         \/ Tick
         \/ TickPublish
         \/ \E l \in LinkSettings : SetLink(l)
         \/ \E b \in BatterySettings : SetHasBattery(b)
         \/ UNCHANGED vars
  PROVE  TypeOK'
<1> USE DEF TypeOK, missionVars, timerVars, powerVars, goalVars, radioVars
<1>1. CASE \E g \in Goals : TimerFires(g)
  BY <1>1 DEF TimerFires, TimerStates
<1>2. CASE \E g \in Goals : ResetToAvailable(g)
  BY <1>2 DEF ResetToAvailable, TimerStates, States, Missions, ErrorCodes
<1>3. CASE Tick
  <2>1. PICK blip \in BOOLEAN :
          LET b == DrainedBattery
              h == HealthUpdate(b, blip)
          IN  /\ battery' = b
              /\ faultTicksLeft' = h.left
              /\ batteryDead' = h.dead
              /\ deathAnnounced' = (deathAnnounced \/ h.dead)
              /\ heartbeat' = [pending |-> TRUE, msg |-> BuildMessage(b, h),
                               dead |-> h.dead, newlyDead |-> h.dead /\ ~deathAnnounced]
    BY <1>3 DEF Tick
  <2> DEFINE b == DrainedBattery
             h == HealthUpdate(b, blip)
  <2>2. b \in Nat
    BY DrainedBatteryType
  <2>3. /\ h.left \in Nat
        /\ h.dead \in BOOLEAN
        /\ BuildMessage(b, h) \in Messages
    BY <2>2, HealthUpdateType, BuildMessageType
  <2> HIDE DEF b, h
  <2>4. heartbeat' \in Beats
    BY <2>1, <2>3 DEF Beats, b, h
  <2> QED BY <1>3, <2>1, <2>2, <2>3, <2>4 DEF Tick, b, h
<1>4. CASE TickPublish
  BY <1>4 DEF TickPublish, Beats
<1>5. CASE \E l \in LinkSettings : SetLink(l)
  BY <1>5 DEF SetLink, Links
<1>6. CASE \E b \in BatterySettings : SetHasBattery(b)
  BY <1>6 DEF SetHasBattery
<1>7. CASE UNCHANGED vars
  BY <1>7 DEF vars
<1> QED BY <1>1, <1>2, <1>3, <1>4, <1>5, <1>6, <1>7

\* The variables of a machine keep their types.
THEOREM MachineTypeCorrect == SafeSpec => []TypeOK
<1>1. TypeOK /\ [Next]_vars => TypeOK'
  BY TypeGoalCallback, TypeMissionThread, TypeOther DEF Next
<1> QED BY TypeInit, <1>1, PTL DEF SafeSpec

-----------------------------------------------------------------------------
(* The inductive invariant *)

\* While no timer is running, there is none to cancel.
LEMMA NothingToCancel ==
  ASSUME TypeOK, ResetTimerBelongsToMission, state \notin Terminal
  PROVE  /\ CancelTimer(timer) = timer
         /\ \A g \in Goals : timer[g] \notin {"armed", "fired"}
BY DEF CancelTimer, ResetTimerBelongsToMission

\* At power-up there is no mission, so the invariant holds.
LEMMA InvInit == Init => IInv
<1> SUFFICES ASSUME Init PROVE IInv
  OBVIOUS
<1>1. TypeOK
  BY TypeInit
<1>2. ThreadInv
  BY DEF Init, ThreadInv
<1>3. HolderInv
  BY DEF Init, HolderInv, InMission, Active, Terminal
<1>4. ResetTimerBelongsToMission
  BY DEF Init, ResetTimerBelongsToMission, Terminal
<1>5. ResultAgreesWithStatus
  BY DEF Init, ResultAgreesWithStatus
<1>6. DeathInv
  BY DEF Init, DeathInv, NoMessage
<1> QED BY <1>1, <1>2, <1>3, <1>4, <1>5, <1>6 DEF IInv

\* The goal callbacks keep the invariant.
LEMMA GoalCallbackStep ==
  ASSUME IInv, NEW g \in Goals,
         OnGoalRequest(g) \/ AdmitGoal(g) \/ OnCancelRequest(g)
  PROVE  IInv'
<1> USE DEF IInv, TypeOK, missionVars, timerVars, powerVars, goalVars, radioVars
<1>0. TypeOK'
  BY TypeGoalCallback
<1>1. CASE OnGoalRequest(g)
  <2>1. ThreadInv'
    BY <1>1 DEF OnGoalRequest, Reject, ThreadInv, Ended, Agrees
  <2>2. HolderInv'
    BY <1>1 DEF OnGoalRequest, Reject, ThreadInv, HolderInv, InMission, Active, Ended,
       Terminal, Missions
  <2>3. ResetTimerBelongsToMission'
    BY <1>1 DEF OnGoalRequest, Reject, ResetTimerBelongsToMission
  <2>4. ResultAgreesWithStatus'
    BY <1>1 DEF OnGoalRequest, Reject, ResultAgreesWithStatus, ThreadInv
  <2>5. DeathInv'
    BY <1>1 DEF OnGoalRequest, Reject, DeathInv
  <2> QED BY <1>0, <2>1, <2>2, <2>3, <2>4, <2>5
<1>2. CASE AdmitGoal(g)
  <2>1. ThreadInv'
    BY <1>2 DEF AdmitGoal, Reject, ThreadInv, Ended, Active, Agrees
  <2>2. HolderInv'
    <3>1. CASE FitForWork
      BY <1>2, <3>1 DEF AdmitGoal, FitForWork, HolderInv, InMission, Active, Terminal, ThreadInv
    <3>2. CASE ~FitForWork
      BY <1>2, <3>2 DEF AdmitGoal, Reject, ThreadInv, HolderInv, InMission, Active, Ended,
       Terminal, Missions
    <3> QED BY <3>1, <3>2
  <2>3. ResetTimerBelongsToMission'
    <3>1. CASE FitForWork
      <4>1. state \notin Terminal
        BY <3>1 DEF FitForWork, Terminal
      <4> QED BY <1>2, <3>1, <4>1, NothingToCancel
            DEF AdmitGoal, ResetTimerBelongsToMission, Terminal
    <3>2. CASE ~FitForWork
      BY <1>2, <3>2 DEF AdmitGoal, Reject, ResetTimerBelongsToMission
    <3> QED BY <3>1, <3>2
  <2>4. ResultAgreesWithStatus'
    BY <1>2 DEF AdmitGoal, Reject, ResultAgreesWithStatus, ThreadInv
  <2>5. DeathInv'
    BY <1>2 DEF AdmitGoal, Reject, DeathInv
  <2> QED BY <1>0, <2>1, <2>2, <2>3, <2>4, <2>5
<1>3. CASE OnCancelRequest(g)
  <2>1. ThreadInv'
    BY <1>3 DEF OnCancelRequest, Cancellable, ThreadInv, Ended, Active, Agrees
  <2>2. HolderInv'
    BY <1>3 DEF OnCancelRequest, Cancellable, HolderInv, InMission, Active, Ended
  <2>3. ResetTimerBelongsToMission'
    BY <1>3 DEF OnCancelRequest, ResetTimerBelongsToMission
  <2>4. ResultAgreesWithStatus'
    BY <1>3 DEF OnCancelRequest, Cancellable, ResultAgreesWithStatus, ThreadInv, Ended
  <2>5. DeathInv'
    BY <1>3 DEF OnCancelRequest, DeathInv
  <2> QED BY <1>0, <2>1, <2>2, <2>3, <2>4, <2>5
<1> QED BY <1>1, <1>2, <1>3

\* So does the mission thread.
LEMMA MissionThreadStep ==
  ASSUME IInv, NEW g \in Goals, MissionThread(g)
  PROVE  IInv'
<1> USE DEF IInv, TypeOK, missionVars, timerVars, powerVars, goalVars, radioVars
<1>0. TypeOK'
  BY TypeMissionThread
<1>1. CASE StartMission(g)
  <2>1. ThreadInv'
    BY <1>1 DEF StartMission, Raise, Goto, ThreadInv, Agrees, Active, Ended
  <2>2. HolderInv'
    BY <1>1 DEF StartMission, Raise, Goto, ThreadInv, HolderInv, InMission, Active, Ended, Agrees,
       Terminal, Missions
  <2>3. ResetTimerBelongsToMission'
    BY <1>1 DEF StartMission, Raise, Goto, ThreadInv, HolderInv, InMission, ResetTimerBelongsToMission, Terminal
  <2>4. ResultAgreesWithStatus'
    BY <1>1 DEF StartMission, Raise, Goto, ThreadInv, Agrees, Ended, Active, ResultAgreesWithStatus
  <2>5. DeathInv'
    BY <1>1 DEF StartMission, Raise, Goto, DeathInv, HolderInv
  <2> QED BY <1>0, <2>1, <2>2, <2>3, <2>4, <2>5
<1>2. CASE PlanSteps(g)
  <2>1. ThreadInv'
    BY <1>2 DEF PlanSteps, StepsFor, Raise, Goto, ThreadInv, Agrees, Active, Ended
  <2>2. HolderInv'
    BY <1>2 DEF PlanSteps, StepsFor, Raise, Goto, ThreadInv, HolderInv, InMission, Active, Ended, Agrees,
       Terminal, Missions
  <2>3. ResetTimerBelongsToMission'
    BY <1>2 DEF PlanSteps, StepsFor, Raise, Goto, ThreadInv, HolderInv, InMission, ResetTimerBelongsToMission, Terminal
  <2>4. ResultAgreesWithStatus'
    BY <1>2 DEF PlanSteps, StepsFor, Raise, Goto, ThreadInv, Agrees, Ended, Active, ResultAgreesWithStatus
  <2>5. DeathInv'
    BY <1>2 DEF PlanSteps, StepsFor, Raise, Goto, DeathInv, HolderInv
  <2> QED BY <1>0, <2>1, <2>2, <2>3, <2>4, <2>5
<1>3. CASE NextStep(g)
  <2>1. ThreadInv'
    BY <1>3 DEF NextStep, End, Goto, ThreadInv, Agrees, Active, Ended
  <2>2. HolderInv'
    BY <1>3 DEF NextStep, End, Goto, ThreadInv, HolderInv, InMission, Active, Ended, Agrees,
       Terminal, Missions
  <2>3. ResetTimerBelongsToMission'
    BY <1>3 DEF NextStep, End, Goto, ThreadInv, HolderInv, InMission, ResetTimerBelongsToMission, Terminal
  <2>4. ResultAgreesWithStatus'
    BY <1>3 DEF NextStep, End, Goto, ThreadInv, Agrees, Ended, Active, ResultAgreesWithStatus
  <2>5. DeathInv'
    BY <1>3 DEF NextStep, End, Goto, DeathInv, HolderInv
  <2> QED BY <1>0, <2>1, <2>2, <2>3, <2>4, <2>5
<1>4. CASE DoStep(g)
  <2>1. ThreadInv'
    BY <1>4 DEF DoStep, End, Goto, ThreadInv, Agrees, Active, Ended
  <2>2. HolderInv'
    BY <1>4 DEF DoStep, End, Goto, ThreadInv, HolderInv, InMission, Active, Ended, Agrees,
       Terminal, Missions
  <2>3. ResetTimerBelongsToMission'
    BY <1>4 DEF DoStep, End, Goto, ThreadInv, HolderInv, InMission, ResetTimerBelongsToMission, Terminal
  <2>4. ResultAgreesWithStatus'
    BY <1>4 DEF DoStep, End, Goto, ThreadInv, Agrees, Ended, Active, ResultAgreesWithStatus
  <2>5. DeathInv'
    BY <1>4 DEF DoStep, End, Goto, DeathInv, HolderInv
  <2> QED BY <1>0, <2>1, <2>2, <2>3, <2>4, <2>5
<1>5. CASE Succeed(g)
  <2>1. ThreadInv'
    BY <1>5 DEF Succeed, End, Goto, ThreadInv, Agrees, Active, Ended
  <2>2. HolderInv'
    BY <1>5 DEF Succeed, End, Goto, ThreadInv, HolderInv, InMission, Active, Ended, Agrees,
       Terminal, Missions
  <2>3. ResetTimerBelongsToMission'
    BY <1>5 DEF Succeed, End, Goto, ThreadInv, HolderInv, InMission, ResetTimerBelongsToMission, Terminal
  <2>4. ResultAgreesWithStatus'
    BY <1>5 DEF Succeed, End, Goto, ThreadInv, Agrees, Ended, Active, ResultAgreesWithStatus
  <2>5. DeathInv'
    BY <1>5 DEF Succeed, End, Goto, DeathInv, HolderInv
  <2> QED BY <1>0, <2>1, <2>2, <2>3, <2>4, <2>5
<1>6. CASE Finish(g)
  <2>1. ThreadInv'
    BY <1>6 DEF Finish, Goto, TerminalStateOf, ErrorsOf, ThreadInv, Agrees, Active, Ended
  <2>2. HolderInv'
    BY <1>6 DEF Finish, Goto, TerminalStateOf, ErrorsOf, ThreadInv, HolderInv, InMission, Active, Ended, Agrees,
       Terminal, Missions
  <2>3. ResetTimerBelongsToMission'
    BY <1>6, NothingToCancel DEF Finish, Goto, TerminalStateOf, ErrorsOf, ThreadInv, HolderInv, InMission, ResetTimerBelongsToMission, Terminal
  <2>4. ResultAgreesWithStatus'
    BY <1>6 DEF Finish, Goto, TerminalStateOf, ErrorsOf, ThreadInv, Agrees, Ended, Active, ResultAgreesWithStatus
  <2>5. DeathInv'
    BY <1>6 DEF Finish, Goto, TerminalStateOf, ErrorsOf, DeathInv, HolderInv
  <2> QED BY <1>0, <2>1, <2>2, <2>3, <2>4, <2>5
<1>7. CASE ReturnResult(g)
  <2>1. ThreadInv'
    BY <1>7 DEF ReturnResult, ResultOf, Goto, ThreadInv, Agrees, Active, Ended
  <2>2. HolderInv'
    BY <1>7 DEF ReturnResult, ResultOf, Goto, ThreadInv, HolderInv, InMission, Active, Ended, Agrees,
       Terminal, Missions
  <2>3. ResetTimerBelongsToMission'
    BY <1>7 DEF ReturnResult, ResultOf, Goto, ThreadInv, HolderInv, InMission, ResetTimerBelongsToMission, Terminal
  <2>4. ResultAgreesWithStatus'
    BY <1>7 DEF ReturnResult, ResultOf, Goto, ThreadInv, Agrees, Ended, Active, ResultAgreesWithStatus
  <2>5. DeathInv'
    BY <1>7 DEF ReturnResult, ResultOf, Goto, DeathInv, HolderInv
  <2> QED BY <1>0, <2>1, <2>2, <2>3, <2>4, <2>5
<1> QED BY <1>1, <1>2, <1>3, <1>4, <1>5, <1>6, <1>7 DEF MissionThread

\* So do the battery, the timers, the operator and the heartbeat.
LEMMA OtherStep ==
  ASSUME IInv,
         \/ \E g \in Goals : TimerFires(g) \/ ResetToAvailable(g)
         \/ Tick
         \/ TickPublish
         \/ \E l \in LinkSettings : SetLink(l)
         \/ \E b \in BatterySettings : SetHasBattery(b)
         \/ UNCHANGED vars
  PROVE  IInv'
<1> USE DEF IInv, TypeOK, missionVars, timerVars, powerVars, goalVars, radioVars
<1>0. TypeOK'
  BY TypeOther
<1>1. CASE \E g \in Goals : TimerFires(g)
  <2>1. ThreadInv'
    BY <1>1 DEF TimerFires, ThreadInv
  <2>2. HolderInv'
    BY <1>1 DEF TimerFires, HolderInv, ThreadInv, InMission, Terminal, Missions
  <2>3. ResetTimerBelongsToMission'
    BY <1>1 DEF TimerFires, ResetTimerBelongsToMission, HolderInv, Terminal
  <2>4. ResultAgreesWithStatus'
    BY <1>1 DEF TimerFires, ResultAgreesWithStatus
  <2>5. DeathInv'
    BY <1>1 DEF TimerFires, DeathInv
  <2> QED BY <1>0, <2>1, <2>2, <2>3, <2>4, <2>5
<1>2. CASE \E g \in Goals : ResetToAvailable(g)
  <2>1. ThreadInv'
    BY <1>2 DEF ResetToAvailable, Resettable, ThreadInv
  <2>2. HolderInv'
    BY <1>2 DEF ResetToAvailable, Resettable, HolderInv, ThreadInv, InMission, Terminal, Missions
  <2>3. ResetTimerBelongsToMission'
    BY <1>2 DEF ResetToAvailable, Resettable, ResetTimerBelongsToMission, HolderInv, Terminal
  <2>4. ResultAgreesWithStatus'
    BY <1>2 DEF ResetToAvailable, Resettable, ResultAgreesWithStatus
  <2>5. DeathInv'
    BY <1>2 DEF ResetToAvailable, Resettable, DeathInv
  <2> QED BY <1>0, <2>1, <2>2, <2>3, <2>4, <2>5
<1>3. CASE Tick
  <2>1. ThreadInv'
    BY <1>3 DEF Tick, ThreadInv
  <2>2. HolderInv'
    BY <1>3 DEF Tick, HolderInv, ThreadInv, InMission, Terminal, Missions
  <2>3. ResetTimerBelongsToMission'
    BY <1>3 DEF Tick, ResetTimerBelongsToMission, HolderInv, Terminal
  <2>4. ResultAgreesWithStatus'
    BY <1>3 DEF Tick, ResultAgreesWithStatus
  <2>5. DeathInv'
    <3>1. PICK blip \in BOOLEAN :
            LET b == DrainedBattery
                h == HealthUpdate(b, blip)
            IN  /\ batteryDead' = h.dead
                /\ deathAnnounced' = (deathAnnounced \/ h.dead)
                /\ heartbeat' = [pending |-> TRUE, msg |-> BuildMessage(b, h),
                                 dead |-> h.dead, newlyDead |-> h.dead /\ ~deathAnnounced]
      BY <1>3 DEF Tick
    <3> DEFINE b == DrainedBattery
               h == HealthUpdate(b, blip)
    <3>2. b \in Nat
      BY DrainedBatteryType
    <3>3. h.dead = (batteryDead \/ (hasBattery /\ b = 0)) /\ h.dead \in BOOLEAN
      <4>1. TypeOK
        OBVIOUS
      <4> HIDE DEF TypeOK, b
      <4> QED BY <3>2, <4>1, HealthUpdateType, Zenon
    <3>4. "BATTERY_DEPLETED" \in BuildMessage(b, h).errors => h.dead
      <4>1. "BATTERY_DEPLETED" \in BatteryError(b) => hasBattery /\ b = 0
        BY DEF BatteryError
      <4> HIDE DEF b, h
      <4>2. "BATTERY_DEPLETED" \in BuildMessage(b, h).errors =>
              "BATTERY_DEPLETED" \in missionErrors \cup BatteryError(b)
        BY DEF BuildMessage
      <4> QED BY <3>3, <4>1, <4>2 DEF DeathInv
    <3> HIDE DEF b, h
    <3>5. /\ batteryDead' = h.dead
          /\ deathAnnounced' = (deathAnnounced \/ h.dead)
          /\ heartbeat'.msg = BuildMessage(b, h)
          /\ heartbeat'.dead = h.dead
          /\ heartbeat'.newlyDead = (h.dead /\ ~deathAnnounced)
      BY <3>1 DEF b, h
    <3>6. batteryDead => h.dead
      BY <3>3
    <3>7. UNCHANGED <<missionErrors, outcome, published>>
      BY <1>3 DEF Tick
    <3> QED BY <3>3, <3>4, <3>5, <3>6, <3>7 DEF DeathInv
  <2> QED BY <1>0, <2>1, <2>2, <2>3, <2>4, <2>5
<1>4. CASE TickPublish
  <2>1. ThreadInv'
    BY <1>4 DEF TickPublish, ThreadInv
  <2>2. HolderInv'
    BY <1>4 DEF TickPublish, HolderInv, ThreadInv, InMission, Terminal, Missions
  <2>3. ResetTimerBelongsToMission'
    BY <1>4 DEF TickPublish, ResetTimerBelongsToMission, HolderInv, Terminal
  <2>4. ResultAgreesWithStatus'
    BY <1>4 DEF TickPublish, ResultAgreesWithStatus
  <2>5. DeathInv'
    BY <1>4 DEF TickPublish, DeathInv
  <2> QED BY <1>0, <2>1, <2>2, <2>3, <2>4, <2>5
<1>5. CASE \E l \in LinkSettings : SetLink(l)
  <2>1. ThreadInv'
    BY <1>5 DEF SetLink, ThreadInv
  <2>2. HolderInv'
    BY <1>5 DEF SetLink, HolderInv, ThreadInv, InMission, Terminal, Missions
  <2>3. ResetTimerBelongsToMission'
    BY <1>5 DEF SetLink, ResetTimerBelongsToMission, HolderInv, Terminal
  <2>4. ResultAgreesWithStatus'
    BY <1>5 DEF SetLink, ResultAgreesWithStatus
  <2>5. DeathInv'
    BY <1>5 DEF SetLink, DeathInv
  <2> QED BY <1>0, <2>1, <2>2, <2>3, <2>4, <2>5
<1>6. CASE \E b \in BatterySettings : SetHasBattery(b)
  <2>1. ThreadInv'
    BY <1>6 DEF SetHasBattery, ThreadInv
  <2>2. HolderInv'
    BY <1>6 DEF SetHasBattery, HolderInv, ThreadInv, InMission, Terminal, Missions
  <2>3. ResetTimerBelongsToMission'
    BY <1>6 DEF SetHasBattery, ResetTimerBelongsToMission, HolderInv, Terminal
  <2>4. ResultAgreesWithStatus'
    BY <1>6 DEF SetHasBattery, ResultAgreesWithStatus
  <2>5. DeathInv'
    BY <1>6 DEF SetHasBattery, DeathInv
  <2> QED BY <1>0, <2>1, <2>2, <2>3, <2>4, <2>5
<1>7. CASE UNCHANGED vars
  <2>1. ThreadInv'
    BY <1>7 DEF vars, ThreadInv
  <2>2. HolderInv'
    BY <1>7 DEF vars, HolderInv, ThreadInv, InMission, Terminal, Missions
  <2>3. ResetTimerBelongsToMission'
    BY <1>7 DEF vars, ResetTimerBelongsToMission, HolderInv, Terminal
  <2>4. ResultAgreesWithStatus'
    BY <1>7 DEF vars, ResultAgreesWithStatus
  <2>5. DeathInv'
    BY <1>7 DEF vars, DeathInv
  <2> QED BY <1>0, <2>1, <2>2, <2>3, <2>4, <2>5
<1> QED BY <1>1, <1>2, <1>3, <1>4, <1>5, <1>6, <1>7

\* Every step keeps the invariant.
LEMMA InvStep == IInv /\ [Next]_vars => IInv'
BY GoalCallbackStep, MissionThreadStep, OtherStep DEF Next

\* The inductive invariant holds in every reachable state.
THEOREM MachineInvariant == SafeSpec => []IInv
BY InvInit, InvStep, PTL DEF SafeSpec

-----------------------------------------------------------------------------
(* What follows from it *)

\* However many goals are sent and however they interleave, one mission at a time
\* holds the machine, and what is published is about that mission.
THEOREM MachineRunsOneMission == SafeSpec => []OneMissionAtATime
<1>1. IInv => OneMissionAtATime
  BY DEF IInv, HolderInv, OneMissionAtATime
<1> QED BY <1>1, MachineInvariant, PTL

\* The reset timer of one mission never acts on another.
THEOREM MachineTimerOwnership == SafeSpec => []ResetTimerBelongsToMission
<1>1. IInv => ResetTimerBelongsToMission
  BY DEF IInv
<1> QED BY <1>1, MachineInvariant, PTL

\* Results agree with goal statuses wherever the target is a number.
THEOREM MachineResults == SafeSpec => []ResultAgreesWithStatus
<1>1. IInv => ResultAgreesWithStatus
  BY DEF IInv
<1> QED BY <1>1, MachineInvariant, PTL

\* What the machine shows after a mission is that mission's verdict, and no code
\* of it outlives it.
THEOREM MachineShowsVerdict == SafeSpec => []ShownStateAgreesWithMission
<1>1. IInv => ShownStateAgreesWithMission
  <2> SUFFICES ASSUME IInv PROVE ShownStateAgreesWithMission
    OBVIOUS
  <2>1. state \in Terminal => currentMission \in Goals
    BY DEF IInv, TypeOK, HolderInv, Missions, Terminal
  <2>2. state \in Terminal => target = NoMission
    BY DEF IInv, HolderInv, Terminal
  <2> QED BY <2>1, <2>2 DEF IInv, HolderInv, ShownStateAgreesWithMission
<1> QED BY <1>1, MachineInvariant, PTL

\* After the message that carries BATTERY_DEPLETED the radio is silent: only
\* TickPublish transmits, and it finds a dead machine already announced.
THEOREM MachineFlatBatteryHasLastWord == SafeSpec => FlatBatteryHasLastWord
<1>1. ASSUME IInv, [Next]_vars
      PROVE  ("BATTERY_DEPLETED" \in published.errors) => UNCHANGED published
  <2>1. CASE TickPublish
    BY <1>1, <2>1 DEF IInv, DeathInv, TickPublish
  <2>2. CASE ~TickPublish
    <3>1. ASSUME NEW g \in Goals, MissionThread(g)
          PROVE  UNCHANGED published
      BY <3>1 DEF MissionThread, StartMission, PlanSteps, NextStep, DoStep, Succeed,
         Finish, ReturnResult, radioVars
    <3>2. ASSUME NEW g \in Goals,
                 \/ OnGoalRequest(g) \/ AdmitGoal(g) \/ OnCancelRequest(g)
                 \/ TimerFires(g) \/ ResetToAvailable(g)
          PROVE  UNCHANGED published
      BY <3>2 DEF OnGoalRequest, AdmitGoal, OnCancelRequest, TimerFires,
         ResetToAvailable, radioVars
    <3> QED BY <1>1, <2>2, <3>1, <3>2
         DEF Next, Tick, SetLink, SetHasBattery, vars, radioVars
  <2> QED BY <2>1, <2>2
<1>2. IInv /\ [Next]_vars
        => [("BATTERY_DEPLETED" \in published.errors) => UNCHANGED published]_vars
  BY <1>1
<1> QED BY <1>2, MachineInvariant, PTL DEF SafeSpec, FlatBatteryHasLastWord

\* A message whose health is explained by its codes, as HeartbeatExplainsHealth
\* asks of the one on the air.
Explains(msg) ==
  /\ msg.health = "FAULT" <=>
       msg.errors \cap {"BATTERY_DEPLETED", "BATTERY_CRITICAL",
                        "SIM_SENSOR_GLITCH"} # {}
  /\ msg.health = "DEGRADED" <=>
       msg.errors \cap {"BATTERY_LOW", "SIM_SENSOR_GLITCH"} = {"BATTERY_LOW"}
  /\ "BATTERY_DEPLETED" \in msg.errors => "SIM_SENSOR_GLITCH" \notin msg.errors

\* Only a message that will be sent has to: after the first one of a dead machine
\* the health may come from a fault blip while the mission's code says DEPLETED.
ExplainInv ==
  /\ published # NoMessage => Explains(published)
  /\ heartbeat # NoBeat /\ (heartbeat.dead => heartbeat.newlyDead)
       => Explains(heartbeat.msg)

\* The two tables of thresholds agree for every battery, with or without a blip,
\* as long as no mission code says BATTERY_DEPLETED.
LEMMA TablesAgree ==
  ASSUME TypeOK, "BATTERY_DEPLETED" \notin missionErrors,
         NEW b \in Nat, NEW blip \in BOOLEAN
  PROVE  Explains(BuildMessage(b, HealthUpdate(b, blip)))
<1> DEFINE h == HealthUpdate(b, blip)
           codes == BatteryError(b) \cup (IF h.glitch THEN {"SIM_SENSOR_GLITCH"} ELSE {})
           msg == BuildMessage(b, h)
<1>1. missionErrors \subseteq {"OBSTACLE_DETECTED"}
  BY DEF TypeOK, ErrorCodes
<1>2. /\ msg.health = h.health
      /\ msg.errors = missionErrors \cup codes
  BY DEF BuildMessage
<1>3. \/ /\ h.health = "FAULT"
         /\ codes \in {{"BATTERY_DEPLETED"}, {"BATTERY_CRITICAL"}}
      \/ /\ h.health = "FAULT"
         /\ codes \in {{"BATTERY_CRITICAL", "SIM_SENSOR_GLITCH"},
                       {"BATTERY_LOW", "SIM_SENSOR_GLITCH"}, {"SIM_SENSOR_GLITCH"}}
      \/ h.health = "DEGRADED" /\ codes = {"BATTERY_LOW"}
      \/ h.health = "OK" /\ codes = {}
  <2>1. CASE hasBattery /\ b = 0
    <3>1. h.health = "FAULT" /\ h.glitch = FALSE
      BY <2>1 DEF HealthUpdate
    <3>2. BatteryError(b) = {"BATTERY_DEPLETED"}
      BY <2>1 DEF BatteryError
    <3> QED BY <3>1, <3>2
  <2>2. CASE ~(hasBattery /\ b = 0) /\ (faultTicksLeft > 0 \/ blip)
    <3>1. h.health = "FAULT" /\ h.glitch = TRUE
      BY <2>2 DEF HealthUpdate
    <3>2. BatteryError(b) \in {{}, {"BATTERY_CRITICAL"}, {"BATTERY_LOW"}}
      BY <2>2 DEF BatteryError
    <3> QED BY <3>1, <3>2
  <2>3. CASE ~(hasBattery /\ b = 0) /\ ~(faultTicksLeft > 0) /\ ~blip
    <3> DEFINE band == CASE hasBattery /\ b < CriticalBelow -> "FAULT"
                         [] hasBattery /\ b >= CriticalBelow /\ b < DegradedBelow -> "DEGRADED"
                         [] OTHER -> "OK"
    <3>1. h.health = band /\ h.glitch = FALSE
      BY <2>3 DEF HealthUpdate
    <3>2. \/ band = "FAULT" /\ BatteryError(b) = {"BATTERY_CRITICAL"}
          \/ band = "DEGRADED" /\ BatteryError(b) = {"BATTERY_LOW"}
          \/ band = "OK" /\ BatteryError(b) = {}
      BY <2>3 DEF BatteryError
    <3> QED BY <3>1, <3>2
  <2> QED BY <2>1, <2>2, <2>3
<1> HIDE DEF h, codes, msg
<1>4. Explains(msg)
  BY <1>1, <1>2, <1>3 DEF Explains
<1> QED BY <1>4 DEF msg, h

\* Tick builds a message that explains itself or will not be sent; nothing else
\* touches a message.
LEMMA ExplainStep ==
  ASSUME IInv, ExplainInv, [Next]_vars PROVE ExplainInv'
<1>1. CASE Tick
  <2> PICK blip \in BOOLEAN :
         heartbeat' = [pending |-> TRUE,
                       msg |-> BuildMessage(DrainedBattery, HealthUpdate(DrainedBattery, blip)),
                       dead |-> HealthUpdate(DrainedBattery, blip).dead,
                       newlyDead |-> /\ HealthUpdate(DrainedBattery, blip).dead
                                     /\ ~deathAnnounced]
    BY <1>1, Zenon DEF Tick
  <2>1. HealthUpdate(DrainedBattery, blip).dead
          = (batteryDead \/ (hasBattery /\ DrainedBattery = 0))
    BY HealthUpdateType, DrainedBatteryType DEF IInv
  <2>2. (heartbeat'.dead => heartbeat'.newlyDead) => ~batteryDead
    BY <2>1 DEF IInv, DeathInv, TypeOK
  <2>3. ~batteryDead => Explains(heartbeat'.msg)
    BY TablesAgree, DrainedBatteryType DEF IInv, DeathInv
  <2> QED BY <1>1, <2>2, <2>3 DEF ExplainInv, Tick, Explains
<1>2. CASE TickPublish
  BY <1>2 DEF TickPublish, ExplainInv, Explains
<1>3. CASE ~Tick /\ ~TickPublish
  <2>1. ASSUME NEW g \in Goals, MissionThread(g)
        PROVE  UNCHANGED radioVars
    BY <2>1 DEF MissionThread, StartMission, PlanSteps, NextStep, DoStep, Succeed,
       Finish, ReturnResult
  <2>2. ASSUME NEW g \in Goals,
               \/ OnGoalRequest(g) \/ AdmitGoal(g) \/ OnCancelRequest(g)
               \/ TimerFires(g) \/ ResetToAvailable(g)
        PROVE  UNCHANGED radioVars
    BY <2>2 DEF OnGoalRequest, AdmitGoal, OnCancelRequest, TimerFires, ResetToAvailable
  <2>3. UNCHANGED radioVars
    BY <1>3, <2>1, <2>2 DEF Next, SetLink, SetHasBattery, vars
  <2> QED BY <2>3 DEF radioVars, ExplainInv, Explains
<1> QED BY <1>1, <1>2, <1>3

\* Every FAULT and DEGRADED on the air is explained by a code, whatever the
\* thresholds, the drains and the throws of the dice.
THEOREM MachineExplainsHealth == SafeSpec => []HeartbeatExplainsHealth
<1>1. Init => ExplainInv
  BY DEF Init, ExplainInv
<1>2. IInv /\ ExplainInv /\ [Next]_vars => ExplainInv'
  BY ExplainStep
<1>3. ExplainInv => HeartbeatExplainsHealth
  BY DEF ExplainInv, Explains, HeartbeatExplainsHealth
<1> QED BY <1>1, <1>2, <1>3, MachineInvariant, PTL DEF SafeSpec

-----------------------------------------------------------------------------
(* The lifecycle *)

\* A step that changes neither the published workflow fields nor a goal's verdict
\* is a stutter of the lifecycle.
LEMMA LifecycleStutter ==
  ASSUME UNCHANGED <<state, currentMission, status>>
  PROVE  UNCHANGED Lifecycle!vars
BY DEF Lifecycle!vars, VerdictOf

\* The goal callback: Refuse, Accept, or nothing.
LEMMA GoalCallbackRefines ==
  ASSUME IInv, NEW g \in Goals,
         OnGoalRequest(g) \/ AdmitGoal(g) \/ OnCancelRequest(g)
  PROVE  [Lifecycle!Next]_(Lifecycle!vars)
<1> USE DEF IInv, TypeOK, missionVars
<1>1. ASSUME Reject(g), pc[g] \in {"unsent", "admitting"}
      PROVE  Lifecycle!Refuse(g)
  <2>1. /\ status[g] = "unknown"
        /\ currentMission # g
    BY <1>1 DEF ThreadInv, HolderInv
  <2> QED BY <1>1, <2>1 DEF Reject, Lifecycle!Refuse, VerdictOf, Ended
<1>2. CASE OnGoalRequest(g)
  BY <1>1, <1>2, LifecycleStutter DEF OnGoalRequest, Lifecycle!Next
<1>3. CASE AdmitGoal(g)
  <2>1. CASE FitForWork
    <3>1. status[g] = "unknown"
      BY <1>3 DEF AdmitGoal, ThreadInv
    <3>2. [h \in Goals |-> VerdictOf(status[h])]' = [h \in Goals |-> VerdictOf(status[h])]
      BY <1>3, <2>1, <3>1 DEF AdmitGoal, VerdictOf, Ended
    <3>3. Lifecycle!Accept(g)
      BY <1>3, <2>1, <3>1, <3>2 DEF AdmitGoal, FitForWork, Lifecycle!Accept, VerdictOf, Ended
    <3> QED BY <3>3 DEF Lifecycle!Next
  <2>2. CASE ~FitForWork
    BY <1>1, <1>3, <2>2 DEF AdmitGoal, Lifecycle!Next
  <2> QED BY <2>1, <2>2
<1>4. CASE OnCancelRequest(g)
  <2>1. [h \in Goals |-> VerdictOf(status[h])]' = [h \in Goals |-> VerdictOf(status[h])]
    BY <1>4 DEF OnCancelRequest, Cancellable, VerdictOf, Ended
  <2> QED BY <1>4, <2>1 DEF OnCancelRequest, Lifecycle!vars
<1> QED BY <1>2, <1>3, <1>4

\* A live goal whose status ends is the holder being decided.
LEMMA DecideRefines ==
  ASSUME IInv, NEW g \in Goals, NEW e \in Ended,
         status[g] \in Active,
         state = "ASSIGNED" => e = "aborted",
         status' = [status EXCEPT ![g] = e],
         UNCHANGED <<state, currentMission>>
  PROVE  Lifecycle!Next
<1>1. currentMission = g /\ state \in {"ASSIGNED", "RUNNING"}
  BY DEF IInv, HolderInv
<1>2. Lifecycle!Decide(e)
  BY <1>1 DEF IInv, TypeOK, Lifecycle!Decide, VerdictOf, Ended, Active
<1> QED BY <1>2 DEF Lifecycle!Next, Lifecycle!Endings, Ended

\* The mission thread: Begin, Decide, Land, or nothing.
LEMMA MissionThreadRefines ==
  ASSUME IInv, NEW g \in Goals, MissionThread(g)
  PROVE  [Lifecycle!Next]_(Lifecycle!vars)
<1> USE DEF IInv, TypeOK, missionVars
<1>1. CASE StartMission(g)
  <2>1. CASE TargetOf[g] = "overflow"
    BY <1>1, <2>1, LifecycleStutter DEF StartMission
  <2>2. CASE TargetOf[g] # "overflow"
    <3>1. state = "ASSIGNED"
      BY <1>1 DEF StartMission, HolderInv, InMission
    <3>2. Lifecycle!Begin
      BY <1>1, <2>2, <3>1 DEF StartMission, Lifecycle!Begin, VerdictOf
    <3> QED BY <3>2 DEF Lifecycle!Next
  <2> QED BY <2>1, <2>2
<1>2. CASE PlanSteps(g)
  BY <1>2, LifecycleStutter DEF PlanSteps
<1>3. ASSUME NEW e \in Ended, NEW o, End(g, e, o),
             pc[g] \in {"loop", "working"}, UNCHANGED <<state, currentMission>>
      PROVE  Lifecycle!Next
  <2>1. status[g] \in Active /\ state = "RUNNING"
    BY <1>3 DEF ThreadInv, HolderInv, InMission
  <2> QED BY <1>3, <2>1, DecideRefines DEF End
<1>4. CASE NextStep(g)
  <2>1. CASE status[g] = "canceling"
    BY <1>3, <1>4, <2>1 DEF NextStep, Ended
  <2>2. CASE status[g] # "canceling"
    BY <1>4, <2>2, LifecycleStutter DEF NextStep
  <2> QED BY <2>1, <2>2
<1>5. CASE DoStep(g)
  <2>1. "aborted" \in Ended
    BY DEF Ended
  <2>2. \/ \E o \in {"depleted", "obstacle"} : End(g, "aborted", o)
        \/ UNCHANGED status
    BY <1>5 DEF DoStep
  <2> QED BY <1>3, <1>5, <2>1, <2>2, LifecycleStutter DEF DoStep
<1>6. CASE Succeed(g)
  BY <1>3, <1>6 DEF Succeed, Ended
<1>7. CASE Finish(g)
  <2>1. /\ currentMission = g
        /\ state = "RUNNING"
        /\ Agrees(outcome[g], status[g])
    BY <1>7 DEF Finish, ThreadInv, HolderInv, InMission
  <2>2. /\ status[g] \in Ended
        /\ status[g] = "succeeded" <=> outcome[g] = "completed"
    BY <2>1 DEF Agrees, Ended
  <2>3. Lifecycle!Land
    BY <1>7, <2>1, <2>2 DEF Finish, TerminalStateOf, Lifecycle!Land, Lifecycle!Endings,
       VerdictOf, Ended
  <2> QED BY <2>3 DEF Lifecycle!Next
<1>8. CASE ReturnResult(g)
  <2>1. CASE status[g] \in Active
    BY <1>8, <2>1, DecideRefines DEF ReturnResult, Ended
  <2>2. CASE status[g] \notin Active
    BY <1>8, <2>2, LifecycleStutter DEF ReturnResult
  <2> QED BY <2>1, <2>2
<1> QED BY <1>1, <1>2, <1>4, <1>5, <1>6, <1>7, <1>8 DEF MissionThread

\* Everything else: Release, or nothing.
LEMMA OtherRefines ==
  ASSUME IInv,
         \/ \E g \in Goals : TimerFires(g) \/ ResetToAvailable(g)
         \/ Tick
         \/ TickPublish
         \/ \E l \in LinkSettings : SetLink(l)
         \/ \E b \in BatterySettings : SetHasBattery(b)
         \/ UNCHANGED vars
  PROVE  [Lifecycle!Next]_(Lifecycle!vars)
<1>1. ASSUME NEW g \in Goals, ResetToAvailable(g)
      PROVE  Lifecycle!Next
  <2>1. state \in Terminal
    BY <1>1 DEF ResetToAvailable, IInv, ResetTimerBelongsToMission
  <2>2. Lifecycle!Release
    BY <1>1, <2>1 DEF ResetToAvailable, Resettable, Lifecycle!Release,
       Lifecycle!Terminal, Terminal, goalVars, VerdictOf
  <2> QED BY <2>2 DEF Lifecycle!Next
<1>2. CASE ~\E g \in Goals : ResetToAvailable(g)
  <2>1. UNCHANGED <<state, currentMission, status>>
    BY <1>2 DEF TimerFires, Tick, TickPublish, SetLink, SetHasBattery, vars,
       missionVars, goalVars
  <2> QED BY <2>1, LifecycleStutter
<1> QED BY <1>1, <1>2

\* Whatever goals are sent and whatever their targets, the machine follows the
\* lifecycle: every step of it is a step of MissionLifecycle or a stutter.
THEOREM MachineImplementsLifecycle == SafeSpec => ImplementsLifecycle
<1>1. Init => Lifecycle!Init
  BY DEF Init, Lifecycle!Init, VerdictOf, Ended
<1>2. IInv /\ [Next]_vars => [Lifecycle!Next]_(Lifecycle!vars)
  BY GoalCallbackRefines, MissionThreadRefines, OtherRefines DEF Next
<1> QED BY <1>1, <1>2, MachineInvariant, PTL
     DEF SafeSpec, ImplementsLifecycle, Lifecycle!SafeSpec

-----------------------------------------------------------------------------
(* The contract *)

\* A step that decides no goal and answers none is a stutter of the contract.
LEMMA ContractStutter ==
  ASSUME UNCHANGED result,
         \A g \in Goals :
           \/ status'[g] = status[g]
           \/ status[g] \in Active /\ status'[g] \in Active
  PROVE  UNCHANGED Contract!vars
<1>1. \A g \in Goals : SeenOf(status'[g], result'[g]) = SeenOf(status[g], result[g])
  BY DEF SeenOf, Active
<1> QED  BY <1>1 DEF Contract!vars

\* Without a Result a client sees how the goal ended as it did.
LEMMA SeenEnd ==
  ASSUME NEW e \in Ended  PROVE SeenOf(e, NoResult) = e
<1>1. NoResult.result_state # "RESULT_COMPLETED"  BY DEF NoResult
<1>2. CASE e = "aborted"    BY <1>1, <1>2 DEF SeenOf, Active
<1>3. CASE e = "succeeded"  BY <1>3 DEF SeenOf, Active
<1>4. CASE e = "canceled"   BY <1>4 DEF SeenOf, Active
<1> QED  BY <1>2, <1>3, <1>4 DEF Ended

\* The status of one goal moves.
LEMMA OneGoalMoves ==
  ASSUME TypeOK, NEW g \in Goals, NEW s \in Statuses,
         status' = [status EXCEPT ![g] = s], UNCHANGED result
  PROVE  /\ [h \in Goals |-> SeenOf(status[h], result[h])]'
              = [[h \in Goals |-> SeenOf(status[h], result[h])] EXCEPT ![g] = SeenOf(s, result[g])]
         /\ UNCHANGED [h \in Goals |-> AnswerOf(result[h])]
BY DEF TypeOK

\* The goal callback: Refuse, Accept, or nothing.
LEMMA GoalCallbackKeepsContract ==
  ASSUME IInv, NEW g \in Goals,
         OnGoalRequest(g) \/ AdmitGoal(g) \/ OnCancelRequest(g)
  PROVE  [Contract!Next]_(Contract!vars)
<1>1. TypeOK /\ ThreadInv /\ HolderInv  BY DEF IInv
<1>2. ASSUME Reject(g), pc[g] \in {"unsent", "admitting"}
      PROVE  Contract!Refuse(g)
  <2>1. status[g] = "unknown"  BY <1>1, <1>2 DEF ThreadInv
  <2>2. status' = [status EXCEPT ![g] = "rejected"] /\ UNCHANGED result
    BY <1>2 DEF Reject, goalVars
  <2>3. "rejected" \in Statuses  BY DEF Statuses
  <2>4. SeenOf("rejected", result[g]) = "refused" /\ SeenOf("unknown", result[g]) = "open"
    BY DEF SeenOf, Active
  <2> QED  BY <1>1, <2>1, <2>2, <2>3, <2>4, OneGoalMoves DEF Contract!Refuse
<1>3. CASE OnGoalRequest(g)
  BY <1>2, <1>3, ContractStutter DEF OnGoalRequest, Contract!Next
<1>4. CASE AdmitGoal(g)
  <2>1. CASE ~FitForWork  BY <1>2, <1>4, <2>1 DEF AdmitGoal, Contract!Next
  <2>2. CASE FitForWork
    <3>1. /\ status[g] = "unknown"
          /\ status' = [status EXCEPT ![g] = "executing"] /\ UNCHANGED result
      BY <1>1, <1>4, <2>2 DEF AdmitGoal, ThreadInv
    <3>2. \A h \in Goals : status[h] \notin Active
      BY <1>1, <2>2 DEF FitForWork, HolderInv
    <3>3. \A h \in Goals : SeenOf(status[h], result[h]) # "accepted"
      BY <1>1, <3>2 DEF SeenOf, TypeOK, Statuses, Ended
    <3>4. "executing" \in Statuses  BY DEF Statuses, Active
    <3>5. /\ SeenOf("executing", result[g]) = "accepted"
          /\ SeenOf("unknown", result[g]) = "open"
      BY DEF SeenOf, Active
    <3>6. Contract!Accept(g)
      BY <1>1, <3>1, <3>3, <3>4, <3>5, OneGoalMoves DEF Contract!Accept
    <3> QED  BY <3>6 DEF Contract!Next
  <2> QED  BY <2>1, <2>2
<1>5. CASE OnCancelRequest(g)
  <2>1. UNCHANGED result /\ \A h \in Goals :
          status'[h] = status[h] \/ (status[h] \in Active /\ status'[h] \in Active)
    BY <1>1, <1>5 DEF OnCancelRequest, Cancellable, TypeOK, Active
  <2> QED  BY <2>1, ContractStutter
<1> QED  BY <1>3, <1>4, <1>5

\* A live goal is decided, its Result follows.
LEMMA EndKeepsContract ==
  ASSUME IInv, NEW g \in Goals, NEW e \in Ended, NEW o,
         status[g] \in Active, pc[g] # "done", End(g, e, o), UNCHANGED result
  PROVE  Contract!Next
<1>1. TypeOK /\ ThreadInv  BY DEF IInv
<1>2. status' = [status EXCEPT ![g] = e] /\ e \in Statuses  BY DEF End, Statuses
<1>3. result[g] = NoResult  BY <1>1 DEF ThreadInv
<1>4. SeenOf(e, result[g]) = e  BY <1>3, SeenEnd
<1>5. SeenOf(status[g], result[g]) = "accepted"  BY DEF SeenOf, Active
<1>6. e \in Contract!Ends  BY DEF Contract!Ends, Ended
<1>7. Contract!End(g)
  BY <1>1, <1>2, <1>4, <1>5, <1>6, OneGoalMoves DEF Contract!End
<1> QED  BY <1>7 DEF Contract!Next

\* The Result is what the goal ended with; a callback that raised ends its goal
\* only now, and its Result comes with the end.
LEMMA ReturnKeepsContract ==
  ASSUME IInv, NEW g \in Goals, ReturnResult(g)
  PROVE  Contract!Next
<1> DEFINE seen == [h \in Goals |-> SeenOf(status[h], result[h])]
           told == [h \in Goals |-> AnswerOf(result[h])]
           e    == IF status[g] \in Active THEN "aborted" ELSE status[g]
           r    == ResultOf(outcome[g])
<1>1. TypeOK /\ ThreadInv  BY DEF IInv
<1>2. /\ pc[g] = "returning" /\ result[g] = NoResult
      /\ status'[g] = e /\ result'[g] = r
      /\ \A h \in Goals \ {g} : status'[h] = status[h] /\ result'[h] = result[h]
  BY <1>1 DEF ReturnResult, TypeOK, ThreadInv
<1>3. AnswerOf(result[g]) = "none"  BY <1>2 DEF AnswerOf
<1>4. r # NoResult
  BY DEF ResultOf, NoResult
<1>5. /\ r.result_state = "RESULT_COMPLETED" <=> outcome[g] \in {"completed", "raised"}
      /\ AnswerOf(r) = IF outcome[g] \in {"completed", "raised"} THEN "COMPLETED" ELSE "EXCEPTION"
  BY <1>4 DEF AnswerOf, ResultOf
<1> HIDE DEF r
<1>6. CASE Agrees(outcome[g], status[g])
  <2>1. status[g] \in Ended /\ e = status[g]  BY <1>6 DEF Agrees, Ended, Active
  <2>2. SeenOf(status[g], result[g]) = status[g]  BY <1>2, <2>1, SeenEnd
  <2>3. SeenOf(e, r) = status[g]
    BY <1>5, <1>6, <2>1 DEF SeenOf, Agrees, Ended, Active
  <2>4. AnswerOf(r) = Contract!ResultFor(status[g])
    BY <1>5, <1>6 DEF Agrees, Contract!ResultFor
  <2>5. UNCHANGED seen /\ told' = [told EXCEPT ![g] = Contract!ResultFor(status[g])]
    BY <1>2, <2>2, <2>3, <2>4
  <2>6. seen[g] = status[g] /\ told[g] = "none" /\ status[g] \in Contract!Ends
    BY <1>3, <2>1, <2>2 DEF Contract!Ends, Ended
  <2>7. Contract!Answer(g)  BY <2>5, <2>6 DEF Contract!Answer
  <2> QED  BY <2>7 DEF Contract!Next
<1>7. CASE outcome[g] = "raised" /\ status[g] \in Active
  <2>1. SeenOf(status[g], result[g]) = "accepted"  BY <1>7 DEF SeenOf, Active
  <2>2. SeenOf(e, r) = "raised"  BY <1>5, <1>7 DEF SeenOf, Active
  <2>3. AnswerOf(r) = Contract!ResultFor("raised")  BY <1>5, <1>7 DEF Contract!ResultFor
  <2>4. /\ seen' = [seen EXCEPT ![g] = "raised"] /\ seen[g] = "accepted"
        /\ told' = [told EXCEPT ![g] = Contract!ResultFor("raised")]
    BY <1>2, <2>1, <2>2, <2>3
  <2>5. "raised" \in Contract!Ends  BY DEF Contract!Ends
  <2>6. Contract!End(g)  BY <2>4, <2>5 DEF Contract!End
  <2> QED  BY <2>6 DEF Contract!Next
<1> QED  BY <1>1, <1>2, <1>6, <1>7 DEF ThreadInv

LEMMA MissionThreadKeepsContract ==
  ASSUME IInv, NEW g \in Goals, MissionThread(g)
  PROVE  [Contract!Next]_(Contract!vars)
<1>1. ThreadInv  BY DEF IInv
<1>2. CASE StartMission(g) \/ PlanSteps(g) \/ Finish(g)
  <2>1. UNCHANGED <<status, result>>  BY <1>2 DEF StartMission, PlanSteps, Finish
  <2> QED  BY <2>1, ContractStutter
<1>3. CASE NextStep(g) \/ DoStep(g) \/ Succeed(g)
  <2>1. status[g] \in Active /\ pc[g] # "done" /\ UNCHANGED result
    BY <1>1, <1>3 DEF ThreadInv, NextStep, DoStep, Succeed
  <2>2. \/ UNCHANGED status
        \/ \E e \in Ended : \E o \in Outcomes : End(g, e, o)
    BY <1>3 DEF NextStep, DoStep, Succeed, Ended, Outcomes
  <2> QED  BY <2>1, <2>2, EndKeepsContract, ContractStutter
<1>4. CASE ReturnResult(g)  BY <1>4, ReturnKeepsContract
<1> QED  BY <1>2, <1>3, <1>4 DEF MissionThread

\* Whatever requests, cancels, targets and battery: a goal gets one verdict and
\* one Result that agrees with it, and no other is accepted before.
THEOREM MachineKeepsGoalContract == SafeSpec => KeepsGoalContract
<1>1. Init => Contract!Init
  BY DEF Init, Contract!Init, SeenOf, AnswerOf, Active
<1>2. ASSUME IInv, [Next]_vars  PROVE [Contract!Next]_(Contract!vars)
  <2>1. CASE \E g \in Goals : OnGoalRequest(g) \/ AdmitGoal(g) \/ OnCancelRequest(g)
    BY <1>2, <2>1, GoalCallbackKeepsContract
  <2>2. CASE \E g \in Goals : MissionThread(g)
    BY <1>2, <2>2, MissionThreadKeepsContract
  <2>3. CASE \/ \E g \in Goals : TimerFires(g) \/ ResetToAvailable(g)
             \/ Tick \/ TickPublish
             \/ \E l \in LinkSettings : SetLink(l)
             \/ \E b \in BatterySettings : SetHasBattery(b)
             \/ UNCHANGED vars
    <3>1. UNCHANGED <<status, result>>
      BY <2>3 DEF TimerFires, ResetToAvailable, Tick, TickPublish, SetLink, SetHasBattery,
         goalVars, vars
    <3> QED  BY <3>1, ContractStutter
  <2> QED  BY <1>2, <2>1, <2>2, <2>3 DEF Next
<1> QED  BY <1>1, <1>2, MachineInvariant, PTL
     DEF SafeSpec, KeepsGoalContract, Contract!SafeSpec
=============================================================================
