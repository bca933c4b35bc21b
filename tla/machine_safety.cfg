SPECIFICATION SafeSpec
CONSTANTS
  g1 = g1
  g2 = g2
  NoMission = NoMission
  Goals <- MCGoals
  Capable <- MCCapable
  Failing <- MCFailing
  TargetOf <- OneRaises
  MissionSteps = 0
  MinSteps = 2
  MaxSteps = 2
  FailureAtPercent = 60
  InitialBattery = 4
  DrainRunning = 2
  DrainIdle = 1
  CriticalBelow = 2
  MissionMinimum = 3
  DegradedBelow = 4
  FaultProbability = 1
  FaultBlipTicks = 1
  LinkSettings = {"online", "connection_broken"}
  BatterySettings = {TRUE, FALSE}
INVARIANTS
  TypeOK
  OneMissionAtATime
  ResetTimerBelongsToMission
  ResultAgreesWithStatus
  HeartbeatExplainsHealth
  ShownStateAgreesWithMission
PROPERTIES
  FlatBatteryHasLastWord
  KeepsGoalContract
  ImplementsLifecycle
