SPECIFICATION SafeSpec
CONSTANTS
  g1 = g1
  g2 = g2
  NoMission = NoMission
  Goals <- MCGoals
  Capable <- MCCapable
  Failing <- MCFailing
  TargetOf <- AllFinite
  MissionSteps = 0
  MinSteps = 1
  MaxSteps = 1
  FailureAtPercent = 60
  InitialBattery = 2
  DrainRunning = 1
  DrainIdle = 1
  CriticalBelow = 1
  MissionMinimum = 1
  DegradedBelow = 1
  FaultProbability = 0
  FaultBlipTicks = 1
  LinkSettings = {"online"}
  BatterySettings = {TRUE}
INVARIANTS
  MissionAbortsBeforeLastHeartbeat
