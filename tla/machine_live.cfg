SPECIFICATION Spec
CONSTANTS
  g1 = g1
  g2 = g2
  NoMission = NoMission
  Goals <- MCGoals
  Capable <- MCCapable
  Failing <- MCFailing
  TargetOf <- AllFinite
  MissionSteps = 0
  MinSteps = 1
  MaxSteps = 3
  FailureAtPercent = 60
  InitialBattery = 4
  DrainRunning = 2
  DrainIdle = 1
  CriticalBelow = 2
  MissionMinimum = 3
  DegradedBelow = 4
  FaultProbability = 0
  FaultBlipTicks = 1
  LinkSettings = {"online", "offline"}
  BatterySettings = {TRUE}
PROPERTIES
  CarriesMissionsToTheEnd
  EveryGoalIsAnswered
