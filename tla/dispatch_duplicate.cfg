SPECIFICATION SafeSpec
CHECK_DEADLOCK FALSE
CONSTANTS
  c1 = c1
  c2 = c2
  i1 = i1
  i2 = i2
  Calls <- MCCalls
  Ids = {i1, i2}
  IdOf <- SharedId
  Machines = {m1}
  NoMachine = NoMachine
  NoRecord = NoRecord
  Idle = Idle
  MaxFeedback = 1
  MaxQueued = 2
  PushesToOS = TRUE
INVARIANTS
  OneGoalPerId
