SPECIFICATION PathSafeSpec
CHECK_DEADLOCK FALSE
CONSTANTS
  c1 = c1
  c2 = c2
  i1 = i1
  i2 = i2
  t1 = t1
  t2 = t2
  Calls = {c1}
  Ids = {i1}
  IdOf <- MCIdOf
  Machines = {m1}
  NoMachine = NoMachine
  NoRecord = NoRecord
  NoRow = NoRow
  Idle = Idle
  Free = Free
  Loop = Loop
  Threads = {t1, t2}
  NoThread = NoThread
  MaxFeedback = 1
  MaxQueued = 3
  HeartbeatRoom = 1
  PushesToOS = TRUE
  ViaOS = {c1}
  Direct = {c1}
  Losses = FALSE
  Restarts = FALSE
  RegisteredFirst = TRUE
PROPERTIES
  CompletedStaysCompleted
