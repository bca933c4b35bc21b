SPECIFICATION Spec
CONSTANTS
  m1 = m1
  cleaning = cleaning
  t1 = t1
  t2 = t2
  w1 = w1
  Ids = {}
  Machines = {m1}
  NoMachine = NoMachine
  MaxQueued = 1
  Idle = Idle
  Capabilities = {cleaning}
  MinBattery = 10
  Mains = Mains
  Unnamed = Unnamed
  Place <- MCPlace
  NoRecord = NoRecord
  Topics = {m1}
  Says <- MCSays
  Silence = Silence
  Executors = {t1, t2}
  NoTask = NoTask
  NoRow = NoRow
  Pool = {w1}
  Losses = TRUE
  Restarts = TRUE
INVARIANTS
  FleetTypeOK
  OneReportPerSilence
  SilenceIsHeeded
  RowsAreRegistered
PROPERTIES
  SteadyIsShown
  SilenceIsShown
