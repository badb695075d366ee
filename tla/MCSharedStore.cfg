CONSTANTS
  None = None
  Times <- MCTimes
  Entities = {1, 2}
  Zones = {"z"}
  Circles = {"c"}
  Points = {0, 1, 2}
  Areas = {{1}, {1, 2}}
  HistorySize = 1
  Engines = {"m1", "m2"}
  Registered <- MCRegistered
  Route <- MCPartition
  WaitsForZones = TRUE
  MaxUpdates = 4
SPECIFICATION Spec
INVARIANTS ToldIsStored StoredIsWhereItIs
CHECK_DEADLOCK FALSE
