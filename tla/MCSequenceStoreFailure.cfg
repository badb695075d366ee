CONSTANTS
  None = None
  v1 = v1
  Entities = {v1}
  Times <- MCTimes
  Zones = {"a"}
  Circles = {"b"}
  Points <- MCPoints
  Areas <- MCAreas
  HistorySize = 0
  DwellConfigs <- MCDwellConfigs
  Rules <- MCRules
  Sequences <- MCSequences
  Faults = {"set"}
  MaxRules = 1
  MaxUpdates = 3
SPECIFICATION SSpec
INVARIANT CompletesOnlyOnStepsReported
CHECK_DEADLOCK FALSE
