CONSTANTS
  None = None
  v1 = v1
  v2 = v2
  Entities = {v1, v2}
  Times <- MCTimes
  Zones = {"a"}
  Circles = {"b"}
  Points <- MCPoints
  Areas <- MCAreas
  HistorySize = 0
  DwellConfigs <- MCDwellConfigs
  Rules <- MCRules
  Sequences <- MCSequences
  Faults = {}
  MaxRules = 1
  MaxUpdates = 3
SPECIFICATION SSpec
SYMMETRY EntitySymmetry
PROPERTY ImplementsSequenceRule
CHECK_DEADLOCK FALSE
