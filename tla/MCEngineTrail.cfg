CONSTANTS
  None = None
  v1 = v1
  v2 = v2
  Entities = {v1, v2}
  Times <- MCTimes
  Zones = {"a"}
  Circles = {"a"}
  Points <- MCPoints
  Areas <- MCAreas
  HistorySize = 2
  DwellConfigs <- MCDwellConfigs
  Rules <- MCRules
  Sequences <- MCSequences
  Faults = {"get", "set", "lost"}
  MaxRules = 1
  MaxUpdates = 3
SPECIFICATION TSpec
SYMMETRY EntitySymmetry
INVARIANTS TypeOK ViewIsMembership StateIsLatestSamples FiltersJudgeTheLastLeg
PROPERTIES TimeMovesForward ImplementsDwell RetryEndsTheSame RuleFiresOnItsTransition
CHECK_DEADLOCK FALSE
