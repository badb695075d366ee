CONSTANTS
  None = None
  Entities <- MCEntities
  Times <- MCTimes
  Zones = {1}
  Circles = {1}
  Points <- MCPoints
  Areas = {{1}}
  HistorySize = 1
  Engines <- MCEngines
  MaxUpdates = 3
  MaxBroken = 1
SPECIFICATION Spec
PROPERTIES RefusesOnlyLateArrivals ShufflingChangesNothing EntitiesAreIndependent OutputFoldsToMembership
CHECK_DEADLOCK FALSE
