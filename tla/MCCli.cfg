CONSTANTS
  None = None
  Broken = Broken
  Entities <- MCEntities
  Times <- MCTimes
  Zones = {1}
  Circles = {1}
  Points <- MCPoints
  Areas = {{1}}
  HistorySize = 0
  Parts <- MCParts
  BatchSizes = {0, 1, 2}
  MaxParts = 2
  MaxFed = 3
SPECIFICATION CliSpec
INVARIANTS ViewIsSaved SavedIsOneByOne ErrorsNameTheirLines
CHECK_DEADLOCK FALSE
