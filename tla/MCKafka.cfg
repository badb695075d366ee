CONSTANTS
  None = None
  Garbage = Garbage
  Misshapen = Misshapen
  Entities = {1}
  Times <- MCTimes
  Zones = {1}
  Circles = {1}
  Points = {0, 1}
  Areas <- MCAreas
  HistorySize = 0
  Messages <- MCMessages
  Registered <- MCRegistered
  Backends = {TRUE, FALSE}
  MaxMessages = 3
  MaxTrouble = 2
SPECIFICATION FairSpec
INVARIANT ToldIsMembership
PROPERTIES RedeliveryTellsNothing EverythingIsPassed
CHECK_DEADLOCK FALSE
