CONSTANTS
  Bad = Bad
  Latest = Latest
  Loops = {1, 2}
  StartIds <- MCStartIds
  BatchSize = 2
  Entries <- MCEntries
  OneAtATime = FALSE
  MaxEntries = 2
  MaxFailures = 1
SPECIFICATION FairSpec
PROPERTY StopStopsTheLoop
CHECK_DEADLOCK FALSE
