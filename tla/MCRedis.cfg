CONSTANTS
  Bad = Bad
  Latest = Latest
  Loops = {1, 2}
  StartIds <- MCStartIds
  BatchSize = 2
  Entries <- MCEntries
  OneAtATime = TRUE
  MaxEntries = 4
  MaxFailures = 1
SPECIFICATION FairSpec
INVARIANTS IngestedOnceInOrder EventsAreAccountedFor
PROPERTY EverythingIsAdded
CHECK_DEADLOCK FALSE
