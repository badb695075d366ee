CONSTANTS
  None = None
  Times <- MCTimes
  DwellConfigs <- MCDwellConfigs
SPECIFICATION DwellSpec
INVARIANTS DwellTypeOK PendingIsCurrentRun NothingOverdue
PROPERTIES TransitionIsEarned ImplementsDebounce
