CONSTANTS
  None = None
  Times <- MCTimes
  Ids <- MCIds
  Rule <- MCRule
  MaxVisits = 5
SPECIFICATION Spec
INVARIANTS TypeOK ProgressIsVisits CleanVisitsComplete CompletesOnlyAfterVisits
