CONSTANTS
  None = None
  Half = 2
  Entities <- MCEntities
  Times <- MCTimes
  Zones = {1, 2}
  Circles = {1}
  Points <- MCPoints
  Areas <- MCAreas
  HistorySize = 0
  ZoneCalls <- MCZoneCalls
  CircleCalls <- MCCircleCalls
  RuleConfigs <- MCRuleConfigs
  SequenceConfigs <- MCSequenceConfigs
  JsUpdates <- MCJsUpdates
  MaxRules = 1
  MaxUpdates = 3
SPECIFICATION Spec
INVARIANTS IndexIsExact StateIsNewestSent MembershipIsGeometry ProximityIsExact
PROPERTIES EventsExplainQueries RulesFireAsConfigured
CHECK_DEADLOCK FALSE
