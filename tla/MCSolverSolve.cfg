SPECIFICATION Spec
CONSTANTS
  Cases <- AllCases
  MaxSolves = 2
  MaxOff = 2
INVARIANTS
  PkgRulesExact
  RulesExplained
  PolicyRulesFollowJobs
  CleandepsSafe
  RecommendationsSound
PROPERTIES
  AddedmapRebuilt
CHECK_DEADLOCK FALSE
