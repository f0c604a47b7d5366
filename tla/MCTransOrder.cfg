SPECIFICATION MCSpec
CONSTANTS
  Inputs <- OrderInputs
  Modes <- MCModes
  Graphs = {}
INVARIANTS ViewsStayRight ManagerReachesResult StepsArePreserved DependenciesMet
CHECK_DEADLOCK FALSE
