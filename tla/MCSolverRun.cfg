CONSTANTS
  NSolvables = 7
  MaxChoices = 2
  Instances <- RunInstances
SPECIFICATION FairRunSpec
INVARIANTS RunInvariant PhasesRight
PROPERTIES ImplementsSat RunTermination
