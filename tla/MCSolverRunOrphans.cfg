CONSTANTS
  NSolvables = 7
  MaxChoices = 2
  Instances <- DependentOrphans
SPECIFICATION RunSpec
INVARIANTS ConsistentSystem
