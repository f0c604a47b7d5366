CONSTANTS
  NSolvables = 7
  MaxChoices = 2
  Instances <- MCInstances
SPECIFICATION FairSpec
INVARIANTS TypeOK TrailInvariant PropagationComplete LearningOK OutcomeRight
PROPERTIES ImplementsResolution Termination
