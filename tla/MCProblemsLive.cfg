SPECIFICATION FairSpec
CONSTANTS
  NSolvables = 6
  CoreSlack = 0
  Worlds <- LiveWorlds
PROPERTY SolutionsTerminate
CHECK_DEADLOCK FALSE
