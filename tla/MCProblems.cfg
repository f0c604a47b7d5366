SPECIFICATION Spec
CONSTANTS
  NSolvables = 5
  CoreSlack = 1
  Worlds <- JobWorlds
INVARIANTS SearchInvariant SolutionsRight
CHECK_DEADLOCK FALSE
