SPECIFICATION Spec
CONSTANTS
  Cases <- SteerCases
  MaxSolves = 2
  MaxOff = 2
INVARIANT HavedisfavoredIsTrue
CHECK_DEADLOCK FALSE
