\* A crash between the save of the position and that of the records.
CONSTANTS
  Names = {"p"}
  MaxRV = 3
  MaxRestarts = 1
  MaxFaults = 0
  ReusesNames = FALSE
  Compacts = FALSE
  Crashes = TRUE
  Outlives = FALSE
CHECK_DEADLOCK FALSE
SPECIFICATION Spec
INVARIANTS DeletionsKept
