\* The events a replay skips because another pod has the name now.
CONSTANTS
  Names = {"p"}
  MaxRV = 4
  MaxRestarts = 1
  MaxFaults = 0
  ReusesNames = TRUE
  Compacts = FALSE
  Crashes = FALSE
  Outlives = FALSE
CHECK_DEADLOCK FALSE
SPECIFICATION Spec
INVARIANTS ResumedReflected
