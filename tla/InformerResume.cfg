\* A graceful restart, saves that fail or come late, and a history that is
\* compacted under the first process or the second.
CONSTANTS
  Names = {"p", "q"}
  MaxRV = 3
  MaxRestarts = 1
  MaxFaults = 1
  ReusesNames = FALSE
  Compacts = TRUE
  Crashes = FALSE
  Outlives = TRUE
CHECK_DEADLOCK FALSE
SPECIFICATION SavingFairSpec
INVARIANTS TypeOK ResumedReflected CheckpointReflected
PROPERTIES NeverStale CheckpointFollows
