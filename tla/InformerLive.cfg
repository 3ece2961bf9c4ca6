\* Convergence under fairness, with crashes, compaction, a reused name and failing
\* checkpoint calls together.
CONSTANTS
  Names = {"p"}
  MaxRV = 4
  MaxRestarts = 1
  MaxFaults = 1
  ReusesNames = TRUE
  Compacts = TRUE
  Crashes = TRUE
  Outlives = FALSE
CHECK_DEADLOCK FALSE
SPECIFICATION FairSpec
INVARIANTS LiveKnown
PROPERTIES EventuallyMirrors
