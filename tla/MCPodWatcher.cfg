\* One driver pod after another under one name, with every end of the process, its
\* saves and the requests they leave, and the history of the API server compacted.
CONSTANTS
  Names = {"p"}
  MaxRV = 3
  MaxRestarts = 1
  MaxFaults = 0
  ReusesNames = TRUE
  Compacts = TRUE
  Crashes = TRUE
  Outlives = FALSE
  Apps <- MCApps
  AppOf <- MCAppOf
  MaxApps = 2
  MaxPods = 2
  MaxTime = 12
  PageLimit = 1
CHECK_DEADLOCK FALSE
SPECIFICATION Spec
INVARIANTS TypeOK RecordsFollowReports LiveRecorded DeletionsRecorded DeletionsNotSkipped ConsumerLearnsDeletions
