\* A graceful restart while a driver finishes; nothing fails.
CONSTANTS
  Names = {"p"}
  MaxRV = 2
  MaxRestarts = 1
  MaxFaults = 0
  ReusesNames = FALSE
  Compacts = FALSE
  Crashes = FALSE
  Outlives = FALSE
  Apps <- MCApps
  AppOf <- MCAppOf
  MaxApps = 2
  MaxPods = 2
  MaxTime = 12
  PageLimit = 1
CHECK_DEADLOCK FALSE
SPECIFICATION Spec
INVARIANTS RestartReportsChanges
