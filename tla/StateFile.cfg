\* The flush loop and Stop, with a failing operation and a restart.
CONSTANTS
  MaxVersion = 3
  MaxFaults = 1
  MaxRestarts = 1
  Stops = TRUE
CHECK_DEADLOCK FALSE
SPECIFICATION FairSpec
INVARIANTS TypeOK NothingForgotten StopKeepsStateAlone
PROPERTIES FilePromise MirroredUnlessFailed
