\* The final save against a save of the flush loop in flight.
CONSTANTS
  MaxVersion = 3
  MaxFaults = 0
  MaxRestarts = 0
  Stops = TRUE
CHECK_DEADLOCK FALSE
SPECIFICATION Spec
INVARIANTS StopKeepsState
