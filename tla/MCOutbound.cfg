\* Documents of one driver and queries to Prometheus, over a crash.
CONSTANTS
  Apps <- MCApps
  Uids <- MCUids
  WatchedPods <- MCPods
  ListedPods <- MCPods
  Lives <- MCLives
  MaxApps = 1
  MaxPods = 1
  MaxTime = 12
  MaxRestarts = 1
  MaxTroubled = 1
  MinStep = 2
  MaxStep = 4
  MaxRange = 10
  MaxPoints = 3
  Grain = 2
  LastInstant = 11
CHECK_DEADLOCK FALSE
SPECIFICATION OutboundSpec
INVARIANTS PubTypeOK OutcomeExported EventsExported GatewayTypeOK SamplesBounded
PROPERTIES RealAddedKept OutcomeKept CallbacksReturn QueriesEnd
