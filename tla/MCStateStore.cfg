\* One process after another on three applications of which two fit.
CONSTANTS
  Apps <- MCApps
  Uids <- MCUids
  WatchedPods <- MCWatched
  ListedPods <- MCListed
  LegacyFiles <- MCLegacy
  MaxApps = 2
  MaxPods = 2
  MaxTime = 4
SPECIFICATION LegacySpec
INVARIANTS TypeOK CommitTogether LimitsHeld DriverJoin CleanMeansSaved LegacyKept
PROPERTIES EvictsOldestDeleted DriverLeavesWithApp ChangesGoToHead BackfillOrdered
