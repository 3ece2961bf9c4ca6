\* A cold start that lists two drivers created in the same second.
CONSTANTS
  Apps <- MCApps
  Uids <- MCUids
  WatchedPods <- MCWatched
  ListedPods <- MCListed
  MaxApps = 2
  MaxPods = 2
  MaxTime = 4
  PageLimit = 1
  Filters <- NoFilter
SPECIFICATION FeedSpec
INVARIANTS FeedNeverSkips
