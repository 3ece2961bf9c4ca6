\* Live changes only: nothing is listed at startup.
CONSTANTS
  Apps <- MCApps
  Uids <- MCUids
  WatchedPods <- MCWatched
  ListedPods <- NoPods
  MaxApps = 1
  MaxPods = 2
  MaxTime = 3
  PageLimit = 1
  Filters <- MCFilters
SPECIFICATION FairFeedSpec
INVARIANTS FeedNeverSkips TornViewsSuperseded
PROPERTIES ChangesDelivered
