\* Two requests of the portal; three things go wrong.
CONSTANTS
  Posts = {p1, p2}
  MaxTroubles = 3
SPECIFICATION FairSpec
INVARIANTS RetryIsPending SetupIsAnnounced
PROPERTIES ReachableUnlessStranded SavedWifiComesBack
CHECK_DEADLOCK FALSE
