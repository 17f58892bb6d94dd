\* Nobody uses the portal; the server goes away and comes back.
CONSTANTS
  Posts = {}
  MaxTroubles = 2
SPECIFICATION Spec
INVARIANT OfflineEndsWithOutage
CHECK_DEADLOCK FALSE
