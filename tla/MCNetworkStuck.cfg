\* Nobody uses the portal; the WiFi goes away and an access point does not start.
CONSTANTS
  Posts = {}
  MaxTroubles = 2
SPECIFICATION FairSpec
PROPERTY ReachableAgain
CHECK_DEADLOCK FALSE
