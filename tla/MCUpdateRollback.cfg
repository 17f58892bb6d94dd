\* Nothing goes wrong but a release, 2, that cannot be installed or started.
CONSTANTS
  Versions = {1, 2, 3}
  Working = {1, 3}
  Shipped = 1
  Updates = {r1, r2}
  KeptReleases = 2
  MaxUpdates = 4
  MaxMishaps = 0
SPECIFICATION UpdateSpec
INVARIANTS FailedInstallsRollBack
CHECK_DEADLOCK FALSE
