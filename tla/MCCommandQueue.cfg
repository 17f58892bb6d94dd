\* Three operations on any sets of two devices.
CONSTANTS
  Devices = {d1, d2}
  Operations = {o1, o2, o3}
  NoTail = NoTail
SPECIFICATION FairSpec
INVARIANTS TailsReleased
PROPERTIES EveryOperationReturns Implements
CHECK_DEADLOCK FALSE
