\* One display, every kind of request, three calls, two faults.
CONSTANTS
  a = a
  b = b
  e1 = e1
  e2 = e2
  Devices = {a}
  Calls = {c1, c2, c3}
  Requests <- SingleRequests
  SportModes = {"basketball", "basketball-ads"}
  RotatingModes = {"basketball-ads"}
  OtherModes = {"media"}
  Basketball = "basketball"
  Stored = "stored"
  Events = {e1, e2}
  NoEvent = NoEvent
  NoCall = NoCall
  NoMode = NoMode
  MaxFaults = 2
SPECIFICATION Spec
SYMMETRY CallSymmetry
INVARIANTS NoCallIsForgotten
PROPERTIES DuplicateResetsCountOnce StoredResetsNeverRewind ShownResetsNeverRewind SuccessMeansShown
CHECK_DEADLOCK FALSE
