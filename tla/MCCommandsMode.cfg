\* A timer command and a mode command overlap, nothing lost.
CONSTANTS
  a = a
  b = b
  e1 = e1
  e2 = e2
  Devices = {a}
  Calls = {c1, c2}
  Requests <- TimerAndMode
  SportModes = {"basketball", "basketball-ads"}
  RotatingModes = {"basketball-ads"}
  OtherModes = {"media"}
  Basketball = "basketball"
  Stored = "stored"
  Events = {e1, e2}
  NoEvent = NoEvent
  NoCall = NoCall
  NoMode = NoMode
  MaxFaults = 0
SPECIFICATION Spec
INVARIANTS StoredModeIsShown
CHECK_DEADLOCK FALSE
