\* Two displays commanded together and apart, two calls, one fault.
CONSTANTS
  a = a
  b = b
  e1 = e1
  e2 = e2
  Devices = {a, b}
  Calls = {c1, c2}
  Requests <- GroupRequests
  SportModes = {"basketball", "basketball-ads"}
  RotatingModes = {"basketball-ads"}
  OtherModes = {"media"}
  Basketball = "basketball"
  Stored = "stored"
  Events = {e1, e2}
  NoEvent = NoEvent
  NoCall = NoCall
  NoMode = NoMode
  MaxFaults = 1
SPECIFICATION FairSpec
INVARIANTS TimersAgreeAtRest
PROPERTIES CommandsSerialize EveryCallIsAnswered
CHECK_DEADLOCK FALSE
