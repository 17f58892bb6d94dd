-------------------------- MODULE MCDeviceCommands --------------------------
(* Instances of DeviceCommands for TLC: what a few requests may ask for. *)
EXTENDS DeviceCommands, TLC

CONSTANTS a, b, e1, e2

Ask(kind, targets, primary, m, event) ==
  [kind |-> kind, targets |-> targets, primary |-> primary, mode |-> m, event |-> event]

\* Two displays, commanded together and apart.
GroupRequests ==
  { Ask("sync_timer", {a, b}, a, "basketball-ads", e1),
    Ask("set_timer", {a}, a, "basketball-ads", e2),
    Ask("post_state", {b}, b, "basketball", NoEvent),
    Ask("post_mode", {b}, b, "media", NoEvent),
    Ask("sync_mode", {a, b}, b, "media", NoEvent),
    Ask("set_mode", {b}, b, "basketball-ads", NoEvent) }

\* One display, every kind of request, a reset that may be repeated.
SingleRequests ==
  { Ask("set_timer", {a}, a, "basketball-ads", e1),
    Ask("set_timer", {a}, a, Stored, NoEvent),
    Ask("post_state", {a}, a, "basketball", e2),
    Ask("sync_mode", {a}, a, "basketball", NoEvent),
    Ask("set_mode", {a}, a, "media", NoEvent) }

\* A timer and a mode.
TimerAndMode == { Ask("set_timer", {a}, a, "basketball", NoEvent),
                  Ask("set_mode", {a}, a, "basketball-ads", NoEvent) }

CallSymmetry == Permutations(Calls)
=============================================================================
