----------------------------- MODULE MCPairing -----------------------------
(***************************************************************************)
(* Pairing for TLC, in two scenarios: "failures", in which the connection  *)
(* is lost and a request fails, and two users claim, one of them a super   *)
(* user; and "codes", in which nothing fails, and the display gets a       *)
(* second code, on its own or after a factory reset.  Both at once are     *)
(* more than TLC explores, and so is a hello that is repeated on a live    *)
(* connection at any time: it is as long as nothing has failed.            *)
(*                                                                         *)
(* What is left out nobody has to do: the fairness of Pairing asks for no  *)
(* lost connection, failure, claim, repeated hello, new code or reset, and *)
(* a display that has to make a code finds one left.                       *)
(***************************************************************************)
EXTENDS Pairing

VARIABLE scenario

Scenario == \/ scenario = "failures" /\ resets = 0 /\ codes <= 1
            \/ scenario = "codes" /\ drops = 0 /\ faults = 0 /\ \A u \in SuperUsers : claim[u] = NoClaim

MCInit == Init /\ scenario \in {"failures", "codes"}

\* A display is reset while it can still make a code.
MCNext ==
  /\ Next /\ UNCHANGED scenario /\ Scenario'
  /\ RefreshHello => scenario = "failures" /\ drops + faults = 0
  /\ resets' > resets => codes < MaxCodes

MCSpec == MCInit /\ [][MCNext]_<<vars, scenario>> /\ Fairness
=============================================================================
