------------------------ MODULE DeviceSerialization ------------------------
(***************************************************************************)
(* What the per-device queues of apps/server-web/lib/device-command.ts     *)
(* promise their callers, without the promises they are made of.           *)
(*                                                                         *)
(* An operation names the set of devices it needs.  Operations that share  *)
(* a device run one at a time, in the order in which they were requested;  *)
(* operations on disjoint devices are independent.  Module CommandQueue    *)
(* keeps this promise with chains of JavaScript promises, and module       *)
(* DeviceCommands relies on it for the calls of the command routes: both   *)
(* implement this specification.                                           *)
(***************************************************************************)
EXTENDS Naturals

CONSTANTS Devices,     \* the identifiers the queues are keyed by
          Operations   \* one element per call of runSerialized...

VARIABLES phase,       \* where each operation is: idle, queued, active, finished
          targets,     \* the devices each outstanding operation needs
          ahead        \* the outstanding operations requested before it

vars == <<phase, targets, ahead>>

Init == /\ phase = [o \in Operations |-> "idle"]
        /\ targets = [o \in Operations |-> {}]
        /\ ahead = [o \in Operations |-> {}]

Outstanding == {o \in Operations : phase[o] \in {"queued", "active"}}

Request(o, D) ==
  /\ phase[o] = "idle"
  /\ phase' = [phase EXCEPT ![o] = "queued"]
  /\ targets' = [targets EXCEPT ![o] = D]
  /\ ahead' = [ahead EXCEPT ![o] = Outstanding]

\* The caller turns an operation away before it comes to the queues.
Refuse(o) ==
  /\ phase[o] = "idle"
  /\ phase' = [phase EXCEPT ![o] = "finished"]
  /\ UNCHANGED <<targets, ahead>>

Begin(o) ==
  /\ phase[o] = "queued"
  /\ \A p \in ahead[o] : targets[p] \cap targets[o] = {}
  /\ phase' = [phase EXCEPT ![o] = "active"]
  /\ UNCHANGED <<targets, ahead>>

\* An operation ends however it likes: what it threw is its caller's business.
\* Nobody is behind it any longer.
End(o) ==
  /\ phase[o] = "active"
  /\ phase' = [phase EXCEPT ![o] = "finished"]
  /\ targets' = [targets EXCEPT ![o] = {}]
  /\ ahead' = [p \in Operations |-> IF p = o THEN {} ELSE ahead[p] \ {o}]

Next == \E o \in Operations :
          \/ \E D \in SUBSET Devices : Request(o, D)
          \/ Refuse(o)
          \/ Begin(o)
          \/ End(o)

Spec == Init /\ [][Next]_vars
=============================================================================
