---------------------------- MODULE CommandQueue ----------------------------
(***************************************************************************)
(* The promise chains behind runSerializedDeviceCommands,                  *)
(* runSerializedDeviceCommand and runSerializedDevicePersistence           *)
(* (apps/server-web/lib/device-command.ts).                                *)
(*                                                                         *)
(* A Map holds, for each device with work outstanding, the "tail": the     *)
(* promise of the last operation queued for it.  A call reads the tails of *)
(* all its devices, makes itself their new tail, waits for the promises it *)
(* read, runs, and in a finally block removes the tails that are still its *)
(* own.  The prologue up to the first await is one JavaScript turn, so it  *)
(* is one action; the steps after it are separated by promise reactions,   *)
(* between which the prologue of any other call may run.                   *)
(*                                                                         *)
(* The persistence queue is the same chain with exactly one device.        *)
(***************************************************************************)
EXTENDS Naturals

CONSTANTS Devices,     \* device identifiers, already trimmed and not empty
          Operations,  \* one element per call
          NoTail       \* the Map has no entry for a device

ASSUME QueueAssumption == NoTail \notin Operations

VARIABLES status,      \* idle, waiting, running, settled, done
          outcome,     \* how the operation's promise settled
          targets,     \* normalizedDeviceIds
          awaited,     \* the tail each operation read for each of its devices
          tails,       \* deviceCommandQueues
          ticket,      \* history: the order of the prologues
          nextTicket

vars == <<status, outcome, targets, awaited, tails, ticket, nextTicket>>

Init == /\ status = [o \in Operations |-> "idle"]
        /\ outcome = [o \in Operations |-> "pending"]
        /\ targets = [o \in Operations |-> {}]
        /\ awaited = [o \in Operations |-> [d \in Devices |-> NoTail]]
        /\ tails = [d \in Devices |-> NoTail]
        /\ ticket = [o \in Operations |-> 0]
        /\ nextTicket = 1

Settled(o) == status[o] \in {"settled", "done"}

\* Mutant: the stored tail is the operation's own promise, and the operation is
\* only its fulfilment handler.
TailRejects(t) == t # NoTail => Settled(t) /\ outcome[t] = "fulfilled"

\* The stored tail is current.then(noop, noop): it fulfils once the operation
\* has settled, whether it returned or threw.
TailFulfilled(t) == t # NoTail => Settled(t)

\* The prologue: read every tail, then become every tail.  With no device
\* left after normalisation there is nothing to wait for and nothing to hold.
Enqueue(o, D) ==
  /\ status[o] = "idle"
  /\ status' = [status EXCEPT ![o] = "waiting"]
  /\ targets' = [targets EXCEPT ![o] = D]
  /\ awaited' = [awaited EXCEPT ![o] =
                   [d \in Devices |-> IF d \in D THEN tails[d] ELSE NoTail]]
  /\ tails' = [d \in Devices |-> IF d \in D THEN o ELSE tails[d]]
  /\ ticket' = [ticket EXCEPT ![o] = nextTicket]
  /\ nextTicket' = nextTicket + 1
  /\ UNCHANGED outcome

\* Promise.all of the tails that were read has fulfilled: operation() is called.
Start(o) ==
  /\ status[o] = "waiting"
  /\ \A d \in targets[o] : TailFulfilled(awaited[o][d])
  /\ status' = [status EXCEPT ![o] = "running"]
  /\ UNCHANGED <<outcome, targets, awaited, tails, ticket, nextTicket>>

Settle(o) ==
  /\ status[o] = "running"
  /\ status' = [status EXCEPT ![o] = "settled"]
  /\ outcome' \in {[outcome EXCEPT ![o] = r] : r \in {"fulfilled", "rejected"}}
  /\ UNCHANGED <<targets, awaited, tails, ticket, nextTicket>>

\* Mutants: the finally block is missing; or it does not look whose entry it is.
CleanupForgotten(o) ==
  /\ status[o] = "settled"
  /\ status' = [status EXCEPT ![o] = "done"]
  /\ UNCHANGED <<outcome, targets, awaited, tails, ticket, nextTicket>>

CleanupAnyTail(o) ==
  /\ status[o] = "settled"
  /\ status' = [status EXCEPT ![o] = "done"]
  /\ tails' = [d \in Devices |-> IF d \in targets[o] THEN NoTail ELSE tails[d]]
  /\ UNCHANGED <<outcome, targets, awaited, ticket, nextTicket>>

\* The finally block: the entry of a device goes only if no later call has
\* replaced it.
Cleanup(o) ==
  /\ status[o] = "settled"
  /\ status' = [status EXCEPT ![o] = "done"]
  /\ tails' = [d \in Devices |->
                 IF d \in targets[o] /\ tails[d] = o THEN NoTail ELSE tails[d]]
  /\ UNCHANGED <<outcome, targets, awaited, ticket, nextTicket>>

Next == \E o \in Operations :
          \/ \E D \in SUBSET Devices : Enqueue(o, D)
          \/ Start(o)
          \/ Settle(o)
          \/ Cleanup(o)

\* Promise reactions are always run, and every operation the routes queue ends:
\* a device answers or its acknowledgement times out, and a query returns or throws.
Fairness == \A o \in Operations : /\ WF_vars(Start(o))
                                  /\ WF_vars(Settle(o))
                                  /\ WF_vars(Cleanup(o))

Spec == Init /\ [][Next]_vars
FairSpec == Spec /\ Fairness

-----------------------------------------------------------------------------
TypeOK ==
  /\ status \in [Operations -> {"idle", "waiting", "running", "settled", "done"}]
  /\ outcome \in [Operations -> {"pending", "fulfilled", "rejected"}]
  /\ targets \in [Operations -> SUBSET Devices]
  /\ awaited \in [Operations -> [Devices -> Operations \cup {NoTail}]]
  /\ tails \in [Devices -> Operations \cup {NoTail}]
  /\ ticket \in [Operations -> Nat]
  /\ nextTicket \in Nat

\* Two operations that share a device never run at the same time, whatever
\* sets of devices they and the operations queued between them ask for
\* (runSerializedDeviceCommands waits for the last tail of each device only).
MutualExclusion ==
  \A o, p \in Operations :
    (o # p /\ status[o] = "running" /\ status[p] = "running")
      => targets[o] \cap targets[p] = {}

\* The Map never keeps the tail of a call that has returned: the server holds
\* no entry for a device with no command outstanding (the finally blocks).
TailsReleased ==
  \A d \in Devices : tails[d] # NoTail => status[tails[d]] # "done"

\* The operations whose promises o has read and that have not settled.
WaitsFor(o) == {p \in Operations : /\ ~Settled(p)
                                   /\ \E d \in targets[o] : awaited[o][d] = p}

\* The calls never wait for each other in a circle, although each waits for one
\* call per device and the sets of devices overlap as they like: whatever a
\* call waits for has arrived before it.
NoCircularWait ==
  \A o \in Operations : status[o] = "waiting" =>
    \A p \in WaitsFor(o) : status[p] # "idle" /\ ticket[p] < ticket[o]

\* Hence no queue stands still: of the calls that are not later than one that
\* waits, some call runs or has nothing left to wait for.
SomeoneGoesFirst ==
  \A p \in Operations : status[p] = "waiting" =>
    \E o \in Operations :
      /\ ticket[o] <= ticket[p]
      /\ status[o] = "running" \/ (status[o] = "waiting" /\ WaitsFor(o) = {})

\* Every queued operation is run to its end: no failure of an earlier one and
\* no overlap of device sets blocks a queue.
EveryOperationReturns ==
  \A o \in Operations : status[o] = "waiting" ~> status[o] = "done"

-----------------------------------------------------------------------------
\* The chain implements the first-come first-served promise: a call that is
\* settled is finished for its successors, whether or not its finally has run.
Phase(o) == CASE status[o] = "idle"    -> "idle"
              [] status[o] = "waiting" -> "queued"
              [] status[o] = "running" -> "active"
              [] OTHER                 -> "finished"

Pending(o) == status[o] \in {"waiting", "running"}

Serialization == INSTANCE DeviceSerialization WITH
  phase <- [o \in Operations |-> Phase(o)],
  targets <- [o \in Operations |-> IF Pending(o) THEN targets[o] ELSE {}],
  ahead <- [o \in Operations |-> {p \in Operations :
                                    Pending(o) /\ Pending(p) /\ ticket[p] < ticket[o]}]

\* Each step of the chain is a step of the abstract queue or leaves it as it
\* is; in particular no operation starts before an earlier one it shares a
\* device with has settled (ordering across multi-device calls).
Implements == Serialization!Spec
=============================================================================
