------------------------ MODULE CommandQueue_proofs ------------------------
(***************************************************************************)
(* Safety of the promise chains for any sets of devices and operations.    *)
(*                                                                         *)
(* An operation waits only for the last tail of each of its devices.  That *)
(* is enough because a tail that has settled vouches for everything queued *)
(* before it on that device: Ordered says so of every operation that was   *)
(* started, TailIsLast and AwaitedIsLast say that the tail in the Map, and *)
(* the tail a call has read, come after every unsettled earlier operation. *)
(***************************************************************************)
EXTENDS CommandQueue, NumberFacts

Arrived(o) == status[o] # "idle"
Unsettled(o) == Arrived(o) /\ ~Settled(o)

\* Tickets order the operations that have been enqueued.
TicketsOrder ==
  \A o \in Operations :
    /\ Arrived(o) => ticket[o] < nextTicket
    /\ \A p \in Operations : (Arrived(o) /\ Arrived(p) /\ o # p) => ticket[o] # ticket[p]

\* t is an operation on d that came no earlier than p.
NotBefore(t, p, d) == /\ t \in Operations
                      /\ Arrived(t)
                      /\ d \in targets[t]
                      /\ t = p \/ ticket[p] < ticket[t]

TailOwned ==
  \A d \in Devices : tails[d] # NoTail =>
    status[tails[d]] \notin {"idle", "done"} /\ d \in targets[tails[d]]

TailIsLast ==
  \A p \in Operations : \A d \in targets[p] :
    Unsettled(p) => NotBefore(tails[d], p, d)

AwaitedIsLast ==
  \A o, p \in Operations : \A d \in targets[o] \cap targets[p] :
    (status[o] = "waiting" /\ Unsettled(p) /\ ticket[p] < ticket[o])
      => NotBefore(awaited[o][d], p, d)

\* Whatever shares a device with a started operation and came before it has settled.
Ordered ==
  \A o, p \in Operations :
    ( /\ status[o] \in {"running", "settled", "done"}
      /\ Arrived(p)
      /\ ticket[p] < ticket[o]
      /\ targets[o] \cap targets[p] # {} ) => Settled(p)

IInv == TypeOK /\ TicketsOrder /\ TailOwned /\ TailIsLast /\ AwaitedIsLast /\ Ordered

-----------------------------------------------------------------------------
LEMMA InitIInv == Init => IInv
  BY QueueAssumption
  DEF Init, IInv, TypeOK, TicketsOrder, TailOwned, TailIsLast, AwaitedIsLast, Ordered,
      Arrived, Unsettled, Settled

LEMMA NextTypeOK == TypeOK /\ [Next]_vars => TypeOK'
<1> SUFFICES ASSUME TypeOK, [Next]_vars PROVE TypeOK'
  OBVIOUS
<1>1. ASSUME NEW o \in Operations, NEW D \in SUBSET Devices, Enqueue(o, D) PROVE TypeOK'
  BY <1>1 DEF Enqueue, TypeOK
<1>2. ASSUME NEW o \in Operations, Start(o) PROVE TypeOK'
  BY <1>2 DEF Start, TypeOK
<1>3. ASSUME NEW o \in Operations, Settle(o) PROVE TypeOK'
  BY <1>3 DEF Settle, TypeOK
<1>4. ASSUME NEW o \in Operations, Cleanup(o) PROVE TypeOK'
  BY <1>4 DEF Cleanup, TypeOK
<1>5. CASE UNCHANGED vars
  BY <1>5 DEF vars, TypeOK
<1>6. QED
  BY <1>1, <1>2, <1>3, <1>4, <1>5 DEF Next

\* The prologue puts o behind every unsettled operation on its devices.
LEMMA EnqueueIInv ==
  ASSUME IInv, TypeOK', NEW o \in Operations, NEW D \in SUBSET Devices, Enqueue(o, D)
  PROVE  IInv'
<1> USE QueueAssumption DEF IInv, TypeOK, Arrived, Unsettled, Settled
<1>1. /\ status[o] = "idle" /\ status'[o] = "waiting" /\ targets'[o] = D
      /\ ticket'[o] = nextTicket /\ nextTicket' = nextTicket + 1
      /\ \A p \in Operations \ {o} : /\ status'[p] = status[p] /\ targets'[p] = targets[p]
                                     /\ ticket'[p] = ticket[p] /\ awaited'[p] = awaited[p]
      /\ \A d \in Devices : tails'[d] = IF d \in D THEN o ELSE tails[d]
      /\ \A d \in D : awaited'[o][d] = tails[d]
  BY DEF Enqueue
<1>2. TicketsOrder'
  <2>1. \A p \in Operations : Arrived(p)' => ticket'[p] < nextTicket'
    BY <1>1, SMTT(30) DEF TicketsOrder
  <2>2. \A p \in Operations \ {o} : Arrived(p)' => ticket'[p] # ticket'[o]
    BY <1>1 DEF TicketsOrder
  <2>3. \A p, q \in Operations \ {o} :
          (Arrived(p)' /\ Arrived(q)' /\ p # q) => ticket'[p] # ticket'[q]
    BY <1>1 DEF TicketsOrder
  <2>4. QED
    BY <2>1, <2>2, <2>3 DEF TicketsOrder
<1>3. TailOwned'
  BY <1>1 DEF TailOwned
<1>4. TailIsLast'
  <2> SUFFICES ASSUME NEW p \in Operations, NEW d \in targets'[p], Unsettled(p)'
               PROVE  NotBefore(tails[d], p, d)'
    BY DEF TailIsLast
  <2>1. CASE d \in D
    BY <2>1, <1>1 DEF NotBefore, TicketsOrder
  <2>2. CASE d \notin D
    <3>1. p # o /\ d \in targets[p] /\ Unsettled(p)
      BY <2>2, <1>1
    <3>2. NotBefore(tails[d], p, d)
      BY <3>1 DEF TailIsLast
    <3>3. tails'[d] = tails[d] /\ tails[d] # o
      BY <2>2, <3>2, <1>1 DEF NotBefore
    <3>4. QED
      BY <3>1, <3>2, <3>3, <1>1 DEF NotBefore
  <2>3. QED
    BY <2>1, <2>2
<1>5. AwaitedIsLast'
  <2> SUFFICES ASSUME NEW q \in Operations, NEW p \in Operations,
                      NEW d \in targets'[q] \cap targets'[p],
                      status'[q] = "waiting", Unsettled(p)', ticket'[p] < ticket'[q]
               PROVE  NotBefore(awaited[q][d], p, d)'
    BY DEF AwaitedIsLast
  <2>1. p # o
    <3> SUFFICES ASSUME p = o PROVE FALSE
      OBVIOUS
    <3>1. ticket'[q] > nextTicket /\ q # o
      BY <1>1
    <3>2. ticket[q] < nextTicket
      BY <1>1, <3>1 DEF TicketsOrder
    <3>3. QED
      BY <3>1, <3>2, <1>1
  <2>2. CASE q = o
    <3>1. NotBefore(tails[d], p, d)
      BY <2>1, <2>2, <1>1 DEF TailIsLast
    <3>2. QED
      BY <3>1, <2>1, <2>2, <1>1 DEF NotBefore
  <2>3. CASE q # o
    <3>1. NotBefore(awaited[q][d], p, d)
      BY <2>1, <2>3, <1>1 DEF AwaitedIsLast
    <3>2. QED
      BY <3>1, <2>1, <2>3, <1>1 DEF NotBefore
  <2>4. QED
    BY <2>2, <2>3
<1>6. Ordered'
  <2> SUFFICES ASSUME NEW q \in Operations, NEW p \in Operations,
                      status'[q] \in {"running", "settled", "done"}, Arrived(p)',
                      ticket'[p] < ticket'[q], targets'[q] \cap targets'[p] # {}
               PROVE  Settled(p)'
    BY DEF Ordered
  <2>1. q # o /\ ticket[q] < nextTicket
    BY <1>1 DEF TicketsOrder
  <2>2. p # o
    BY <2>1, <1>1
  <2>3. QED
    BY <2>1, <2>2, <1>1 DEF Ordered
<1>7. QED
  BY <1>2, <1>3, <1>4, <1>5, <1>6

\* The tails o read have settled, so everything before them has settled too.
LEMMA StartIInv ==
  ASSUME IInv, TypeOK', NEW o \in Operations, Start(o)
  PROVE  IInv'
<1> USE QueueAssumption DEF IInv, TypeOK, Arrived, Unsettled, Settled
<1>1. /\ status[o] = "waiting" /\ status'[o] = "running"
      /\ \A p \in Operations \ {o} : status'[p] = status[p]
      /\ \A d \in targets[o] : awaited[o][d] # NoTail => Settled(awaited[o][d])
      /\ UNCHANGED <<targets, awaited, tails, ticket, nextTicket>>
  BY DEF Start, TailFulfilled
<1>2. TicketsOrder'
  BY <1>1 DEF TicketsOrder
<1>3. TailOwned'
  BY <1>1 DEF TailOwned
<1>4. TailIsLast'
  BY <1>1, SMTT(30) DEF TailIsLast, NotBefore
<1>5. AwaitedIsLast'
  <2> SUFFICES ASSUME NEW q \in Operations, NEW p \in Operations,
                      NEW d \in targets[q] \cap targets[p],
                      status'[q] = "waiting", Unsettled(p)', ticket[p] < ticket[q]
               PROVE  NotBefore(awaited[q][d], p, d)'
    BY <1>1 DEF AwaitedIsLast
  <2>1. status[q] = "waiting" /\ Unsettled(p)
    BY <1>1
  <2>2. NotBefore(awaited[q][d], p, d)
    BY <2>1 DEF AwaitedIsLast
  <2>3. QED
    BY <2>2, <1>1 DEF NotBefore
<1>6. Ordered'
  <2> SUFFICES ASSUME NEW q \in Operations, NEW p \in Operations,
                      status'[q] \in {"running", "settled", "done"}, Arrived(p)',
                      ticket[p] < ticket[q], targets[q] \cap targets[p] # {}
               PROVE  Settled(p)'
    BY <1>1 DEF Ordered
  <2>1. CASE q # o
    BY <2>1, <1>1 DEF Ordered
  <2>2. CASE q = o
    <3> SUFFICES ASSUME ~Settled(p) PROVE FALSE
      BY <2>2, <1>1
    <3>1. Unsettled(p) /\ p # o
      BY <2>2, <1>1
    <3>2. PICK d \in targets[o] \cap targets[p] : TRUE
      BY <2>2
    <3>3. NotBefore(awaited[o][d], p, d)
      BY <3>1, <2>2, <1>1 DEF AwaitedIsLast
    <3>4. awaited[o][d] # NoTail /\ Settled(awaited[o][d])
      BY <3>3, <1>1 DEF NotBefore
    <3>5. awaited[o][d] # p /\ ticket[p] < ticket[awaited[o][d]]
      BY <3>1, <3>3, <3>4 DEF NotBefore
    <3>6. Settled(p)
      BY <3>1, <3>3, <3>4, <3>5 DEF Ordered, NotBefore
    <3>7. QED
      BY <3>6
  <2>3. QED
    BY <2>1, <2>2
<1>7. QED
  BY <1>2, <1>3, <1>4, <1>5, <1>6

LEMMA SettleIInv ==
  ASSUME IInv, TypeOK', NEW o \in Operations, Settle(o)
  PROVE  IInv'
<1> USE QueueAssumption DEF IInv, TypeOK, Arrived, Unsettled, Settled
<1>1. /\ status[o] = "running" /\ status'[o] = "settled"
      /\ \A p \in Operations \ {o} : status'[p] = status[p]
      /\ UNCHANGED <<targets, awaited, tails, ticket, nextTicket>>
  BY DEF Settle
<1>2. TicketsOrder'
  BY <1>1 DEF TicketsOrder
<1>3. TailOwned'
  BY <1>1 DEF TailOwned
<1>4. TailIsLast'
  BY <1>1, SMTT(30) DEF TailIsLast, NotBefore
<1>5. AwaitedIsLast'
  <2> SUFFICES ASSUME NEW q \in Operations, NEW p \in Operations,
                      NEW d \in targets[q] \cap targets[p],
                      status'[q] = "waiting", Unsettled(p)', ticket[p] < ticket[q]
               PROVE  NotBefore(awaited[q][d], p, d)'
    BY <1>1 DEF AwaitedIsLast
  <2>1. status[q] = "waiting" /\ Unsettled(p)
    BY <1>1
  <2>2. NotBefore(awaited[q][d], p, d)
    BY <2>1 DEF AwaitedIsLast
  <2>3. QED
    BY <2>2, <1>1 DEF NotBefore
<1>6. Ordered'
  BY <1>1 DEF Ordered
<1>7. QED
  BY <1>2, <1>3, <1>4, <1>5, <1>6

\* A tail that is removed had no unsettled operation before it.
LEMMA CleanupIInv ==
  ASSUME IInv, TypeOK', NEW o \in Operations, Cleanup(o)
  PROVE  IInv'
<1> USE QueueAssumption DEF IInv, TypeOK, Arrived, Unsettled, Settled
<1>1. /\ status[o] = "settled" /\ status'[o] = "done"
      /\ \A p \in Operations \ {o} : status'[p] = status[p]
      /\ \A d \in Devices : tails'[d] = IF d \in targets[o] /\ tails[d] = o
                                        THEN NoTail ELSE tails[d]
      /\ UNCHANGED <<targets, awaited, ticket, nextTicket>>
  BY DEF Cleanup
<1>2. TicketsOrder'
  BY <1>1 DEF TicketsOrder
<1>3. TailOwned'
  BY <1>1 DEF TailOwned
<1>4. TailIsLast'
  <2> SUFFICES ASSUME NEW p \in Operations, NEW d \in targets[p], Unsettled(p)'
               PROVE  NotBefore(tails[d], p, d)'
    BY <1>1 DEF TailIsLast
  <2>1. Unsettled(p) /\ p # o
    BY <1>1
  <2>2. NotBefore(tails[d], p, d)
    BY <2>1 DEF TailIsLast
  <2>3. tails[d] # o
    BY <2>1, <2>2, <1>1 DEF NotBefore, Ordered
  <2>4. QED
    BY <2>2, <2>3, <1>1 DEF NotBefore
<1>5. AwaitedIsLast'
  <2> SUFFICES ASSUME NEW q \in Operations, NEW p \in Operations,
                      NEW d \in targets[q] \cap targets[p],
                      status'[q] = "waiting", Unsettled(p)', ticket[p] < ticket[q]
               PROVE  NotBefore(awaited[q][d], p, d)'
    BY <1>1 DEF AwaitedIsLast
  <2>1. status[q] = "waiting" /\ Unsettled(p)
    BY <1>1
  <2>2. NotBefore(awaited[q][d], p, d)
    BY <2>1 DEF AwaitedIsLast
  <2>3. QED
    BY <2>2, <1>1 DEF NotBefore
<1>6. Ordered'
  BY <1>1 DEF Ordered
<1>7. QED
  BY <1>2, <1>3, <1>4, <1>5, <1>6

LEMMA NextIInv == IInv /\ [Next]_vars => IInv'
<1> SUFFICES ASSUME IInv, [Next]_vars PROVE IInv'
  OBVIOUS
<1>1. TypeOK'
  BY NextTypeOK DEF IInv
<1>2. CASE UNCHANGED vars
  BY <1>2 DEF vars, IInv, TypeOK, TicketsOrder, TailOwned, TailIsLast, AwaitedIsLast,
              Ordered, NotBefore, Arrived, Unsettled, Settled
<1>3. QED
  BY <1>1, <1>2, EnqueueIInv, StartIInv, SettleIInv, CleanupIInv DEF Next

THEOREM Invariance == Spec => []IInv
  BY InitIInv, NextIInv, PTL DEF Spec

-----------------------------------------------------------------------------
\* Every state of the queues has the declared types.
THEOREM TypeCorrect == Spec => []TypeOK
  BY Invariance, PTL DEF IInv

\* No two running operations share a device, whatever the device sets: the
\* serialization the set_timer, sync set_timer and state routes rely on.
THEOREM Exclusion == Spec => []MutualExclusion
<1>1. IInv => MutualExclusion
  <2> SUFFICES ASSUME IInv, NEW o \in Operations, NEW p \in Operations, o # p,
                      status[o] = "running", status[p] = "running",
                      targets[o] \cap targets[p] # {}
               PROVE  FALSE
    BY DEF MutualExclusion
  <2>1. ticket[o] \in Nat /\ ticket[p] \in Nat /\ ticket[o] # ticket[p]
    BY DEF IInv, TypeOK, TicketsOrder, Arrived
  <2>2. ~(ticket[p] < ticket[o])
    BY DEF IInv, Ordered, Arrived, Settled
  <2>3. ~(ticket[o] < ticket[p])
    BY DEF IInv, Ordered, Arrived, Settled
  <2>4. QED
    BY <2>1, <2>2, <2>3
<1>2. QED
  BY <1>1, Invariance, PTL

\* The Map never holds the tail of a call that has returned.
THEOREM NoTailLeaks == Spec => []TailsReleased
<1>1. IInv => TailsReleased
  BY DEF IInv, TailOwned, TailsReleased
<1>2. QED
  BY <1>1, Invariance, PTL

-----------------------------------------------------------------------------
(* Nobody waits in a circle.                                               *)

AwaitedIsEarlier ==
  \A o, p \in Operations : \A d \in targets[o] :
    (status[o] = "waiting" /\ awaited[o][d] = p) => Arrived(p) /\ ticket[p] < ticket[o]

LEMMA NextAwaitedIsEarlier == IInv /\ AwaitedIsEarlier /\ [Next]_vars => AwaitedIsEarlier'
<1> SUFFICES ASSUME IInv, AwaitedIsEarlier, [Next]_vars,
                    NEW q \in Operations, NEW p \in Operations, NEW d \in targets'[q],
                    status'[q] = "waiting", awaited'[q][d] = p
             PROVE  Arrived(p)' /\ ticket'[p] < ticket'[q]
  BY DEF AwaitedIsEarlier
<1> USE DEF IInv, TypeOK, Arrived
<1>1. ASSUME NEW o \in Operations, NEW D \in SUBSET Devices, Enqueue(o, D)
      PROVE  Arrived(p)' /\ ticket'[p] < ticket'[q]
  <2>1. /\ status[o] = "idle" /\ status'[o] = "waiting" /\ targets'[o] = D
        /\ ticket'[o] = nextTicket
        /\ \A e \in Operations \ {o} : /\ status'[e] = status[e] /\ targets'[e] = targets[e]
                                       /\ ticket'[e] = ticket[e] /\ awaited'[e] = awaited[e]
        /\ \A e \in D : awaited'[o][e] = tails[e]
    BY <1>1 DEF Enqueue
  <2>2. CASE q = o
    <3>1. tails[d] = p /\ d \in D /\ p # NoTail
      BY <2>1, <2>2, QueueAssumption
    <3>2. Arrived(p) /\ p # o
      BY <2>1, <3>1 DEF TailOwned
    <3>3. ticket[p] < nextTicket
      BY <3>2 DEF TicketsOrder
    <3>4. QED
      BY <2>1, <2>2, <3>2, <3>3
  <2>3. CASE q # o
    <3>1. Arrived(p) /\ ticket[p] < ticket[q]
      BY <2>1, <2>3 DEF AwaitedIsEarlier
    <3>2. QED
      BY <2>1, <2>3, <3>1
  <2>4. QED
    BY <2>2, <2>3
<1>2. ASSUME NEW o \in Operations, Start(o) \/ Settle(o) \/ Cleanup(o)
      PROVE  Arrived(p)' /\ ticket'[p] < ticket'[q]
  <2>1. /\ status[o] # "idle" /\ status'[o] \notin {"idle", "waiting"}
        /\ \A e \in Operations \ {o} : status'[e] = status[e]
        /\ UNCHANGED <<targets, awaited, ticket>>
    BY <1>2 DEF Start, Settle, Cleanup
  <2>2. Arrived(p) /\ ticket[p] < ticket[q]
    BY <2>1 DEF AwaitedIsEarlier
  <2>3. QED
    BY <2>1, <2>2
<1>3. CASE UNCHANGED vars
  BY <1>3 DEF vars, AwaitedIsEarlier
<1>4. QED
  BY <1>1, <1>2, <1>3 DEF Next

LEMMA EarlierAlways == Spec => [](IInv /\ AwaitedIsEarlier)
<1>1. Init => AwaitedIsEarlier
  BY DEF Init, AwaitedIsEarlier
<1>2. QED
  BY <1>1, Invariance, NextAwaitedIsEarlier, PTL DEF Spec

\* Whatever a call waits for arrived before it: the overlapping sets of devices
\* of sync-command make no circle.
THEOREM WaitsAreNotCircular == Spec => []NoCircularWait
<1>1. AwaitedIsEarlier => NoCircularWait
  BY DEF AwaitedIsEarlier, NoCircularWait, WaitsFor, Arrived
<1>2. QED
  BY <1>1, EarlierAlways, PTL

\* No queue stands still: the earliest of the calls that wait is waiting for
\* calls that run, or for none.
THEOREM QueuesMove == Spec => []SomeoneGoesFirst
<1>1. ASSUME IInv, AwaitedIsEarlier, NEW p \in Operations, status[p] = "waiting"
      PROVE  \E o \in Operations : /\ ticket[o] <= ticket[p]
                                   /\ \/ status[o] = "running"
                                      \/ status[o] = "waiting" /\ WaitsFor(o) = {}
  <2> DEFINE Waiting == {o \in Operations : status[o] = "waiting" /\ ticket[o] <= ticket[p]}
             Tickets == {ticket[o] : o \in Waiting}
  <2>1. \A o \in Operations : ticket[o] \in Nat
    BY <1>1 DEF IInv, TypeOK
  <2>2. ticket[p] \in Tickets /\ Tickets \in SUBSET Nat /\ Tickets # {}
    BY <1>1, <2>1
  <2>3. PICK n \in Tickets : \A m \in Tickets : n <= m
    <3> HIDE DEF Tickets
    <3>1. QED
      BY <2>2, LeastNumber
  <2>4. PICK o \in Waiting : ticket[o] = n
    BY <2>3
  <2>5. CASE WaitsFor(o) = {}
    BY <2>4, <2>5
  <2>6. CASE WaitsFor(o) # {}
    <3>1. PICK q \in WaitsFor(o) : TRUE
      BY <2>6
    <3>2. q \in Operations /\ Arrived(q) /\ ticket[q] < ticket[o] /\ ~Settled(q)
      BY <1>1, <2>4, <3>1 DEF AwaitedIsEarlier, WaitsFor
    <3>3. q \notin Waiting
      <4>1. ticket[q] \in Tickets => n <= ticket[q]
        BY <2>3
      <4>2. ticket[q] \notin Tickets
        BY <2>1, <2>4, <3>2, <4>1
      <4>3. QED
        BY <4>2
    <3>4. ticket[q] <= ticket[p]
      BY <2>1, <2>4, <3>2
    <3>5. status[q] = "running"
      BY <1>1, <3>2, <3>3, <3>4 DEF IInv, TypeOK, Arrived, Settled
    <3>6. QED
      BY <3>2, <3>4, <3>5
  <2>7. QED
    BY <2>5, <2>6
<1>2. IInv /\ AwaitedIsEarlier => SomeoneGoesFirst
  BY <1>1 DEF SomeoneGoesFirst
<1>3. QED
  BY <1>2, EarlierAlways, PTL

-----------------------------------------------------------------------------
LEMMA RefinesInit == Init => Serialization!Init
  BY DEF Init, Serialization!Init, Phase, Pending

LEMMA RefinesNext == IInv /\ [Next]_vars => [Serialization!Next]_(Serialization!vars)
<1> SUFFICES ASSUME IInv, [Next]_vars
             PROVE  [Serialization!Next]_(Serialization!vars)
  OBVIOUS
<1> DEFINE aheadOf(o) == {p \in Operations : Pending(o) /\ Pending(p) /\ ticket[p] < ticket[o]}
           phases == [o \in Operations |-> Phase(o)]
           needs == [o \in Operations |-> IF Pending(o) THEN targets[o] ELSE {}]
           aheads == [o \in Operations |-> aheadOf(o)]
<1>0. TypeOK
  BY DEF IInv
<1>1. ASSUME NEW o \in Operations, NEW D \in SUBSET Devices, Enqueue(o, D)
      PROVE  Serialization!Request(o, D)
  <2>1. /\ status[o] = "idle" /\ status'[o] = "waiting" /\ targets'[o] = D
        /\ ticket'[o] = nextTicket
        /\ \A p \in Operations \ {o} : /\ status'[p] = status[p] /\ targets'[p] = targets[p]
                                       /\ ticket'[p] = ticket[p]
    BY <1>0, <1>1 DEF Enqueue, TypeOK
  <2>2. /\ Phase(o) = "idle" /\ Phase(o)' = "queued" /\ ~Pending(o) /\ Pending(o)'
        /\ \A p \in Operations \ {o} : Phase(p)' = Phase(p) /\ (Pending(p)' <=> Pending(p))
    BY <2>1 DEF Phase, Pending
  <2>3. \A p \in Operations : Phase(p) \in {"queued", "active"} <=> Pending(p)
    BY DEF Phase, Pending
  <2>4. aheadOf(o)' = {p \in Operations : Pending(p)}
    <3>1. \A p \in Operations : Pending(p) => p # o /\ ticket[p] < nextTicket
      BY <1>0, <2>1 DEF Pending, IInv, TicketsOrder, Arrived
    <3>2. nextTicket \in Nat
      BY <1>0 DEF TypeOK
    <3>3. \A p \in Operations : (Pending(p)' /\ ticket'[p] < ticket'[o]) <=> Pending(p)
      BY <2>1, <2>2, <3>1, <3>2
    <3>4. QED
      BY <2>2, <3>3
  <2>5. \A p \in Operations \ {o} : aheadOf(p)' = aheadOf(p)
    <3> SUFFICES ASSUME NEW p \in Operations \ {o}, NEW q \in Operations
                 PROVE  (Pending(p)' /\ Pending(q)' /\ ticket'[q] < ticket'[p])
                          <=> (Pending(p) /\ Pending(q) /\ ticket[q] < ticket[p])
      OBVIOUS
    <3>1. CASE q # o
      BY <2>1, <2>2, <3>1
    <3>2. CASE q = o
      <4>1. Pending(p) => ticket[p] < nextTicket
        BY <1>0, <2>1 DEF Pending, IInv, TicketsOrder, Arrived
      <4>2. nextTicket \in Nat /\ ticket[p] \in Nat
        BY <1>0 DEF TypeOK
      <4>3. QED
        BY <2>1, <2>2, <3>2, <4>1, <4>2
    <3>3. QED
      BY <3>1, <3>2
  <2> HIDE DEF aheadOf
  <2>6. phases[o] = "idle" /\ phases' = [phases EXCEPT ![o] = "queued"]
    BY <2>2
  <2>7. needs' = [needs EXCEPT ![o] = D]
    BY <2>1, <2>2
  <2>8. aheads' = [aheads EXCEPT ![o] = Serialization!Outstanding]
    BY <2>3, <2>4, <2>5 DEF Serialization!Outstanding
  <2>9. QED
    BY <2>6, <2>7, <2>8 DEF Serialization!Request, aheadOf
<1>2. ASSUME NEW o \in Operations, Start(o)
      PROVE  Serialization!Begin(o)
  <2>1. /\ status[o] = "waiting" /\ status'[o] = "running"
        /\ \A p \in Operations \ {o} : status'[p] = status[p]
        /\ UNCHANGED <<targets, ticket>>
    BY <1>0, <1>2 DEF Start, TypeOK
  <2>2. \A p \in aheadOf(o) : targets[p] \cap targets[o] = {}
    <3>1. Ordered'
      BY <1>2, NextIInv DEF Next, IInv
    <3>2. ASSUME NEW p \in Operations, Pending(p), ticket[p] < ticket[o]
          PROVE  targets[p] \cap targets[o] = {}
      <4>1. p # o
        BY <1>0, <3>2 DEF TypeOK
      <4>2. status'[p] = status[p] /\ Arrived(p)' /\ ~Settled(p)'
        BY <2>1, <3>2, <4>1 DEF Pending, Arrived, Settled
      <4>3. QED
        BY <2>1, <3>1, <3>2, <4>2 DEF Ordered
    <3>3. QED
      BY <3>2
  <2>3. /\ Phase(o) = "queued" /\ Phase(o)' = "active" /\ Pending(o) /\ Pending(o)'
        /\ \A p \in Operations \ {o} : Phase(p)' = Phase(p) /\ (Pending(p)' <=> Pending(p))
    BY <2>1 DEF Phase, Pending
  <2>4. phases[o] = "queued" /\ phases' = [phases EXCEPT ![o] = "active"]
    BY <2>3
  <2>5. needs' = needs /\ aheads' = aheads
    BY <2>1, <2>3
  <2>6. \A p \in aheads[o] : needs[p] \cap needs[o] = {}
    BY <2>2, <2>3
  <2>7. QED
    BY <2>4, <2>5, <2>6 DEF Serialization!Begin
<1>3. ASSUME NEW o \in Operations, Settle(o)
      PROVE  Serialization!End(o)
  <2>1. /\ status[o] = "running" /\ status'[o] = "settled"
        /\ \A p \in Operations \ {o} : status'[p] = status[p]
        /\ UNCHANGED <<targets, ticket>>
    BY <1>0, <1>3 DEF Settle, TypeOK
  <2>2. /\ Phase(o) = "active" /\ Phase(o)' = "finished" /\ Pending(o) /\ ~Pending(o)'
        /\ \A p \in Operations \ {o} : Phase(p)' = Phase(p) /\ (Pending(p)' <=> Pending(p))
    BY <2>1 DEF Phase, Pending
  <2>3. phases[o] = "active" /\ phases' = [phases EXCEPT ![o] = "finished"]
    BY <2>2
  <2>4. needs' = [needs EXCEPT ![o] = {}]
    BY <2>1, <2>2
  <2>5. aheads' = [p \in Operations |-> IF p = o THEN {} ELSE aheads[p] \ {o}]
    BY <2>1, <2>2
  <2>6. QED
    BY <2>3, <2>4, <2>5 DEF Serialization!End
<1>4. ASSUME NEW o \in Operations, Cleanup(o)
      PROVE  UNCHANGED Serialization!vars
  <2>1. /\ status[o] = "settled" /\ status'[o] = "done"
        /\ \A p \in Operations \ {o} : status'[p] = status[p]
        /\ UNCHANGED <<targets, ticket>>
    BY <1>0, <1>4 DEF Cleanup, TypeOK
  <2>2. \A p \in Operations : Phase(p)' = Phase(p) /\ (Pending(p)' <=> Pending(p))
    BY <2>1 DEF Phase, Pending
  <2>3. phases' = phases /\ needs' = needs /\ aheads' = aheads
    BY <2>1, <2>2
  <2>4. QED
    BY <2>3 DEF Serialization!vars
<1>5. CASE UNCHANGED vars
  BY <1>5 DEF vars, Serialization!vars, Phase, Pending
<1>6. QED
  BY <1>1, <1>2, <1>3, <1>4, <1>5 DEF Next, Serialization!Next

\* The promise chains implement first-come first-served per-device queues.
THEOREM Refinement == Spec => Implements
<1>1. QED
  BY RefinesInit, RefinesNext, Invariance, PTL DEF Spec, Implements, Serialization!Spec
=============================================================================
