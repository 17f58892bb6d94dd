----------------------------- MODULE RateLimiter -----------------------------
(***************************************************************************)
(* The limit on requests, lib/request-security.ts, and the displays that   *)
(* register their pairing code against it.                                 *)
(*                                                                         *)
(* enforceRateLimit counts the requests of an address in windows that      *)
(* begin with the first request after the last window.  A display that is  *)
(* not paired registers every five seconds (startPairingReconciliation in  *)
(* apps/pi-agent/src/socket-client.ts), or skips a turn while its last     *)
(* request is under way; a refused one is only logged.  All the displays   *)
(* behind one address share its 30 registrations in 15 minutes.            *)
(*                                                                         *)
(* Time is counted down: "left" is resetAt - now.  One scope; the text of  *)
(* the refusal and its Retry-After, which no client reads, are left out.   *)
(***************************************************************************)
EXTENDS Naturals, FiniteSets, FiniteSetsExt

CONSTANTS
  Displays, Address,  \* Address[d] is where the requests of d come from
  Limit, Window,
  Slowest,            \* a display asks at every turn, or at every Slowest-th
  MaxBuckets          \* 10_000 in the code

ASSUME RateAssumption ==
  /\ {Limit, Window, Slowest, MaxBuckets} \subseteq Nat \ {0}
  /\ IsFiniteSet(Displays)
  /\ DOMAIN Address = Displays

VARIABLES
  buckets,  \* the Map, from an address to the count and the rest of its window
  asked,    \* turns since the last request of each display
  through,  \* and since the last one that was admitted
  recent    \* history: requests admitted of each address, by their age

rateVars == <<buckets, asked, through, recent>>

Addresses == {Address[d] : d \in Displays}

\* Enough for every display of an address to have its share in each window,
\* even while the others ask at every turn and it asks at every Slowest-th.
Share == Limit > Slowest * (Max({Cardinality({d \in Displays : Address[d] = a}) : a \in Addresses}) - 1)
LongestWait == Window + Slowest

\* How many of f have an age below k.
Younger(f) == LET sum[k \in 0..Window] == IF k = 0 THEN 0 ELSE sum[k - 1] + f[k - 1] IN sum
Total(f) == Younger(f)[Window]

RateInit ==
  /\ buckets = << >>
  /\ asked = [d \in Displays |-> 1] /\ through = [d \in Displays |-> 0]
  /\ recent = [a \in Addresses |-> [age \in 0..Window - 1 |-> 0]]

-----------------------------------------------------------------------------
\* current.resetAt <= now.
Expired(bucket) == bucket.left = 0

FreshBucket == [count |-> 0, left |-> Window]

\* Mutant: the Map is emptied when it is too large.
WithinBoundsForgetful(table, a) ==
  IF Cardinality(DOMAIN table) > MaxBuckets THEN [x \in {a} |-> table[x]] ELSE table

\* Buckets of windows that are over are dropped from a large Map.
WithinBounds(table, a) ==
  IF Cardinality(DOMAIN table) > MaxBuckets
  THEN [x \in {y \in DOMAIN table : ~Expired(table[y])} |-> table[x]] ELSE table

\* Mutant: every request begins a window of its own.
CountedAnew(a) ==
  LET bucket == IF a \notin DOMAIN buckets \/ Expired(buckets[a]) THEN FreshBucket ELSE buckets[a]
  IN [bucket EXCEPT !.count = IF @ > Limit THEN @ ELSE @ + 1, !.left = Window]

\* The bucket of the address counts this request; more than one above the
\* limit makes no difference.
Counted(a) ==
  LET bucket == IF a \notin DOMAIN buckets \/ Expired(buckets[a]) THEN FreshBucket ELSE buckets[a]
  IN [bucket EXCEPT !.count = IF @ > Limit THEN @ ELSE @ + 1]

\* enforceRateLimit, for the registration of display d.
RegisterCode(d) ==
  LET a == Address[d]
      table == [x \in DOMAIN buckets \cup {a} |-> IF x = a THEN Counted(a) ELSE buckets[x]]
  IN /\ asked[d] > 0
     /\ asked' = [asked EXCEPT ![d] = 0]
     /\ buckets' = WithinBounds(table, a)
     /\ IF Counted(a).count <= Limit
        THEN /\ through' = [through EXCEPT ![d] = 0]
             /\ recent' = [recent EXCEPT ![a][0] = @ + 1]
        ELSE UNCHANGED <<through, recent>>

\* The interval of the displays goes by; none sleeps for longer than Slowest.
Turn ==
  /\ \A d \in Displays : asked[d] < Slowest
  /\ asked' = [d \in Displays |-> asked[d] + 1]
  /\ through' = [d \in Displays |-> IF through[d] > LongestWait THEN through[d] ELSE through[d] + 1]
  /\ buckets' = [a \in DOMAIN buckets |->
       [buckets[a] EXCEPT !.left = IF @ = 0 THEN 0 ELSE @ - 1]]
  /\ recent' = [a \in Addresses |->
       [age \in 0..Window - 1 |-> IF age = 0 THEN 0 ELSE recent[a][age - 1]]]

RateNext == Turn \/ \E d \in Displays : RegisterCode(d)

RateSpec == RateInit /\ [][RateNext]_rateVars

-----------------------------------------------------------------------------
RateTypeOK ==
  /\ DOMAIN buckets \subseteq Addresses
  /\ \A a \in DOMAIN buckets : buckets[a] \in [count : 1..Limit + 1, left : 0..Window]
  /\ asked \in [Displays -> 0..Slowest] /\ through \in [Displays -> 0..LongestWait + 1]
  /\ recent \in [Addresses -> [0..Window - 1 -> Nat]]

\* In any stretch of time as long as the window no more than twice the limit
\* is admitted of one address (a window may end where the stretch begins),
\* whatever the table forgets.
AtMostTwiceTheLimit == \A a \in Addresses : Total(recent[a]) <= 2 * Limit

\* A display that goes on asking has its code registered again and again,
\* although it exhausts the limit (30 in 15 minutes, asked for every five
\* seconds): at the latest after a window and one of its own turns.  Only if
\* so many displays share an address that the share of one is nothing, may
\* it wait for ever.
EveryDisplayGetsThrough == Share => \A d \in Displays : through[d] <= LongestWait

=============================================================================
