------------------------------- MODULE RateLimit ------------------------------
(* RateLimitGuard of the API gateway over the token buckets in Redis: the      *)
(* requests of one sender through several gateways, each with a clock of its   *)
(* own.  The chat handler of the realtime gateway takes its tokens from the    *)
(* same script.                                                                *)
EXTENDS Integers, FiniteSets, FiniteSetsExt

CONSTANTS
  Requests,     \* numbered in the order in which they arrive
  Gateways,
  Lead,         \* how far a gateway's clock is ahead: a function on Gateways
  MaxLead,      \* bound of it
  Capacity,     \* tokens a bucket holds: a function on Buckets
  Refill,       \* ticks in which a bucket earns a token: a function on Buckets
  MaxTime,      \* bound: ticks
  MaxOutages    \* bound: scripts that throw

Buckets == {"sender", "route"}
Time    == 0 .. MaxTime + MaxLead

ASSUME RateLimitAssumption ==
  /\ Requests \subseteq Nat
  /\ Capacity \in [Buckets -> Nat \ {0}] /\ Refill \in [Buckets -> Nat \ {0}]
  /\ {MaxTime, MaxLead, MaxOutages} \subseteq Nat
  /\ Lead \in [Gateways -> 0 .. MaxLead]

VARIABLES
  clock,
  request,  \* [at, via, sent, routed]: sent is the Date.now() that its script carries
  bucket,   \* ratelimit:{key}: [credit, ts]; a credit of Refill is one token
  taken,    \* auxiliary: <<bucket, request, clock of the script>> of every token
  setBack,  \* auxiliary: buckets that met a clock older than theirs
  outages

limitVars == <<clock, request, bucket, taken, setBack, outages>>

Full(k) == Capacity[k] * Refill[k]

RateLimitTypeOK ==
  /\ clock \in 0 .. MaxTime
  /\ request \in [Requests -> [at : {"idle", "sender", "route", "admitted", "refused"},
                               via : Gateways \cup {"none"}, sent : Time, routed : BOOLEAN]]
  /\ \A k \in Buckets : bucket[k].credit \in 0 .. Full(k) /\ bucket[k].ts \in Time
  /\ taken \subseteq Buckets \X Requests \X Time /\ setBack \subseteq Buckets
  /\ outages \in 0 .. MaxOutages

Reached(stage) == [at |-> stage, via |-> "none", sent |-> 0, routed |-> FALSE]

LimitInit ==
  /\ clock = 0
  /\ request = [q \in Requests |-> Reached("idle")]
  /\ bucket = [k \in Buckets |-> [credit |-> Full(k), ts |-> 0]]
  /\ taken = {} /\ setBack = {}
  /\ outages = 0

-------------------------------------------------------------------------------
At(q, stage) == request[q].at = stage
Leave(q, stage) == request' = [request EXCEPT ![q] = Reached(stage)]
Send(q, k, g, routed) ==
  request' = [request EXCEPT ![q] = [at |-> k, via |-> g, sent |-> clock + Lead[g], routed |-> routed]]

\* The guard picks key and policy and sends the script with the clock it reads.
\* A handler with a @RouteBucket has a bucket of its own on top.
Arrive(q, g, routed) ==
  /\ At(q, "idle") /\ \A r \in Requests : r < q => ~At(r, "idle")
  /\ Send(q, "sender", g, routed)
  /\ UNCHANGED <<clock, bucket, taken, setBack, outages>>

\* An idle bucket saves up without end.
Uncapped(b, k, t) == [credit |-> b.credit + Max({0, t - b.ts}), ts |-> t]

\* The script's refill; a key that expired is a full bucket, and expires later
\* than it takes to fill.
Refilled(b, k, t) == [credit |-> Min({Full(k), b.credit + Max({0, t - b.ts})}), ts |-> t]

\* One connection keeps the order in which one process sends its scripts.
InOrder(q) ==
  \A r \in Requests \ {q} :
    request[r].at \in Buckets /\ request[r].via = request[q].via
      => request[q].sent <= request[r].sent

Consume(q, k) ==
  LET b == Refilled(bucket[k], k, request[q].sent) IN
  /\ At(q, k) /\ InOrder(q)
  /\ \/ /\ b.credit >= Refill[k]
        /\ bucket' = [bucket EXCEPT ![k] = [b EXCEPT !.credit = @ - Refill[k]]]
        /\ taken' = taken \cup {<<k, q, request[q].sent>>}
        /\ IF k = "sender" /\ request[q].routed
           THEN Send(q, "route", request[q].via, TRUE)
           ELSE Leave(q, "admitted")
     \/ /\ b.credit < Refill[k]
        /\ bucket' = [bucket EXCEPT ![k] = b]
        /\ Leave(q, "refused")
        /\ UNCHANGED taken
  /\ setBack' = IF request[q].sent < bucket[k].ts THEN setBack \cup {k} ELSE setBack
  /\ UNCHANGED <<clock, outages>>

\* Redis is down: fail open.
LimiterFails(q) ==
  /\ request[q].at \in Buckets
  /\ outages < MaxOutages
  /\ outages' = outages + 1
  /\ Leave(q, "admitted")
  /\ UNCHANGED <<clock, bucket, taken, setBack>>

ClockTicks ==
  /\ clock < MaxTime
  /\ clock' = clock + 1
  /\ UNCHANGED <<request, bucket, taken, setBack, outages>>

LimitNext ==
  \/ ClockTicks
  \/ \E q \in Requests :
       \/ \E g \in Gateways, routed \in BOOLEAN : Arrive(q, g, routed)
       \/ \E k \in Buckets : Consume(q, k)
       \/ LimiterFails(q)

LimitSpec == LimitInit /\ [][LimitNext]_limitVars
===============================================================================
