--------------------------- MODULE ResilienceProofs ---------------------------
(***************************************************************************)
(* Theorems about the circuit breaker, the kill switch, the life of a      *)
(* process, the token buckets, and what buttons and dialogs say: for any   *)
(* number of callers, requests, gateways, queues, jobs, visitors and rooms *)
(* and for any durations, capacities and rates.                            *)
(***************************************************************************)
EXTENDS ResilienceProperties, RequestProperties, FiniteSetTheorems, TLAPS

-------------------------------------------------------------------------------
(* The circuit breaker *)

\* A circuit that trips starts counting anew, so the count stays below the threshold.
THEOREM BreakerTypeCorrect == BreakerSpec => []BreakerTypeOK
<1> USE BreakerAssumption
<1>1. BreakerInit => BreakerTypeOK
  BY DEF BreakerInit, BreakerTypeOK, Idle, Instants
<1>2. BreakerTypeOK /\ [BreakerNext]_breakerVars => BreakerTypeOK'
  <2> SUFFICES ASSUME BreakerTypeOK, [BreakerNext]_breakerVars PROVE BreakerTypeOK'
    OBVIOUS
  <2> USE DEF BreakerTypeOK
  <2>1. Trip => breaker' \in [state : {"closed", "open", "half-open"}, failures : 0 .. Threshold - 1,
                              openedAt : Instants, probe : BOOLEAN]
    BY DEF Trip
  <2>2. CASE TimePasses
    BY <2>2 DEF TimePasses, Instants
  <2>3. ASSUME NEW c \in Callers, Miss(c) PROVE BreakerTypeOK'
    BY <2>3 DEF Miss
  <2>4. ASSUME NEW c \in Callers, FailFast(c) PROVE BreakerTypeOK'
    BY <2>4 DEF FailFast, Done, Idle, Instants
  <2>5. ASSUME NEW c \in Callers, Call(c) PROVE BreakerTypeOK'
    <3>1. breaker' \in [state : {"closed", "open", "half-open"}, failures : 0 .. Threshold - 1,
                        openedAt : Instants, probe : BOOLEAN]
      BY <2>5 DEF Call
    <3>2. [at |-> "fetching", since |-> instant, probes |-> breaker.state # "closed"]
            \in [at : {"idle", "missed", "fetching"}, since : Instants, probes : BOOLEAN]
      OBVIOUS
    <3> QED BY <2>5, <3>1, <3>2 DEF Call
  <2>6. ASSUME NEW c \in Callers, FetchSucceeds(c) PROVE BreakerTypeOK'
    <3>1. breaker' = [state |-> "closed", failures |-> 0, openedAt |-> breaker.openedAt,
                      probe |-> FALSE]
      BY <2>6 DEF FetchSucceeds, OnSuccess
    <3>2. 0 \in 0 .. Threshold - 1
      OBVIOUS
    <3> QED BY <2>6, <3>1, <3>2 DEF FetchSucceeds, Done, Idle, Instants
  <2>7. ASSUME NEW c \in Callers, FetchFails(c) PROVE BreakerTypeOK'
    BY <2>1, <2>7 DEF FetchFails, OnFailure, Done, Idle, Instants
  <2>8. CASE UNCHANGED breakerVars
    BY <2>8 DEF breakerVars
  <2> QED BY <2>2, <2>3, <2>4, <2>5, <2>6, <2>7, <2>8 DEF BreakerNext
<1> QED BY <1>1, <1>2, PTL DEF BreakerSpec

\* A half-open circuit has a probe under way that will settle it
\* (circuit-breaker.ts:39-63).
THEOREM ProbeSettles == BreakerSpec => []ProbeWillSettle
<1>1. BreakerInit => ProbeWillSettle
  BY DEF BreakerInit, ProbeWillSettle
<1>2. BreakerTypeOK /\ ProbeWillSettle /\ [BreakerNext]_breakerVars => ProbeWillSettle'
  <2> SUFFICES ASSUME BreakerTypeOK, ProbeWillSettle, [BreakerNext]_breakerVars,
                      breaker'.state = "half-open"
               PROVE  breaker'.probe /\ \E c \in Callers : caller'[c].at = "fetching" /\ caller'[c].probes
    BY DEF ProbeWillSettle
  <2> USE DEF BreakerTypeOK
  <2>1. ASSUME NEW c \in Callers, Call(c) PROVE breaker'.probe /\ caller'[c].at = "fetching" /\ caller'[c].probes
    BY <2>1 DEF Call
  <2>2. CASE \E c \in Callers : FetchSucceeds(c) \/ FetchFails(c)
    <3>1. CASE \E c \in Callers : FetchSucceeds(c)
      <4>1. breaker'.state = "closed"
        BY <3>1 DEF FetchSucceeds, OnSuccess
      <4> QED BY <4>1
    <3>2. CASE \E c \in Callers : FetchFails(c)
      <4>1. Trip => breaker'.state = "open"
        BY DEF Trip
      <4>2. breaker.state # "half-open" => breaker'.state \in {"open", breaker.state}
        BY <3>2, <4>1 DEF FetchFails, OnFailure
      <4> QED BY <3>2, <4>1, <4>2 DEF FetchFails, OnFailure
    <3> QED BY <2>2, <3>1, <3>2
  <2>3. CASE TimePasses \/ UNCHANGED breakerVars
    BY <2>3 DEF TimePasses, breakerVars, ProbeWillSettle
  <2>4. ASSUME NEW c \in Callers, Miss(c) \/ FailFast(c)
        PROVE  breaker'.probe /\ \E d \in Callers : caller'[d].at = "fetching" /\ caller'[d].probes
    <3>1. breaker' = breaker /\ caller[c].at # "fetching"
      BY <2>4 DEF Miss, FailFast
    <3>2. PICK d \in Callers : caller[d].at = "fetching" /\ caller[d].probes
      BY <3>1 DEF ProbeWillSettle
    <3>3. caller'[d] = caller[d]
      BY <2>4, <3>1, <3>2 DEF Miss, FailFast, Done
    <3> QED BY <3>1, <3>2, <3>3 DEF ProbeWillSettle
  <2> QED BY <2>1, <2>2, <2>3, <2>4 DEF BreakerNext
<1> QED BY <1>1, <1>2, BreakerTypeCorrect, PTL DEF BreakerSpec

-------------------------------------------------------------------------------
(* The kill switch *)

\* What is read and cached while nothing fails: a request is asked and answered
\* within a round trip; an answer that says "on" was asked for before the flip; a
\* cached "on" arrived within a round trip of it; and so nobody is let through later
\* than the cached value lives.
SwitchInv ==
  /\ hour \in Hours /\ breaks \in Nat
  /\ creation \in [Creations -> [at : {"idle", "asked", "replied", "allowed", "created", "done"},
                                 since : Hours, read : BOOLEAN]]
  /\ switch \in [on : BOOLEAN, offSince : Hours \cup {Never}]
  /\ cache \in [value : BOOLEAN, at : Hours \cup {Never}]
  /\ lastRoom \in Hours \cup {Never}
  /\ \A c \in Creations :
       /\ creation[c].since <= hour
       /\ creation[c].at \in {"asked", "replied"} => hour <= creation[c].since + RoundTrip
  /\ cache.at <= hour /\ lastRoom <= hour
  /\ switch.offSince # Never => ~switch.on /\ switch.offSince <= hour

OldNews ==
  switch.offSince # Never /\ breaks = 0 =>
    /\ \A c \in Creations : creation[c].at = "replied" /\ creation[c].read =>
         creation[c].since <= switch.offSince
    /\ \A c \in Creations : creation[c].at = "allowed" =>
         creation[c].since <= switch.offSince + RoundTrip + CacheFor
    /\ cache.value => cache.at <= switch.offSince + RoundTrip

KillSwitchInv == SwitchInv /\ OldNews /\ KillSwitchBites

\* A round trip and the life of a cached value after the flip no room is made
\* (feature-flags.ts:27-45).
THEOREM FlipBites == SwitchSpec => []KillSwitchBites
<1> USE KillSwitchAssumption DEF Hours, Never
<1>1. SwitchInit => KillSwitchInv
  BY DEF SwitchInit, KillSwitchInv, SwitchInv, OldNews, KillSwitchBites, Begun
<1>2. KillSwitchInv /\ [SwitchNext]_switchVars => KillSwitchInv'
  <2> SUFFICES ASSUME KillSwitchInv, [SwitchNext]_switchVars PROVE KillSwitchInv'
    OBVIOUS
  <2> USE DEF KillSwitchInv, SwitchInv, OldNews, KillSwitchBites
  <2>1. CASE HourStrikes
    BY <2>1 DEF HourStrikes
  <2>2. CASE Flip
    <3>1. SwitchInv'
      <4>1. switch' \in [on : BOOLEAN, offSince : Hours \cup {-1}]
        BY <2>2 DEF Flip
      <4>2. switch'.offSince # -1 => ~switch'.on /\ switch'.offSince <= hour
        <5>1. CASE switch.on
          <6>1. ~switch'.on
            BY <2>2, <5>1, Zenon DEF Flip
          <6>2. switch'.offSince = hour
            BY <2>2, <5>1, Zenon DEF Flip
          <6> QED BY <6>1, <6>2
        <5>2. CASE ~switch.on
          BY <2>2, <5>2 DEF Flip
        <5> QED BY <5>1, <5>2
      <4> QED BY <2>2, <4>1, <4>2 DEF Flip
    <3>2. OldNews' /\ KillSwitchBites'
      <4>1. switch'.offSince # -1 => switch'.offSince = hour
        BY <2>2 DEF Flip
      <4> QED BY <2>2, <4>1 DEF Flip
    <3> QED BY <3>1, <3>2
  <2>3. ASSUME NEW c \in Creations, IsEnabled(c) PROVE KillSwitchInv'
    <3>1. CASE Fresh
      <4>1. Turn(c, IF cache.value THEN "allowed" ELSE "done") /\ UNCHANGED <<hour, switch, cache, lastRoom, breaks>>
        BY <2>3, <3>1 DEF IsEnabled, Decide
      <4>2. CASE cache.value
        BY <3>1, <4>1, <4>2 DEF Turn, Fresh
      <4>3. CASE ~cache.value
        BY <4>1, <4>3 DEF Turn
      <4> QED BY <4>2, <4>3
    <3>2. CASE ~Fresh
      BY <2>3, <3>2 DEF IsEnabled, Ask
    <3> QED BY <3>1, <3>2
  <2>4. ASSUME NEW c \in Creations, ReadKey(c) PROVE KillSwitchInv'
    <3>1. creation' = [creation EXCEPT ![c] =
            [at |-> "replied", since |-> creation[c].since, read |-> switch.on]]
      BY <2>4 DEF ReadKey
    <3>2. SwitchInv'
      BY <2>4, <3>1 DEF ReadKey, Stage
    <3>3. OldNews'
      BY <2>4, <3>1 DEF ReadKey, Stage
    <3>4. KillSwitchBites'
      BY <2>4 DEF ReadKey
    <3> QED BY <3>2, <3>3, <3>4
  <2>5. ASSUME NEW c \in Creations, CacheReply(c) PROVE KillSwitchInv'
    BY <2>5 DEF CacheReply, Stage, Turn, Decide
  <2>6. ASSUME NEW c \in Creations, FlagFails(c) PROVE KillSwitchInv'
    BY <2>6 DEF FlagFails, Stage, Turn, Decide
  <2>7. ASSUME NEW c \in Creations, CreateRoom(c) PROVE KillSwitchInv'
    <3>1. CASE lastRoom' = creation[c].since /\ Turn(c, "created")
      BY <2>7, <3>1 DEF CreateRoom, Stage, Turn
    <3>2. CASE UNCHANGED lastRoom /\ Turn(c, "done")
      BY <2>7, <3>2 DEF CreateRoom, Turn
    <3> QED BY <2>7, <3>1, <3>2 DEF CreateRoom
  <2>8. ASSUME NEW c \in Creations, AddFirstVideo(c) PROVE KillSwitchInv'
    BY <2>8 DEF AddFirstVideo, Stage, Turn
  <2>9. CASE UNCHANGED switchVars
    BY <2>9 DEF switchVars
  <2> QED BY <2>1, <2>2, <2>3, <2>4, <2>5, <2>6, <2>7, <2>8, <2>9 DEF SwitchNext
<1>3. KillSwitchInv => KillSwitchBites
  BY DEF KillSwitchInv
<1> QED BY <1>1, <1>2, <1>3, PTL DEF SwitchSpec

-------------------------------------------------------------------------------
(* The life of a process *)

\* A connection that is up consumes every queue that was declared; a tick that is
\* about to mark its batch has put it on its way; a process that has closed its
\* worker has no job left, and only such a process closes its bus.
LifecycleInv ==
  /\ setups \in Nat
  /\ link = "up" => consuming = 1 .. setups
  /\ phase = "listening" => setups = Queues
  /\ tick.at = "mark" =>
       tick.batch \subseteq delivered \cup unclean \cup (IF link = "closed" THEN {} ELSE pending)
  /\ link = "closed" => phase \in {"disconnecting", "exited"}
  /\ work \in [Works -> {"waiting", "active", "done", "claimed"}]
  /\ \A w \in Jobs : /\ work[w] # "claimed"
                     /\ phase \in {"disconnecting", "exited"} => work[w] # "active"

\* Boot, reconnection, drain and shutdown are orderly, in whatever order they meet
\* the relay's ticks, the handlers and the jobs (rabbitmq-bus.ts:77-106, :155-165,
\* outbox.ts:78-116, playback.module.ts:121-172).
THEOREM Orderly == LifecycleSpec => []OrderlyLifecycle
<1> USE LifecycleAssumption
<1> USE DEF OrderlyLifecycle, ServingMeansBound, NoJobCutOff, MarkedIsOnItsWay
<1>1. LifecycleInit => LifecycleInv /\ OrderlyLifecycle
  BY DEF LifecycleInit, LifecycleInv, NoTick
<1>2. LifecycleInv /\ OrderlyLifecycle /\ [LifecycleNext]_lifecycleVars
        => LifecycleInv' /\ OrderlyLifecycle'
  <2> SUFFICES ASSUME LifecycleInv, OrderlyLifecycle, [LifecycleNext]_lifecycleVars
               PROVE  LifecycleInv' /\ OrderlyLifecycle'
    OBVIOUS
  <2> USE DEF LifecycleInv, processVars, relayVars, busVars, boundVars
  <2>1. CASE BindConsumer
    BY <2>1 DEF BindConsumer
  <2>2. CASE BindFails \/ Listen
    BY <2>2 DEF BindFails, Listen
  <2>3. CASE LoseConnection
    BY <2>3 DEF LoseConnection, Connected
  <2>4. CASE Reopen \/ RunSetup
    BY <2>4 DEF Reopen, RunSetup
  <2>5. CASE FlushPending
    BY <2>5 DEF FlushPending
  <2>6. CASE TickStarts \/ TickFetches \/ TickFails
    BY <2>6 DEF TickStarts, TickFetches, TickFails, NoTick
  <2>7. CASE TickPublishes
    BY <2>7 DEF TickPublishes, Connected
  <2>8. CASE TickMarks
    BY <2>8 DEF TickMarks, NoTick
  <2>9. ASSUME NEW w \in Works, TakeJob(w) \/ TakeMessage(w) \/ Commit(w)
        PROVE  LifecycleInv' /\ OrderlyLifecycle'
    BY <2>9 DEF TakeJob, TakeMessage, Commit, Begin, Running
  <2>10. CASE StopRelay \/ Drained \/ CloseScheduler
    BY <2>10 DEF StopRelay, Drained, CloseScheduler, NoTick
  <2>11. CASE CloseBus
    BY <2>11 DEF CloseBus
  <2>12. CASE Exit
    BY <2>12 DEF Exit, NoTick
  <2>13. CASE NextProcess
    BY <2>13 DEF NextProcess
  <2>14. CASE UNCHANGED lifecycleVars
    BY <2>14 DEF lifecycleVars
  <2> QED BY <2>1, <2>2, <2>3, <2>4, <2>5, <2>6, <2>7, <2>8, <2>9, <2>10, <2>11, <2>12,
             <2>13, <2>14 DEF LifecycleNext
<1> QED BY <1>1, <1>2, PTL DEF LifecycleSpec

-------------------------------------------------------------------------------
(* The token buckets *)

USE RateLimitAssumption

\* Tokens that bucket k gave between two clock readings, and what they cost.
Given(k, from, to) == {p \in taken : p[1] = k /\ p[3] \in from .. to}
Spent(k, from, to) == Refill[k] * Cardinality(Given(k, from, to))

LimitTypes ==
  /\ clock \in 0 .. MaxTime
  /\ request \in [Requests -> [at : {"idle", "sender", "route", "admitted", "refused"},
                               via : Gateways \cup {"none"}, sent : Time, routed : BOOLEAN]]
  /\ bucket \in [Buckets -> [credit : Nat, ts : Time]]
  /\ taken \subseteq Buckets \X Requests \X Time
  /\ IsFiniteSet(taken)
  /\ setBack \subseteq Buckets

\* A bucket that was never set back has its newest token's clock, or a newer one.
InTime == \A p \in taken : p[1] \notin setBack => p[3] <= bucket[p[1]].ts

\* In every window, those that are over and those that last until now: what was
\* spent and what is left do not exceed the capacity and what the window earned.
Thrift ==
  \A k \in Buckets \ setBack : \A from, to \in Time :
    /\ from <= to => Spent(k, from, to) <= Full(k) + (to - from)
    /\ from <= bucket[k].ts =>
         Spent(k, from, bucket[k].ts) + bucket[k].credit <= Full(k) + (bucket[k].ts - from)

\* Whoever is at a bucket came through a gateway.
Sent == \A q \in Requests : request[q].at \in Buckets => request[q].via \in Gateways

LimitInv == LimitTypes /\ Sent /\ InTime /\ Thrift

\* The clock of a gateway is a clock reading.
LEMMA SentInTime ==
  ASSUME NEW c \in 0 .. MaxTime, NEW g \in Gateways
  PROVE  c + Lead[g] \in Time
<1>1. Lead[g] \in 0 .. MaxLead /\ MaxLead \in Nat /\ MaxTime \in Nat
  OBVIOUS
<1> QED BY <1>1 DEF Time

\* Whatever the clocks say, the refill gives a bucket of the time of the script.
LEMMA RefillTypes ==
  ASSUME NEW k \in Buckets, NEW b \in [credit : Nat, ts : Time], NEW t \in Time
  PROVE  Refilled(b, k, t).ts = t /\ Refilled(b, k, t).credit \in Nat
<1>1. Full(k) \in Nat
  BY DEF Full
<1>2. Max({0, t - b.ts}) \in Nat
  <2>1. \E x \in {0, t - b.ts} : \A y \in {0, t - b.ts} : x >= y
    BY DEF Time
  <2> QED BY <2>1 DEF Max, Time
<1>3. ASSUME NEW f \in Nat, NEW n \in Nat PROVE Min({f, n}) \in Nat
  <2>1. \E x \in {f, n} : \A y \in {f, n} : x <= y
    OBVIOUS
  <2> QED BY <2>1 DEF Min
<1>4. b.credit + Max({0, t - b.ts}) \in Nat
  BY <1>2
<1> QED BY <1>1, <1>3, <1>4 DEF Refilled

\* The refill adds what the time earned, up to the capacity.
LEMMA RefillAdds ==
  ASSUME NEW k \in Buckets, NEW b \in [credit : Nat, ts : Time], NEW t \in Time, b.ts <= t
  PROVE  /\ Refilled(b, k, t).ts = t
         /\ Refilled(b, k, t).credit \in Nat
         /\ Refilled(b, k, t).credit <= Full(k)
         /\ Refilled(b, k, t).credit <= b.credit + (t - b.ts)
<1>1. Full(k) \in Nat
  BY DEF Full
<1>2. Max({0, t - b.ts}) = t - b.ts
  <2>1. \E x \in {0, t - b.ts} : \A y \in {0, t - b.ts} : x >= y
    BY DEF Time
  <2> QED BY <2>1 DEF Max, Time
<1>3. ASSUME NEW n \in Nat
      PROVE  Min({Full(k), n}) \in Nat /\ Min({Full(k), n}) <= Full(k) /\ Min({Full(k), n}) <= n
  <2> DEFINE f == Full(k)
  <2>1. f \in Nat
    BY <1>1
  <2> HIDE DEF f
  <2>2. \E x \in {f, n} : \A y \in {f, n} : x <= y
    BY <2>1, <1>3
  <2>3. Min({f, n}) \in {f, n} /\ \A y \in {f, n} : Min({f, n}) <= y
    BY <2>2 DEF Min
  <2> QED BY <2>1, <2>3, <1>3 DEF f
<1>4. b.credit + (t - b.ts) \in Nat
  BY DEF Time
<1> QED BY <1>2, <1>3, <1>4 DEF Refilled

\* What was spent is a number, and one more token costs at most one refill.
LEMMA SpentByOne ==
  ASSUME LimitTypes, NEW k \in Buckets, NEW from \in Time, NEW to \in Time, NEW p,
         taken' = taken \cup {p}
  PROVE  /\ Spent(k, from, to) \in Nat
         /\ Spent(k, from, to)' \in Nat
         /\ Spent(k, from, to)' <= Spent(k, from, to) + Refill[k]
         /\ ~(p[1] = k /\ p[3] \in from .. to) => Spent(k, from, to)' = Spent(k, from, to)
<1> DEFINE G == Given(k, from, to)
           H == {q \in taken \cup {p} : q[1] = k /\ q[3] \in from .. to}
<1>1. IsFiniteSet(G) /\ Cardinality(G) \in Nat
  BY FS_Subset, FS_CardinalityType, G \subseteq taken DEF Given, LimitTypes
<1>2. H = IF p[1] = k /\ p[3] \in from .. to THEN G \cup {p} ELSE G
  BY DEF Given
<1>3. Cardinality(H) \in Nat /\ Cardinality(H) <= Cardinality(G) + 1
  <2>1. Cardinality(G \cup {p}) \in {Cardinality(G), Cardinality(G) + 1}
    BY <1>1, FS_AddElement
  <2>2. H \in {G, G \cup {p}}
    BY <1>2, Zenon
  <2> HIDE DEF G, H
  <2>3. CASE H = G
    BY <1>1, <2>3
  <2>4. CASE H = G \cup {p}
    BY <1>1, <2>1, <2>4
  <2> QED BY <2>2, <2>3, <2>4
<1>4. Spent(k, from, to)' = Refill[k] * Cardinality(H)
  BY DEF Spent, Given
<1>5. Refill[k] \in Nat
  OBVIOUS
<1>6. ASSUME NEW r \in Nat, NEW m \in Nat, NEW n \in Nat, m <= n + 1
      PROVE  r * m \in Nat /\ r * n \in Nat /\ r * m <= r * n + r
  <2>1. r * (n + 1) = r * n + r
    BY <1>6
  <2>2. r * m <= r * (n + 1)
    BY <1>6
  <2> QED BY <2>1, <2>2, <1>6
<1> QED
  <2>1. Spent(k, from, to) = Refill[k] * Cardinality(G)
    BY DEF Spent
  <2>2. Refill[k] * Cardinality(H) \in Nat /\ Refill[k] * Cardinality(G) \in Nat
        /\ Refill[k] * Cardinality(H) <= Refill[k] * Cardinality(G) + Refill[k]
    BY <1>1, <1>3, <1>5, <1>6
  <2>3. ~(p[1] = k /\ p[3] \in from .. to) => H = G
    BY <1>2, Zenon
  <2> HIDE DEF G, H
  <2> QED BY <1>4, <2>1, <2>2, <2>3

\* Nothing is spent at the start.
LEMMA LimitInitInv == LimitInit => LimitInv
<1> SUFFICES ASSUME LimitInit PROVE LimitInv
  OBVIOUS
<1>1. \A k \in Buckets : Full(k) \in Nat
  BY DEF Full
<1>2. LimitTypes
  BY <1>1, FS_EmptySet DEF LimitTypes, LimitInit, Reached, Time
<1>3. InTime
  BY DEF InTime, LimitInit, Time
<1>4. \A k \in Buckets : \A from, to \in Time : Spent(k, from, to) = 0
  <2> SUFFICES ASSUME NEW k \in Buckets, NEW from \in Time, NEW to \in Time
               PROVE  Spent(k, from, to) = 0
    OBVIOUS
  <2>1. Given(k, from, to) = {}
    BY DEF Given, LimitInit
  <2>2. \A r \in Nat : r * 0 = 0
    OBVIOUS
  <2> QED BY <2>1, <2>2, FS_EmptySet DEF Spent
<1>5. Thrift
  BY <1>1, <1>4 DEF Thrift, LimitInit, Time
<1>6. Sent
  BY DEF Sent, LimitInit, Reached, Buckets
<1> QED BY <1>2, <1>3, <1>5, <1>6 DEF LimitInv

\* What leaves the buckets alone leaves the accounts alone.
LEMMA ThriftKept ==
  ASSUME Thrift, UNCHANGED <<bucket, taken, setBack>>
  PROVE  Thrift'
<1>1. bucket' = bucket /\ taken' = taken /\ setBack' = setBack
  OBVIOUS
<1> QED BY <1>1 DEF Thrift, Spent, Given

\* The accounts of the bucket that answers a request.
LEMMA ThriftOfBucket ==
  ASSUME LimitInv, NEW q \in Requests, NEW k \in Buckets, Consume(q, k), k \notin setBack',
         NEW from \in Time, NEW to \in Time
  PROVE  /\ from <= to => Spent(k, from, to)' <= Full(k) + (to - from)
         /\ from <= bucket'[k].ts =>
              Spent(k, from, bucket[k].ts)' + bucket'[k].credit <= Full(k) + (bucket'[k].ts - from)
<1>a. PICK b \in [credit : Nat, ts : Time] : b = bucket[k]
  BY DEF LimitInv, LimitTypes
<1>b. PICK t \in Time : t = request[q].sent
  BY DEF LimitInv, LimitTypes
<1>1. b.ts <= t /\ k \notin setBack /\ Full(k) \in Nat /\ Refill[k] \in Nat
  <2>1. ~(t < b.ts) /\ k \notin setBack
    BY <1>a, <1>b DEF Consume
  <2> QED BY <2>1 DEF Full, Time
<1>c. Refilled(b, k, t) \in [credit : Nat, ts : Time]
  BY <1>1, RefillAdds DEF Refilled
<1>d. PICK r \in [credit : Nat, ts : Time] : r = Refilled(b, k, t)
  BY <1>c
<1>2. /\ r.ts = t /\ r.credit \in Nat
      /\ r.credit <= Full(k) /\ r.credit <= b.credit + (t - b.ts)
  BY <1>1, <1>d, RefillAdds
<1>3. ASSUME NEW u \in Time, NEW w \in Time, b.ts <= u, b.ts <= w
      PROVE  Given(k, from, u) = Given(k, from, w)
  BY <1>a, <1>1, <1>3 DEF Given, LimitInv, LimitTypes, InTime, Time
<1>4. from > b.ts => Given(k, from, t) = {}
  BY <1>a, <1>1 DEF Given, LimitInv, LimitTypes, InTime, Time
<1>5. \A u, w \in Time : Spent(k, u, w) \in Nat
  <2> SUFFICES ASSUME NEW u \in Time, NEW w \in Time PROVE Spent(k, u, w) \in Nat
    OBVIOUS
  <2>1. Cardinality(Given(k, u, w)) \in Nat
    BY FS_Subset, FS_CardinalityType, Given(k, u, w) \subseteq taken DEF Given, LimitInv, LimitTypes
  <2>2. \A m, n \in Nat : m * n \in Nat
    OBVIOUS
  <2> QED BY <1>1, <2>1, <2>2 DEF Spent
\* The refill keeps the account.
<1>6. from <= t => Spent(k, from, t) + r.credit <= Full(k) + (t - from)
  <2>1. CASE from <= b.ts
    <3>1. Spent(k, from, t) = Spent(k, from, b.ts)
      BY <1>1, <1>3 DEF Spent, Time
    <3>2. Spent(k, from, b.ts) + b.credit <= Full(k) + (b.ts - from)
      BY <1>a, <1>1, <2>1 DEF LimitInv, Thrift
    <3> QED BY <1>1, <1>2, <1>5, <3>1, <3>2 DEF Time
  <2>2. CASE from > b.ts
    <3>1. \A m \in Nat : m * 0 = 0
      OBVIOUS
    <3>2. Spent(k, from, t) = 0
      BY <1>1, <1>4, <2>2, <3>1, FS_EmptySet DEF Spent
    <3> QED BY <1>1, <1>2, <3>2 DEF Time
  <2> QED BY <1>1, <2>1, <2>2 DEF Time
<1>7. CASE r.credit >= Refill[k]
  <2>1. /\ bucket'[k] = [r EXCEPT !.credit = @ - Refill[k]]
        /\ taken' = taken \cup {<<k, q, t>>}
    <3>1. ~(r.credit < Refill[k])
      BY <1>1, <1>7
    <3> QED BY <1>a, <1>b, <1>d, <3>1 DEF Consume, LimitInv, LimitTypes
  <2>2. bucket'[k].ts = t /\ bucket'[k].credit = r.credit - Refill[k]
    BY <1>2, <2>1
  <2>3. \A w \in Time :
          /\ Spent(k, from, w)' \in Nat
          /\ Spent(k, from, w)' <= Spent(k, from, w) + Refill[k]
          /\ t \notin from .. w => Spent(k, from, w)' = Spent(k, from, w)
    <3> SUFFICES ASSUME NEW w \in Time
                 PROVE  /\ Spent(k, from, w)' \in Nat
                        /\ Spent(k, from, w)' <= Spent(k, from, w) + Refill[k]
                        /\ t \notin from .. w => Spent(k, from, w)' = Spent(k, from, w)
      OBVIOUS
    <3> DEFINE p == <<k, q, t>>
    <3>1. p[1] = k /\ p[3] = t /\ taken' = taken \cup {p} /\ LimitTypes
      BY <2>1 DEF LimitInv
    <3> HIDE DEF p
    <3> QED BY <3>1, SpentByOne
  <2>4. ASSUME from <= to PROVE Spent(k, from, to)' <= Full(k) + (to - from)
    <3>1. CASE t \in from .. to
      <4>1. Spent(k, from, to) = Spent(k, from, t)
        BY <1>1, <1>3, <3>1 DEF Spent, Time
      <4>2. Spent(k, from, to)' <= Spent(k, from, to) + Refill[k]
        BY <2>3
      <4> QED BY <1>1, <1>2, <1>5, <1>6, <1>7, <2>3, <3>1, <4>1, <4>2 DEF Time
    <3>2. CASE t \notin from .. to
      BY <1>1, <2>3, <2>4, <3>2 DEF LimitInv, Thrift
    <3> QED BY <3>1, <3>2
  <2>5. ASSUME from <= bucket'[k].ts
        PROVE  Spent(k, from, bucket[k].ts)' + bucket'[k].credit <= Full(k) + (bucket'[k].ts - from)
    <3>1. Spent(k, from, bucket[k].ts)' = Spent(k, from, t)'
      BY <2>2 DEF Spent, Given
    <3>2. Spent(k, from, t)' <= Spent(k, from, t) + Refill[k] /\ Spent(k, from, t)' \in Nat
      BY <1>1, <2>3
    <3> QED BY <1>1, <1>2, <1>5, <1>6, <2>2, <2>5, <3>1, <3>2 DEF Time
  <2> QED BY <2>4, <2>5
<1>8. CASE r.credit < Refill[k]
  <2>1. bucket'[k] = r /\ taken' = taken
    <3>1. ~(r.credit >= Refill[k])
      BY <1>1, <1>8
    <3> QED BY <1>a, <1>b, <1>d, <3>1 DEF Consume, LimitInv, LimitTypes
  <2>2. \A w \in Time : Spent(k, from, w)' = Spent(k, from, w)
    BY <2>1 DEF Spent, Given
  <2>3. Spent(k, from, bucket[k].ts)' = Spent(k, from, t)
    BY <1>2, <2>1 DEF Spent, Given
  <2>4. from <= to => Spent(k, from, to)' <= Full(k) + (to - from)
    BY <1>1, <2>2 DEF LimitInv, Thrift
  <2> QED BY <1>2, <1>6, <2>1, <2>3, <2>4
<1> QED BY <1>1, <1>2, <1>7, <1>8

\* A token taken, or a request refused, keeps the accounts of both buckets.
LEMMA ConsumeInv ==
  ASSUME LimitInv, NEW q \in Requests, NEW k \in Buckets, Consume(q, k)
  PROVE  LimitInv'
<1>a. PICK b \in [credit : Nat, ts : Time] : b = bucket[k]
  BY DEF LimitInv, LimitTypes
<1>b. PICK t \in Time : t = request[q].sent
  BY DEF LimitInv, LimitTypes
<1>1. PICK r \in [credit : Nat, ts : Time] : r = Refilled(b, k, t) /\ r.ts = t
  <2>1. Refilled(b, k, t).ts = t /\ Refilled(b, k, t).credit \in Nat
    BY RefillTypes
  <2> QED BY <2>1 DEF Refilled
<1>2. Refill[k] \in Nat
  OBVIOUS
<1>3. \E c \in Nat : bucket' = [bucket EXCEPT ![k] = [credit |-> c, ts |-> t]]
  <2>1. r = [credit |-> r.credit, ts |-> t]
    BY <1>1
  <2>2. CASE r.credit >= Refill[k]
    <3>1. bucket' = [bucket EXCEPT ![k] = [r EXCEPT !.credit = @ - Refill[k]]]
      <4>1. ~(r.credit < Refill[k])
        BY <1>2, <2>2
      <4> QED BY <1>1, <1>a, <1>b, <4>1 DEF Consume, LimitInv, LimitTypes
    <3>2. [r EXCEPT !.credit = @ - Refill[k]] = [credit |-> r.credit - Refill[k], ts |-> t]
      BY <2>1
    <3>3. r.credit - Refill[k] \in Nat
      BY <1>2, <2>2
    <3> QED BY <3>1, <3>2, <3>3
  <2>3. CASE r.credit < Refill[k]
    <3>1. ~(r.credit >= Refill[k])
      BY <1>2, <2>3
    <3>2. bucket' = [bucket EXCEPT ![k] = r]
      BY <1>1, <1>a, <1>b, <3>1 DEF Consume, LimitInv, LimitTypes
    <3> QED BY <2>1, <3>2
  <2> QED BY <1>2, <2>2, <2>3
<1>4. taken' = taken \/ taken' = taken \cup {<<k, q, t>>}
  BY <1>b DEF Consume
<1>5. UNCHANGED clock /\ setBack' = IF t < b.ts THEN setBack \cup {k} ELSE setBack
  BY <1>a, <1>b DEF Consume
<1>6. request' \in [Requests -> [at : {"idle", "sender", "route", "admitted", "refused"},
                                 via : Gateways \cup {"none"}, sent : Time, routed : BOOLEAN]]
  <2>1. CASE Send(q, "route", request[q].via, TRUE)
    <3>1. request[q].via \in Gateways \cup {"none"} /\ At(q, k)
      BY DEF LimitInv, LimitTypes, Consume
    <3>2. request[q].via \in Gateways
      BY <3>1 DEF LimitInv, Sent, At
    <3>3. clock + Lead[request[q].via] \in Time
      BY <3>2, SentInTime DEF LimitInv, LimitTypes
    <3> QED BY <2>1, <3>1, <3>3 DEF Send, LimitInv, LimitTypes
  <2>2. CASE \E stage \in {"admitted", "refused"} : Leave(q, stage)
    BY <2>2 DEF LimitInv, LimitTypes, Leave, Reached, Time
  <2> QED BY <2>1, <2>2 DEF Consume
<1>7. LimitTypes'
  <2>1. bucket' \in [Buckets -> [credit : Nat, ts : Time]]
    BY <1>3 DEF LimitInv, LimitTypes
  <2>2. taken' \subseteq Buckets \X Requests \X Time
    BY <1>4 DEF LimitInv, LimitTypes
  <2>3. IsFiniteSet(taken')
    <3>1. IsFiniteSet(taken \cup {<<k, q, t>>})
      BY FS_AddElement DEF LimitInv, LimitTypes
    <3> QED BY <1>4, <3>1 DEF LimitInv, LimitTypes
  <2> QED BY <1>5, <1>6, <2>1, <2>2, <2>3 DEF LimitInv, LimitTypes
<1>8. \A l \in Buckets : bucket'[l].ts = IF l = k THEN t ELSE bucket[l].ts
  BY <1>3 DEF LimitInv, LimitTypes
<1>9. InTime'
  <2> SUFFICES ASSUME NEW p \in taken', p[1] \notin setBack' PROVE p[3] <= bucket'[p[1]].ts
    BY DEF InTime
  <2>1. CASE p \in taken
    <3>1. p[1] \in Buckets /\ p[3] \in Time /\ bucket[p[1]].ts \in Time
      BY <2>1 DEF LimitInv, LimitTypes
    <3>2. p[1] \notin setBack /\ p[3] <= bucket[p[1]].ts
      BY <1>5, <2>1 DEF LimitInv, InTime
    <3>3. p[1] = k => b.ts <= t
      BY <1>5 DEF Time
    <3> QED BY <1>a, <1>8, <3>1, <3>2, <3>3 DEF Time
  <2>2. CASE p = <<k, q, t>>
    BY <1>8, <2>2 DEF Time
  <2> QED BY <1>4, <2>1, <2>2
<1>10. Thrift'
  <2> SUFFICES ASSUME NEW l \in Buckets, l \notin setBack', NEW from \in Time, NEW to \in Time
               PROVE  /\ from <= to => Spent(l, from, to)' <= Full(l) + (to - from)
                      /\ from <= bucket'[l].ts =>
                           Spent(l, from, bucket[l].ts)' + bucket'[l].credit
                             <= Full(l) + (bucket'[l].ts - from)
    BY DEF Thrift, Full
  <2>1. CASE l = k
    BY <2>1, ThriftOfBucket
  <2>2. CASE l # k
    <3>1. bucket'[l] = bucket[l] /\ l \notin setBack
      BY <1>3, <1>5, <2>2 DEF LimitInv, LimitTypes
    <3>2. PICK v : v = bucket[l].ts
      OBVIOUS
    <3>3. Spent(l, from, to)' = Spent(l, from, to) /\ Spent(l, from, v)' = Spent(l, from, v)
      <4>1. Given(l, from, to)' = Given(l, from, to) /\ Given(l, from, v)' = Given(l, from, v)
        BY <1>4, <2>2 DEF Given
      <4> QED BY <4>1 DEF Spent
    <3>4. Spent(l, from, bucket[l].ts)' = Spent(l, from, v)'
      BY <3>1, <3>2 DEF Spent, Given
    <3> QED BY <3>1, <3>2, <3>3, <3>4 DEF LimitInv, Thrift
  <2> QED BY <2>1, <2>2
<1>11. Sent'
  <2>1. \A p \in Requests \ {q} : request'[p] = request[p]
    BY DEF Consume, Send, Leave, LimitInv, LimitTypes
  <2>2. request'[q].at \in Buckets => request'[q].via = request[q].via
    BY DEF Consume, Send, Leave, Reached, LimitInv, LimitTypes, Buckets
  <2>3. request[q].via \in Gateways
    BY DEF Consume, At, Sent, LimitInv
  <2> QED BY <2>1, <2>2, <2>3 DEF Sent, LimitInv
<1> QED BY <1>7, <1>9, <1>10, <1>11 DEF LimitInv

\* Every step keeps the invariant.
LEMMA LimitNextInv == LimitInv /\ [LimitNext]_limitVars => LimitInv'
<1> SUFFICES ASSUME LimitInv, [LimitNext]_limitVars PROVE LimitInv'
  OBVIOUS
<1>1. ASSUME NEW q \in Requests, NEW k \in Buckets, Consume(q, k) PROVE LimitInv'
  BY <1>1, ConsumeInv
<1>2. ASSUME UNCHANGED <<bucket, taken, setBack>>, LimitTypes', Sent' PROVE LimitInv'
  <2>1. Thrift'
    BY <1>2, ThriftKept DEF LimitInv
  <2>2. InTime'
    BY <1>2 DEF LimitInv, InTime
  <2> QED BY <1>2, <2>1, <2>2 DEF LimitInv
<1>3. CASE ClockTicks \/ UNCHANGED limitVars
  BY <1>2, <1>3 DEF ClockTicks, limitVars, LimitInv, LimitTypes, Sent
<1>4. ASSUME NEW q \in Requests, NEW g \in Gateways, NEW routed \in BOOLEAN, Arrive(q, g, routed)
      PROVE  LimitInv'
  <2>1. clock + Lead[g] \in Time
    BY SentInTime DEF LimitInv, LimitTypes
  <2>2. LimitTypes'
    BY <1>4, <2>1 DEF Arrive, Send, LimitInv, LimitTypes
  <2>3. Sent'
    BY <1>4 DEF Arrive, Send, LimitInv, LimitTypes, Sent
  <2> QED BY <1>2, <1>4, <2>2, <2>3 DEF Arrive
<1>5. ASSUME NEW q \in Requests, LimiterFails(q) PROVE LimitInv'
  <2>1. LimitTypes'
    BY <1>5 DEF LimiterFails, Leave, Reached, LimitInv, LimitTypes, Time
  <2>2. Sent'
    BY <1>5 DEF LimiterFails, Leave, Reached, LimitInv, LimitTypes, Sent, Buckets
  <2> QED BY <1>2, <1>5, <2>1, <2>2 DEF LimiterFails
<1> QED BY <1>1, <1>3, <1>4, <1>5 DEF LimitNext

\* No window of time lets more requests pass than the capacity and what the window
\* earned, whatever the arrivals, at a bucket whose gateways agree on the time
\* (token-bucket.ts:24-32, rate-limit.guard.ts).
THEOREM BurstsAreBounded == LimitSpec => []NoBurstBeyondCapacity
<1>1. LimitInv => NoBurstBeyondCapacity
  BY DEF LimitInv, Thrift, Spent, Given, NoBurstBeyondCapacity
<1> QED BY <1>1, LimitInitInv, LimitNextInv, PTL DEF LimitSpec

-------------------------------------------------------------------------------
(* What the buttons of the queue say *)

Entry == [video : Links, by : Visitors, status : {"pending", "playing", "gone"}]

RequestTypes ==
  /\ user \in Visitors \cup {Nobody}
  /\ entries \in Seq(Entry)
  /\ shown \subseteq DOMAIN entries
  /\ adding \in [at : {"none", "asked", "answered"}, video : Links \cup {Nobody},
                 by : Visitors \cup {Nobody}, entry : Nat,
                 answer : {"none", "added", "other"} \cup FRIENDLY]
  /\ adding.at = "asked" => adding.video \in Links /\ adding.by \in Visitors
  /\ removing \in [at : {"none", "asked", "answered"}, entry : Nat, by : Visitors \cup {Nobody},
                   answer : {"none", "removed", "QUEUE_ITEM_NOT_FOUND", "CANNOT_REMOVE_PLAYING",
                             "NOT_ALLOWED_TO_REMOVE"}]
  /\ removing.at # "none" => removing.entry \in DOMAIN entries

\* Nothing is queued before it is answered, and whoever asks for a removal may.
RequestsInv ==
  /\ RequestTypes
  /\ OfferedIsAllowed /\ FriendlyIsTrue /\ AddedIsQueued
  /\ adding.answer = "added" => adding.entry \in DOMAIN entries
  /\ adding.at = "asked" => adding.entry = 0 /\ adding.answer = "none"
  /\ removing.at = "asked" =>
       removing.by = entries[removing.entry].by \/ removing.by = Owner

\* The queue only grows; an entry keeps its video and who added it.
Grows ==
  /\ entries' \in Seq(Entry) /\ DOMAIN entries \subseteq DOMAIN entries'
  /\ \A i \in DOMAIN entries : entries'[i].video = entries[i].video /\ entries'[i].by = entries[i].by

\* A queued entry comes last, and the entries before it stay as they are.
LEMMA QueueGrows ==
  ASSUME entries \in Seq(Entry), NEW v \in Links, NEW u \in Visitors, Queue(v, u)
  PROVE  /\ Grows
         /\ Len(entries') \in DOMAIN entries' /\ Len(entries') # 0
         /\ entries'[Len(entries')].video = v /\ entries'[Len(entries')].by = u
<1>1. PICK e \in Entry : e = [video |-> v, by |-> u, status |-> "pending"]
  BY DEF Entry
<1>2. entries' = Append(entries, e) /\ e.video = v /\ e.by = u
  BY <1>1 DEF Queue
<1>3. /\ entries' \in Seq(Entry) /\ Len(entries') = Len(entries) + 1 /\ Len(entries) \in Nat
      /\ entries'[Len(entries) + 1] = e /\ \A i \in DOMAIN entries : entries'[i] = entries[i]
  BY <1>2
<1> QED BY <1>2, <1>3 DEF Grows

\* An entry that changes its status stays at its place.
LEMMA StatusGrows ==
  ASSUME entries \in Seq(Entry), NEW i \in DOMAIN entries,
         NEW s \in {"pending", "playing", "gone"}, SetStatus(i, s)
  PROVE  Grows
<1>1. \A j \in DOMAIN entries : entries[j] \in Entry
  OBVIOUS
<1>2. /\ entries' \in [DOMAIN entries -> Entry]
      /\ \A j \in DOMAIN entries : entries'[j].video = entries[j].video /\ entries'[j].by = entries[j].by
  BY <1>1 DEF SetStatus, Entry
<1>3. PICK n \in Nat : DOMAIN entries = 1 .. n
  OBVIOUS
<1> QED BY <1>2, <1>3 DEF Grows

\* What the timeline does on its own disturbs no request.
LEMMA RequestsKept ==
  ASSUME RequestsInv, Grows, UNCHANGED <<adding, removing>>,
         user' \in Visitors \cup {Nobody}, shown' \subseteq DOMAIN entries'
  PROVE  RequestsInv'
<1>1. RequestTypes'
  BY DEF RequestsInv, RequestTypes, Grows
<1>2. OfferedIsAllowed' /\ FriendlyIsTrue' /\ AddedIsQueued'
  BY DEF RequestsInv, Grows, OfferedIsAllowed, FriendlyIsTrue, AddedIsQueued
<1> QED BY <1>1, <1>2 DEF RequestsInv, RequestTypes, Grows

\* Every step of the requests keeps what is true of them.
LEMMA RequestsStep ==
  ASSUME RequestsInv, [RequestsNext]_requestVars PROVE RequestsInv'
<1>1. RequestTypes
  BY DEF RequestsInv
<1>2. ASSUME UNCHANGED entries PROVE Grows
  BY <1>1, <1>2 DEF RequestTypes, Grows
<1>3. CASE UNCHANGED requestVars
  BY <1>1, <1>2, <1>3, RequestsKept DEF requestVars, RequestTypes
<1>4. ASSUME NEW v \in Links, NEW u \in Visitors, OthersAdd(v, u) PROVE RequestsInv'
  BY <1>1, <1>4, QueueGrows, RequestsKept DEF OthersAdd, RequestTypes, Grows
<1>5. ASSUME NEW i \in DOMAIN entries, OnTheAir(i) \/ OffTheAir(i) \/ OthersRemove(i)
      PROVE  RequestsInv'
  <2>1. Grows
    BY <1>1, <1>5, StatusGrows DEF OnTheAir, OffTheAir, OthersRemove, RequestTypes
  <2> QED BY <1>1, <1>5, <2>1, RequestsKept DEF OnTheAir, OffTheAir, OthersRemove, RequestTypes, Grows
<1>6. ASSUME NEW u \in Visitors \cup {Nobody}, Become(u) PROVE RequestsInv'
  BY <1>1, <1>2, <1>6, RequestsKept DEF Become, RequestTypes
<1>7. CASE ShowQueue \/ OpenDialog \/ CloseDialog
  BY <1>1, <1>2, <1>7, RequestsKept DEF ShowQueue, OpenDialog, CloseDialog, RequestTypes, With
<1> USE DEF RequestsInv, RequestTypes, OfferedIsAllowed, FriendlyIsTrue, AddedIsQueued, FRIENDLY
<1>8. ASSUME NEW v \in Links, SubmitVideo(v) PROVE RequestsInv'
  BY <1>8 DEF SubmitVideo, NoAdd
<1>9. ASSUME NEW i \in DOMAIN entries, OnRemove(i) PROVE RequestsInv'
  BY <1>9 DEF OnRemove, CanRemoveItem
<1>10. CASE RefuseAdd
  <2>1. PICK code \in {"VIDEO_REFUSED", "other"} : adding' = [adding EXCEPT !.at = "answered", !.answer = code]
    BY <1>10 DEF RefuseAdd, Reply
  <2> QED BY <1>10, <2>1 DEF RefuseAdd
<1>11. CASE FindDuplicate
  BY <1>11 DEF FindDuplicate, Reply
<1>12. CASE AddToQueue
  <2>1. Grows /\ Len(entries') \in DOMAIN entries' /\ Len(entries') # 0
        /\ entries'[Len(entries')].video = adding.video /\ entries'[Len(entries')].by = adding.by
    BY <1>1, <1>12, QueueGrows DEF AddToQueue
  <2>2. Len(entries') \in Nat
    BY <2>1 DEF Grows
  <2>3. adding' = [adding EXCEPT !.at = "answered", !.entry = Len(entries'), !.answer = "added"]
    BY <1>12 DEF AddToQueue
  <2>4. /\ adding' \in [at : {"none", "asked", "answered"}, video : Links \cup {Nobody},
                        by : Visitors \cup {Nobody}, entry : Nat,
                        answer : {"none", "added", "other"} \cup FRIENDLY]
        /\ adding'.at = "answered" /\ adding'.entry = Len(entries') /\ adding'.answer = "added"
        /\ adding'.video = adding.video /\ adding'.by = adding.by
    BY <2>2, <2>3
  <2> QED BY <1>12, <2>1, <2>4 DEF AddToQueue, Grows
<1>13. CASE AddAnswerLost
  BY <1>13 DEF AddAnswerLost, Reply
<1>14. CASE Answered
  BY <1>14 DEF Answered, NoAdd
<1>15. CASE RemoveFromQueue
  <2>1. removing.entry \in DOMAIN entries /\ removing.at = "asked"
        /\ UNCHANGED <<user, shown, adding>>
    BY <1>15 DEF RemoveFromQueue
  <2>2. Grows
    BY <1>2, <1>15, <2>1, StatusGrows DEF RemoveFromQueue
  <2>3. PICK a \in {"QUEUE_ITEM_NOT_FOUND", "CANNOT_REMOVE_PLAYING", "removed"} :
          removing' = [removing EXCEPT !.at = "answered", !.answer = a]
    <3>1. entries[removing.entry].status \in {"pending", "playing", "gone"}
      <4>1. entries[removing.entry] \in Entry
        BY <1>1, <2>1 DEF RequestTypes
      <4> QED BY <4>1 DEF Entry
    <3>2. removing.by = entries[removing.entry].by \/ IsRoomOwner(removing.by)
      BY <2>1 DEF IsRoomOwner
    <3>3. CASE entries[removing.entry].status = "gone"
      BY <1>15, <3>3 DEF RemoveFromQueue
    <3>4. CASE entries[removing.entry].status = "playing"
      BY <1>15, <3>4 DEF RemoveFromQueue
    <3>5. CASE entries[removing.entry].status = "pending"
      BY <1>15, <3>2, <3>5 DEF RemoveFromQueue
    <3> QED BY <3>1, <3>3, <3>4, <3>5
  <2>4. /\ removing'.at = "answered" /\ removing'.answer # "NOT_ALLOWED_TO_REMOVE"
        /\ removing'.entry = removing.entry
        /\ removing' \in [at : {"none", "asked", "answered"}, entry : Nat,
                          by : Visitors \cup {Nobody},
                          answer : {"none", "removed", "QUEUE_ITEM_NOT_FOUND",
                                    "CANNOT_REMOVE_PLAYING", "NOT_ALLOWED_TO_REMOVE"}]
    BY <2>3
  <2> QED BY <2>1, <2>2, <2>4 DEF Grows
<1>16. CASE RemoveAnswered
  BY <1>16 DEF RemoveAnswered, NoRemove
<1> QED
  BY <1>3, <1>4, <1>5, <1>6, <1>7, <1>8, <1>9, <1>10, <1>11, <1>12, <1>13, <1>14, <1>15, <1>16
  DEF RequestsNext

-------------------------------------------------------------------------------
(* What the dialog for a new room says *)

RoomOf(c) == creations[c].room

CreationTypes ==
  /\ creations \in Seq([at : {"asked", "made", "answered", "done"}, by : Makers \cup {NoOne},
                        room : Nat, answer : {"none", "refused", "created", "unknown"},
                        here : BOOLEAN])
  /\ madeRooms \in Seq([owner : Makers \cup {NoOne}, queued : BOOLEAN])
  /\ maker \in Makers \cup {NoOne}

\* Every room was made for one submission, and for its submitter.
CreationInv ==
  /\ CreationTypes
  /\ \A c \in DOMAIN creations :
       /\ RoomOf(c) # 0 => RoomOf(c) \in DOMAIN madeRooms /\ madeRooms[RoomOf(c)].owner = creations[c].by
       /\ creations[c].at = "asked" => RoomOf(c) = 0 /\ creations[c].answer = "none"
       /\ creations[c].at = "made" => RoomOf(c) # 0
       /\ creations[c].answer = "refused" => RoomOf(c) = 0
       /\ creations[c].answer = "created" => RoomOf(c) # 0
  /\ \A c, d \in DOMAIN creations : RoomOf(c) = RoomOf(d) /\ RoomOf(c) # 0 => c = d
  /\ \A r \in DOMAIN madeRooms : \E c \in DOMAIN creations : RoomOf(c) = r

\* A table with other rows in it is a table of as many rows.
LEMMA RowsChange ==
  ASSUME NEW S, NEW s \in Seq(S), NEW F \in [DOMAIN s -> S]
  PROVE  F \in Seq(S) /\ DOMAIN F = DOMAIN s
<1>1. PICK n \in Nat : DOMAIN s = 1 .. n
  OBVIOUS
<1> QED BY <1>1

\* The invariant of the creations gives the property the runs check.
LEMMA CreationHonest == CreationInv => CreationIsHonest
<1> SUFFICES ASSUME CreationInv PROVE CreationIsHonest
  OBVIOUS
<1>1. ASSUME NEW r \in DOMAIN madeRooms
      PROVE  Cardinality({c \in DOMAIN creations : creations[c].room = r}) = 1
  <2>1. PICK c \in DOMAIN creations : RoomOf(c) = r
    BY DEF CreationInv
  <2>2. r # 0
    BY DEF CreationInv, CreationTypes
  <2>3. {d \in DOMAIN creations : creations[d].room = r} = {c}
    BY <2>1, <2>2 DEF CreationInv, RoomOf
  <2> QED BY <2>3, FS_Singleton
<1> QED BY <1>1 DEF CreationInv, CreationIsHonest, RoomOf

\* A submission goes on: it keeps its submitter and its room.
LEMMA CreationGoesOn ==
  ASSUME CreationInv, CreationTypes',
         DOMAIN madeRooms' = DOMAIN madeRooms, DOMAIN creations' = DOMAIN creations,
         \A r \in DOMAIN madeRooms : madeRooms'[r].owner = madeRooms[r].owner,
         \A c \in DOMAIN creations :
           /\ creations'[c].by = creations[c].by /\ creations'[c].room = creations[c].room
           /\ creations'[c].at \in {"asked", "made"} => creations'[c].at = creations[c].at
           /\ creations'[c].at = "asked" => creations'[c].answer = creations[c].answer
           /\ creations'[c].answer = "refused" =>
                creations[c].answer = "refused" \/ creations[c].at = "asked"
           /\ creations'[c].answer = "created" =>
                creations[c].answer = "created" \/ creations[c].at = "made"
  PROVE  CreationInv'
<1>1. \A c \in DOMAIN creations : RoomOf(c)' = RoomOf(c)
  BY DEF RoomOf
<1>2. ASSUME NEW c \in DOMAIN creations
      PROVE  /\ RoomOf(c) # 0 => /\ RoomOf(c) \in DOMAIN madeRooms
                                 /\ madeRooms'[RoomOf(c)].owner = creations'[c].by
             /\ creations'[c].at = "asked" => RoomOf(c) = 0 /\ creations'[c].answer = "none"
             /\ creations'[c].at = "made" => RoomOf(c) # 0
             /\ creations'[c].answer = "refused" => RoomOf(c) = 0
             /\ creations'[c].answer = "created" => RoomOf(c) # 0
  BY DEF CreationInv
<1>3. \A c, d \in DOMAIN creations : RoomOf(c) = RoomOf(d) /\ RoomOf(c) # 0 => c = d
  BY DEF CreationInv
<1>4. \A r \in DOMAIN madeRooms : \E c \in DOMAIN creations : RoomOf(c) = r
  BY DEF CreationInv
<1>5. ASSUME NEW c \in DOMAIN creations'
      PROVE  (/\ RoomOf(c) # 0 => RoomOf(c) \in DOMAIN madeRooms /\ madeRooms[RoomOf(c)].owner = creations[c].by
              /\ creations[c].at = "asked" => RoomOf(c) = 0 /\ creations[c].answer = "none"
              /\ creations[c].at = "made" => RoomOf(c) # 0
              /\ creations[c].answer = "refused" => RoomOf(c) = 0
              /\ creations[c].answer = "created" => RoomOf(c) # 0)'
  BY <1>1, <1>2
<1> QED BY <1>1, <1>3, <1>4, <1>5 DEF CreationInv

\* Every step of the creations keeps their invariant.
LEMMA CreationStep ==
  ASSUME CreationInv, [CreationNext]_creationVars PROVE CreationInv'
<1> DEFINE Sub == [at : {"asked", "made", "answered", "done"}, by : Makers \cup {NoOne},
                   room : Nat, answer : {"none", "refused", "created", "unknown"},
                   here : BOOLEAN]
           Room == [owner : Makers \cup {NoOne}, queued : BOOLEAN]
<1>1. creations \in Seq(Sub) /\ madeRooms \in Seq(Room) /\ maker \in Makers \cup {NoOne}
  BY DEF CreationInv, CreationTypes
<1>2. /\ \A c \in DOMAIN creations : creations[c] \in Sub
      /\ \A r \in DOMAIN madeRooms : madeRooms[r] \in Room
      /\ Len(creations) \in Nat /\ DOMAIN creations = 1 .. Len(creations)
      /\ Len(madeRooms) \in Nat /\ DOMAIN madeRooms = 1 .. Len(madeRooms)
  <2> HIDE DEF Sub, Room
  <2> QED BY <1>1
\* A table with other rows in it is still one.
<1>3. /\ \A F \in [DOMAIN creations -> Sub] : F \in Seq(Sub) /\ DOMAIN F = DOMAIN creations
      /\ \A F \in [DOMAIN madeRooms -> Room] : F \in Seq(Room) /\ DOMAIN F = DOMAIN madeRooms
  <2> HIDE DEF Sub, Room
  <2> QED BY <1>1, RowsChange
<1>4. CASE UNCHANGED creationVars
  BY <1>4 DEF creationVars, CreationInv, CreationTypes, RoomOf
<1>5. ASSUME NEW u \in Makers \cup {NoOne}, SignInAs(u) PROVE CreationInv'
  BY <1>5 DEF SignInAs, CreationInv, CreationTypes, RoomOf
<1>6. CASE ClickCreate \/ DismissModal
  BY <1>6 DEF ClickCreate, DismissModal, CreationInv, CreationTypes, RoomOf
<1>7. CASE SubmitRoom
  <2>0. PICK n \in Nat : n = Len(creations) + 1
    BY <1>2
  <2>1. PICK s \in Sub : s = Submission(maker)
    BY <1>1 DEF Submission
  <2>2. /\ creations' = Append(creations, s) /\ UNCHANGED <<maker, madeRooms>>
        /\ s.at = "asked" /\ s.room = 0 /\ s.answer = "none"
    BY <1>7, <2>1 DEF SubmitRoom, Submission
  <2>3. /\ creations' \in Seq(Sub) /\ DOMAIN creations' = DOMAIN creations \cup {n}
        /\ n \notin DOMAIN creations /\ creations'[n] = s
        /\ \A c \in DOMAIN creations : creations'[c] = creations[c]
    BY <1>1, <1>2, <2>0, <2>2
  <2>4. CreationTypes'
    BY <1>1, <2>2, <2>3 DEF CreationTypes
  <2> HIDE DEF Sub, Room
  <2>5. /\ creations'[n].room = 0 /\ creations'[n].at = "asked" /\ creations'[n].answer = "none"
        /\ madeRooms' = madeRooms
    BY <2>2, <2>3
  <2>6. RoomOf(n)' = 0 /\ \A c \in DOMAIN creations : RoomOf(c)' = RoomOf(c)
    BY <2>3, <2>5 DEF RoomOf
  <2>7. (\A c, d \in DOMAIN creations : RoomOf(c) = RoomOf(d) /\ RoomOf(c) # 0 => c = d)'
    <3>1. \A c, d \in DOMAIN creations : RoomOf(c) = RoomOf(d) /\ RoomOf(c) # 0 => c = d
      BY DEF CreationInv
    <3> QED BY <2>3, <2>6, <3>1
  <2>8. (\A r \in DOMAIN madeRooms : \E c \in DOMAIN creations : RoomOf(c) = r)'
    <3>1. \A r \in DOMAIN madeRooms : \E c \in DOMAIN creations : RoomOf(c) = r
      BY DEF CreationInv
    <3> QED BY <2>3, <2>5, <2>6, <3>1
  <2>9. ASSUME NEW c \in DOMAIN creations'
        PROVE  (/\ RoomOf(c) # 0 => RoomOf(c) \in DOMAIN madeRooms /\ madeRooms[RoomOf(c)].owner = creations[c].by
                /\ creations[c].at = "asked" => RoomOf(c) = 0 /\ creations[c].answer = "none"
                /\ creations[c].at = "made" => RoomOf(c) # 0
                /\ creations[c].answer = "refused" => RoomOf(c) = 0
                /\ creations[c].answer = "created" => RoomOf(c) # 0)'
    <3>1. CASE c = n
      BY <2>5, <2>6, <3>1
    <3>2. CASE c \in DOMAIN creations
      <4>1. creations'[c] = creations[c] /\ RoomOf(c)' = RoomOf(c)
        BY <2>3, <2>6, <3>2
      <4> QED BY <2>5, <3>2, <4>1 DEF CreationInv
    <3> QED BY <2>3, <3>1, <3>2
  <2> QED BY <2>4, <2>7, <2>8, <2>9 DEF CreationInv
<1>8. ASSUME NEW s \in Sub
       PROVE  /\ [s EXCEPT !.here = FALSE] \in Sub
              /\ [s EXCEPT !.here = FALSE].at = s.at /\ [s EXCEPT !.here = FALSE].by = s.by
              /\ [s EXCEPT !.here = FALSE].room = s.room
              /\ [s EXCEPT !.here = FALSE].answer = s.answer
  OBVIOUS
<1>9. ASSUME NEW p, Browse(p) PROVE CreationInv'
  <2>1. /\ creations' = [c \in DOMAIN creations |-> [creations[c] EXCEPT !.here = FALSE]]
        /\ UNCHANGED <<maker, madeRooms>>
    BY <1>9 DEF Browse, AwayFromHere
  <2>2. /\ creations' \in [DOMAIN creations -> Sub]
        /\ \A c \in DOMAIN creations :
             /\ creations'[c].by = creations[c].by /\ creations'[c].room = creations[c].room
             /\ creations'[c].at = creations[c].at /\ creations'[c].answer = creations[c].answer
    <3>1. \A c \in DOMAIN creations :
            creations[c] \in Sub /\ creations'[c] = [creations[c] EXCEPT !.here = FALSE]
      BY <1>2, <2>1
    <3> HIDE DEF Sub
    <3> QED BY <1>8, <2>1, <3>1
  <2>3. CreationTypes' /\ DOMAIN creations' = DOMAIN creations
    BY <1>1, <1>3, <2>1, <2>2 DEF CreationTypes
  <2> QED BY <2>1, <2>2, <2>3, CreationGoesOn
<1>10. ASSUME NEW c \in DOMAIN creations, NEW a \in {"refused", "created", "unknown"}, Answer(c, a)
      PROVE  /\ creations' \in Seq(Sub) /\ DOMAIN creations' = DOMAIN creations
             /\ creations'[c].at = "answered" /\ creations'[c].answer = a
             /\ creations'[c].by = creations[c].by /\ creations'[c].room = creations[c].room
             /\ \A d \in DOMAIN creations \ {c} : creations'[d] = creations[d]
  <2>1. creations' \in [DOMAIN creations -> Sub]
    <3>1. /\ creations[c] \in Sub /\ "answered" \in {"asked", "made", "answered", "done"}
          /\ a \in {"none", "refused", "created", "unknown"}
      BY <1>2
    <3>2. PICK s \in Sub : s = [creations[c] EXCEPT !.at = "answered", !.answer = a]
      BY <3>1
    <3>3. creations' = [creations EXCEPT ![c] = s]
      BY <1>2, <1>10, <3>2 DEF Answer
    <3> HIDE DEF Sub
    <3> QED BY <1>2, <3>2, <3>3
  <2>2. creations' \in Seq(Sub) /\ DOMAIN creations' = DOMAIN creations
    BY <1>3, <2>1
  <2>3. creations[c] \in Sub /\ creations' = [creations EXCEPT ![c].at = "answered", ![c].answer = a]
    BY <1>2, <1>10 DEF Answer
  <2>4. /\ creations'[c].at = "answered" /\ creations'[c].answer = a
        /\ creations'[c].by = creations[c].by /\ creations'[c].room = creations[c].room
    BY <2>3
  <2>5. \A d \in DOMAIN creations \ {c} : creations'[d] = creations[d]
    BY <2>3
  <2> HIDE DEF Sub
  <2> QED BY <2>2, <2>4, <2>5
<1>11. ASSUME NEW c \in DOMAIN creations, RefuseRoom(c) PROVE CreationInv'
  <2>1. creations[c].at = "asked" /\ Answer(c, "refused") /\ UNCHANGED <<maker, madeRooms>>
    BY <1>11 DEF RefuseRoom
  <2>2. CreationTypes'
    BY <1>1, <1>10, <2>1 DEF CreationTypes
  <2> QED BY <1>10, <2>1, <2>2, CreationGoesOn
<1>12. ASSUME NEW c \in DOMAIN creations, CreationLost(c) PROVE CreationInv'
  <2>1. Answer(c, "unknown") /\ UNCHANGED <<maker, madeRooms>>
    BY <1>12 DEF CreationLost
  <2>2. CreationTypes'
    BY <1>1, <1>10, <2>1 DEF CreationTypes
  <2> QED BY <1>10, <2>1, <2>2, CreationGoesOn
<1>13. ASSUME NEW c \in DOMAIN creations, QueueFirst(c) PROVE CreationInv'
  <2>1. creations[c].at = "made" /\ Answer(c, "created") /\ maker' = maker
    BY <1>13 DEF QueueFirst
  <2>2. RoomOf(c) \in DOMAIN madeRooms
    BY <2>1 DEF CreationInv
  <2>3. /\ madeRooms' \in [DOMAIN madeRooms -> Room] /\ DOMAIN madeRooms' = DOMAIN madeRooms
        /\ \A r \in DOMAIN madeRooms : madeRooms'[r].owner = madeRooms[r].owner
    <3>1. CASE UNCHANGED madeRooms
      BY <1>1, <1>2, <3>1
    <3>2. CASE madeRooms' = [madeRooms EXCEPT ![creations[c].room].queued = TRUE]
      <4>1. PICK r \in DOMAIN madeRooms : r = creations[c].room
        BY <2>2 DEF RoomOf
      <4>2. madeRooms[r] \in Room /\ madeRooms \in [DOMAIN madeRooms -> Room]
        BY <1>1, <1>2, <4>1
      <4>3. PICK t \in Room : t = [madeRooms[r] EXCEPT !.queued = TRUE] /\ t.owner = madeRooms[r].owner
        <5>1. PICK t : t = [madeRooms[r] EXCEPT !.queued = TRUE]
          OBVIOUS
        <5>2. t \in Room /\ t.owner = madeRooms[r].owner
          BY <4>2, <5>1
        <5> QED BY <5>1, <5>2
      <4>4. madeRooms' = [madeRooms EXCEPT ![r] = t]
        BY <3>2, <4>1, <4>2, <4>3
      <4> HIDE DEF Room
      <4> QED BY <4>2, <4>3, <4>4
    <3> QED BY <1>13, <3>1, <3>2 DEF QueueFirst
  <2>4. CreationTypes'
    BY <1>1, <1>3, <1>10, <2>1, <2>3 DEF CreationTypes
  <2> QED BY <1>10, <2>1, <2>3, <2>4, CreationGoesOn
<1>14. ASSUME NEW c \in DOMAIN creations, CreationAnswered(c) PROVE CreationInv'
  <2>1. UNCHANGED <<maker, madeRooms>>
    BY <1>14 DEF CreationAnswered
  <2>2. /\ creations' \in [DOMAIN creations -> Sub]
        /\ \A d \in DOMAIN creations :
             /\ creations'[d].by = creations[d].by /\ creations'[d].room = creations[d].room
             /\ creations'[d].at = IF d = c THEN "done" ELSE creations[d].at
             /\ creations'[d].answer = creations[d].answer
    <3>1. PICK done \in [DOMAIN creations -> Sub] : done = [creations EXCEPT ![c].at = "done"]
      <4>1. PICK t \in Sub : t = [creations[c] EXCEPT !.at = "done"]
        BY <1>2
      <4>2. [creations EXCEPT ![c].at = "done"] = [creations EXCEPT ![c] = t]
        BY <1>2, <4>1
      <4> HIDE DEF Sub
      <4> QED BY <1>2, <4>1, <4>2
    <3>2. creations' = done \/ creations' = [d \in DOMAIN creations |-> [done[d] EXCEPT !.here = FALSE]]
      BY <1>14, <3>1 DEF CreationAnswered, AwayFromHere
    <3>3. \A d \in DOMAIN creations :
             /\ done[d] \in Sub
             /\ done[d].by = creations[d].by /\ done[d].room = creations[d].room
             /\ done[d].at = IF d = c THEN "done" ELSE creations[d].at
             /\ done[d].answer = creations[d].answer
      <4>1. \A d \in DOMAIN creations : done[d] \in Sub
        BY <3>1
      <4>2. creations[c] \in Sub /\ done[c] = [creations[c] EXCEPT !.at = "done"]
        BY <1>2, <3>1
      <4>3. \A d \in DOMAIN creations \ {c} : done[d] = creations[d]
        BY <1>2, <3>1
      <4> QED BY <4>1, <4>2, <4>3
    <3>4. CASE creations' = done
      BY <3>3, <3>4
    <3>5. CASE creations' = [d \in DOMAIN creations |-> [done[d] EXCEPT !.here = FALSE]]
      <4>1. \A d \in DOMAIN creations : creations'[d] = [done[d] EXCEPT !.here = FALSE]
        BY <3>5
      <4>2. creations' \in [DOMAIN creations -> Sub]
        <5> HIDE DEF Sub
        <5> QED BY <1>8, <3>3, <3>5, <4>1
      <4>3. ASSUME NEW d \in DOMAIN creations
            PROVE  /\ creations'[d].by = creations[d].by /\ creations'[d].room = creations[d].room
                   /\ creations'[d].at = IF d = c THEN "done" ELSE creations[d].at
                   /\ creations'[d].answer = creations[d].answer
        <5>1. /\ creations'[d].at = done[d].at /\ creations'[d].by = done[d].by
              /\ creations'[d].room = done[d].room /\ creations'[d].answer = done[d].answer
          <6>1. done[d] \in Sub /\ creations'[d] = [done[d] EXCEPT !.here = FALSE]
            BY <3>3, <4>1
          <6> HIDE DEF Sub
          <6> QED BY <1>8, <6>1, Zenon
        <5> QED BY <3>3, <5>1
      <4> QED BY <4>2, <4>3
    <3> QED BY <3>2, <3>4, <3>5
  <2>3. CreationTypes' /\ DOMAIN creations' = DOMAIN creations
    BY <1>1, <1>3, <2>1, <2>2 DEF CreationTypes
  <2> QED BY <2>1, <2>2, <2>3, CreationGoesOn
<1>15. ASSUME NEW c \in DOMAIN creations, StoreRoom(c) PROVE CreationInv'
  <2> DEFINE n == Len(madeRooms) + 1
  <2>1. creations[c].at = "asked" /\ maker' = maker /\ RoomOf(c) = 0
    BY <1>15 DEF StoreRoom, CreationInv
  <2>2. PICK x \in Room : x = [owner |-> creations[c].by, queued |-> FALSE]
    <3>1. creations[c].by \in Makers \cup {NoOne} /\ FALSE \in BOOLEAN
      BY <1>2
    <3>2. [owner |-> creations[c].by, queued |-> FALSE] \in Room
      BY <3>1, Zenon
    <3> QED BY <3>2
  <2>3. /\ madeRooms' \in Seq(Room) /\ Len(madeRooms') = n
        /\ DOMAIN madeRooms' = DOMAIN madeRooms \cup {n} /\ n \notin DOMAIN madeRooms
        /\ madeRooms'[n].owner = creations[c].by
        /\ \A r \in DOMAIN madeRooms : madeRooms'[r] = madeRooms[r]
    <3>1. madeRooms' = Append(madeRooms, x) /\ x.owner = creations[c].by
      BY <1>15, <2>2 DEF StoreRoom
    <3> QED BY <1>1, <1>2, <3>1
  <2>4. /\ creations' \in [DOMAIN creations -> Sub] /\ DOMAIN creations' = DOMAIN creations
        /\ creations'[c].at = "made" /\ creations'[c].room = n
        /\ creations'[c].by = creations[c].by /\ creations'[c].answer = creations[c].answer
        /\ \A d \in DOMAIN creations \ {c} : creations'[d] = creations[d]
    <3>1. creations' = [creations EXCEPT ![c].at = "made", ![c].room = n] /\ n \in Nat
      BY <1>2, <1>15, <2>3 DEF StoreRoom
    <3> HIDE DEF n
    <3>2. PICK t \in Sub : t = [creations[c] EXCEPT !.at = "made", !.room = n]
      BY <1>2, <3>1
    <3>3. creations[c] \in Sub /\ creations' = [creations EXCEPT ![c] = t]
      BY <1>2, <3>1, <3>2
    <3>4. /\ t.at = "made" /\ t.room = n
          /\ t.by = creations[c].by /\ t.answer = creations[c].answer
      BY <3>2, <3>3
    <3> HIDE DEF Sub
    <3> QED BY <1>2, <3>2, <3>3, <3>4
  <2>5. CreationTypes'
    BY <1>1, <1>3, <2>1, <2>3, <2>4 DEF CreationTypes
  <2>6. \A d \in DOMAIN creations : creations[d].room # n
    BY <1>2, <2>3 DEF CreationInv, RoomOf
  <2>7. creations[c].answer \notin {"refused", "created"}
    BY <2>1 DEF CreationInv
  <2>8. n # 0 /\ n \in DOMAIN madeRooms'
    BY <1>2, <2>3
  <2> HIDE DEF n, Sub, Room
  <2>9. ASSUME NEW d \in DOMAIN creations
        PROVE  (/\ RoomOf(d) # 0 => RoomOf(d) \in DOMAIN madeRooms /\ madeRooms[RoomOf(d)].owner = creations[d].by
                /\ creations[d].at = "asked" => RoomOf(d) = 0 /\ creations[d].answer = "none"
                /\ creations[d].at = "made" => RoomOf(d) # 0
                /\ creations[d].answer = "refused" => RoomOf(d) = 0
                /\ creations[d].answer = "created" => RoomOf(d) # 0)'
    <3>1. CASE d = c
      BY <2>3, <2>4, <2>7, <2>8, <3>1 DEF RoomOf
    <3>2. CASE d # c
      <4>1. creations'[d] = creations[d]
        BY <2>4, <3>2
      <4> QED BY <2>3, <4>1 DEF CreationInv, RoomOf
    <3> QED BY <3>1, <3>2
  <2>10. ASSUME NEW d \in DOMAIN creations, NEW e \in DOMAIN creations,
                RoomOf(d)' = RoomOf(e)', RoomOf(d)' # 0
         PROVE  d = e
    BY <2>4, <2>6, <2>10 DEF CreationInv, RoomOf
  <2>11. ASSUME NEW r \in DOMAIN madeRooms' PROVE \E d \in DOMAIN creations : RoomOf(d)' = r
    <3>1. CASE r = n
      BY <2>4, <3>1 DEF RoomOf
    <3>2. CASE r \in DOMAIN madeRooms
      <4>1. PICK d \in DOMAIN creations : RoomOf(d) = r
        BY <3>2 DEF CreationInv
      <4>2. r # 0
        BY <1>2, <3>2
      <4> QED BY <2>1, <2>4, <4>1, <4>2 DEF RoomOf
    <3> QED BY <2>3, <3>1, <3>2
  <2> QED BY <2>4, <2>5, <2>9, <2>10, <2>11 DEF CreationInv
<1> QED
  BY <1>4, <1>5, <1>6, <1>7, <1>9, <1>11, <1>12, <1>13, <1>14, <1>15 DEF CreationNext

-------------------------------------------------------------------------------

\* Whoever signs in or out meanwhile, and whatever is lost on the way: where the
\* page offers to remove a video playback allows it; what the dialogs say of a
\* video or a room that was submitted is what happened to it; and every room was
\* made for one submission - for any number of visitors, videos and rooms
\* (add-video-modal.tsx:35-46, room-view.tsx:89-96, create-room-modal.tsx:21-35,
\* rooms.controller.ts:77-94).
THEOREM ButtonsHonest == RequestsSpec /\ CreationSpec => []ButtonsTellTheTruth
<1>1. RequestsInit => RequestsInv
  <2> SUFFICES ASSUME RequestsInit PROVE RequestsInv
    OBVIOUS
  <2>1. entries = <<>> /\ adding = NoAdd /\ removing = NoRemove /\ shown = {}
        /\ user \in Visitors \cup {Nobody}
    BY DEF RequestsInit
  <2>2. RequestTypes
    BY <2>1 DEF RequestTypes, NoAdd, NoRemove, FRIENDLY
  <2> QED
    BY <2>1, <2>2 DEF RequestsInv, OfferedIsAllowed, FriendlyIsTrue, AddedIsQueued, NoAdd, NoRemove,
       FRIENDLY
<1>2. CreationInit => CreationInv
  BY DEF CreationInit, CreationInv, CreationTypes
<1>3. RequestsInv /\ CreationInv => ButtonsTellTheTruth
  BY CreationHonest DEF RequestsInv, ButtonsTellTheTruth
<1> QED
  BY <1>1, <1>2, <1>3, RequestsStep, CreationStep, PTL DEF RequestsSpec, CreationSpec
===============================================================================
