-------------------------- MODULE ResilienceProperties -------------------------
(* What admission control, kill switch, circuit breaker and the life of a      *)
(* process promise.                                                            *)
EXTENDS RateLimit, KillSwitch, Breaker, Lifecycle

\* "Refill proportional to elapsed time, capped at capacity", "shared across gateway
\* instances": whatever the arrivals, no window of time lets more requests pass than
\* the capacity and what the window earned, in the sender's bucket and in the
\* route's; unless a gateway whose clock is behind set the bucket back, which then
\* earns the difference twice (token-bucket.ts:4-6, :24-32).
NoBurstBeyondCapacity ==
  \A k \in Buckets \ setBack : \A from, to \in Time :
    from <= to =>
      Refill[k] * Cardinality({p \in taken : p[1] = k /\ p[3] \in from .. to})
        <= Full(k) + (to - from)

\* "A flip propagates in seconds": once the switch is off no room is created for
\* longer than a round trip and the life of a cached value, however late a reply
\* that was read before the flip overwrites one that was read after it.
KillSwitchBites ==
  (switch.offSince # Never /\ breaks = 0) => lastRoom <= switch.offSince + RoundTrip + CacheFor

\* A half-open circuit refuses everybody until its probe settles, so there is a
\* probe that will: the circuit is never stuck half-open.
ProbeWillSettle ==
  breaker.state = "half-open" =>
    breaker.probe /\ \E c \in Callers : caller[c].at = "fetching" /\ caller[c].probes

\* A service that answers its health check, and has a connection, consumes every
\* queue it declared: also when the connection came and went while it was binding.
ServingMeansBound ==
  phase = "listening" /\ link = "up" => consuming = 1 .. Queues

\* A job that was running when the process was told to stop has run to its end.
NoJobCutOff ==
  phase = "exited" => \A w \in Jobs : work[w] # "claimed"

\* An event that is marked as published is at the broker, or in the buffer of a
\* bus that will send it; only the end of a process that has no connection, or
\* whose tick outlives the bus, takes events along.
MarkedIsOnItsWay ==
  marked \subseteq delivered \cup unclean \cup (IF link = "closed" THEN {} ELSE pending)

\* What boot, reconnection, drain and shutdown keep, in whatever order they meet
\* the relay's ticks, the handlers and the jobs.
OrderlyLifecycle == ServingMeansBound /\ NoJobCutOff /\ MarkedIsOnItsWay
===============================================================================
