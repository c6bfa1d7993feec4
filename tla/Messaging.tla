------------------------------- MODULE Messaging -------------------------------
(***************************************************************************)
(* How a domain event travels: committed to the outbox of one service,     *)
(* published by its OutboxRelay through its RabbitMqBus, queued by the     *)
(* broker for one consumer and handled by bindConsumer under the           *)
(* idempotency claim in Redis, with retries and a dead-letter queue.       *)
(*                                                                         *)
(* The consumer sets no prefetch: every queued message is delivered at     *)
(* once and the runs of the handler interleave at their awaits, so the     *)
(* order of the queue does not matter and queues are counts of copies.     *)
(*                                                                         *)
(* There are no publisher confirms: between channel.publish and the broker *)
(* a message is on the wire, and it is gone when the connection is.        *)
(***************************************************************************)
EXTENDS Naturals, Sequences, FiniteSets

CONSTANTS
  Events,       \* event ids; uuid v7 orders them by time
  Invalid,      \* events whose payload the consumer's schema rejects
  Runs,         \* deliveries the consumer may be working on at once
  BatchSize,    \* rows the relay fetches per tick
  PendingMax,   \* capacity of the bus's publish buffer
  Retries,      \* attempts of the handler before dead-lettering
  MaxFaults     \* bound: faults in a behaviour, not counting attempts of the handler

\* What may go wrong on the way, as far as a promise depends on it.
Kinds == {"cut",       \* messages on the wire are lost with the connection or the process
          "buffer",    \* buffered events are lost with the process, or dropped
          "handler",   \* an attempt of the handler throws
          "store",     \* Redis throws under a claim or a release
          "channel",   \* the consumer's connection goes
          "consumer",  \* the consuming process dies
          "expiry"}    \* the ttl of a claim ends while copies are about

ASSUME EventAssumption == Events \subseteq Nat \ {0} /\ Invalid \subseteq Events
ASSUME SizeAssumption == {BatchSize, PendingMax, Retries} \subseteq Nat \ {0}
ASSUME FaultAssumption == MaxFaults \in Nat

VARIABLES
  row,          \* outbox row of each event
  relay,        \* the relay between ticks or awaiting markPublished
  batch,        \* rows of the tick in progress
  link,         \* the publisher's bus
  pending,      \* its publish buffer
  wire,         \* copies written to the channel and not yet at the broker
  queue, dlq,   \* copies the broker holds ready
  claimed,      \* idempotency keys in Redis
  online,       \* whether the consumer has a channel
  run,          \* what each delivery in progress is doing
  handled,      \* how often the handler completed for each event
  happened,     \* the kinds of fault there have been
  faults        \* how many faults there have been

outboxVars   == <<row, relay, batch>>
busVars      == <<link, pending, wire>>
brokerVars   == <<queue, dlq>>
consumerVars == <<claimed, online, run, handled>>
faultVars    == <<happened, faults>>
messageVars  == <<outboxVars, busVars, brokerVars, consumerVars, faultVars>>

-------------------------------------------------------------------------------
(* Types *)

Rows  == {"absent", "unpublished", "published"}
Links == {"booting", "up", "down", "opening"}
Steps == {"free", "claim", "handle", "ack", "release", "requeue"}

\* live: the channel the message came on still exists, so it can be acknowledged.
RunStates == [step : Steps, event : Events \cup {0}, attempt : Nat, live : BOOLEAN]
FreeRun   == [step |-> "free", event |-> 0, attempt |-> 0, live |-> FALSE]

MessagingTypeOK ==
  /\ row \in [Events -> Rows]
  /\ relay \in {"idle", "marking"}
  /\ batch \in SUBSET Events
  /\ link \in Links
  /\ pending \in Seq(Events) /\ Len(pending) <= PendingMax
  /\ wire \in [Events -> Nat] /\ queue \in [Events -> Nat] /\ dlq \in [Events -> Nat]
  /\ claimed \in SUBSET Events
  /\ online \in BOOLEAN
  /\ run \in [Runs -> RunStates]
  /\ handled \in [Events -> Nat]
  /\ happened \in SUBSET Kinds
  /\ faults \in 0 .. MaxFaults

NoCopies == [e \in Events |-> 0]

\* The queue and its bindings are durable: they exist since the first deployment.
MessagingInit ==
  /\ row = [e \in Events |-> "absent"]
  /\ relay = "idle" /\ batch = {}
  /\ link = "booting" /\ pending = <<>>
  /\ wire = NoCopies /\ queue = NoCopies /\ dlq = NoCopies
  /\ claimed = {} /\ online = FALSE
  /\ run = [r \in Runs |-> FreeRun]
  /\ handled = NoCopies
  /\ happened = {} /\ faults = 0

Fault(kinds) ==
  /\ faults < MaxFaults
  /\ faults' = faults + 1
  /\ happened' = happened \cup kinds

-------------------------------------------------------------------------------
(* Control of one run of the consumer *)

Move(r, step) == run' = [run EXCEPT ![r].step = step]
Free(r)       == run' = [run EXCEPT ![r] = FreeRun]
At(r, step)   == run[r].step = step

\* The catch of the retry loop: back off and try again, or give up.
Caught(r) ==
  IF run[r].attempt < Retries
  THEN run' = [run EXCEPT ![r].step = "handle", ![r].attempt = @ + 1]
  ELSE Move(r, "release")

-------------------------------------------------------------------------------
(* Plausible mistakes.  No specification uses these, as in Playback. *)

\* The reconnected bus forgets its buffer until the next outage.
FlushNothing ==
  /\ link = "opening"
  /\ link' = "up"
  /\ UNCHANGED <<outboxVars, pending, wire, brokerVars, consumerVars, faultVars>>

\* SET without NX.
ClaimAnyway(r) ==
  /\ At(r, "claim")
  /\ Move(r, "handle")
  /\ claimed' = claimed \cup {run[r].event}
  /\ UNCHANGED <<outboxVars, busVars, brokerVars, online, handled, faultVars>>

\* The claim is released whatever the outcome.
AckAndRelease(r) ==
  /\ At(r, "ack")
  /\ IF run[r].live THEN Free(r) ELSE Caught(r)
  /\ claimed' = claimed \ {run[r].event}
  /\ UNCHANGED <<outboxVars, busVars, brokerVars, online, handled, faultVars>>

\* The claim of a dead letter is kept.
DeadLetterOnly(r) ==
  /\ At(r, "release")
  /\ IF run[r].live
     THEN Free(r) /\ dlq' = [dlq EXCEPT ![run[r].event] = @ + 1]
     ELSE Move(r, "requeue") /\ UNCHANGED dlq
  /\ UNCHANGED <<outboxVars, busVars, queue, claimed, online, handled, faultVars>>

-------------------------------------------------------------------------------
(* The outbox and the relay *)

\* A domain write commits the event's row with it.
Commit(e) ==
  /\ row[e] = "absent"
  /\ row' = [row EXCEPT ![e] = "unpublished"]
  /\ UNCHANGED <<relay, batch, busVars, brokerVars, consumerVars, faultVars>>

Unpublished == {e \in Events : row[e] = "unpublished"}

\* fetchUnpublished: the oldest rows.
Oldest == {e \in Unpublished : Cardinality({d \in Unpublished : d < e}) < BatchSize}

InOrder(S) ==
  CHOOSE s \in [1 .. Cardinality(S) -> S] : \A i, j \in DOMAIN s : i < j => s[i] < s[j]

\* buffer(): beyond its capacity the oldest events go.
Buffer(s) ==
  LET excess == Len(s) - PendingMax IN
  /\ pending' = IF Len(s) > PendingMax THEN SubSeq(s, excess + 1, Len(s)) ELSE s
  /\ happened' = IF Len(s) > PendingMax THEN happened \cup {"buffer"} ELSE happened

\* channel.publish on a live channel; it throws on a closed one.
Publish(S) ==
  IF link \in {"up", "opening"}
  THEN /\ wire' = [e \in Events |-> IF e \in S THEN wire[e] + 1 ELSE wire[e]]
       /\ UNCHANGED <<pending, happened>>
  ELSE /\ Buffer(pending \o InOrder(S))
       /\ UNCHANGED wire

\* tick up to its second await: fetch, then publish every row in one go.
Tick ==
  /\ relay = "idle" /\ link # "booting" /\ Unpublished # {}
  /\ relay' = "marking"
  /\ batch' = Oldest
  /\ Publish(Oldest)
  /\ UNCHANGED <<row, link, brokerVars, consumerVars, faults>>

MarkPublished ==
  /\ relay = "marking"
  /\ row' = [e \in Events |-> IF e \in batch THEN "published" ELSE row[e]]
  /\ relay' = "idle" /\ batch' = {}
  /\ UNCHANGED <<busVars, brokerVars, consumerVars, faultVars>>

\* "outbox relay tick failed -- will retry"
MarkFails ==
  /\ relay = "marking"
  /\ Fault({})
  /\ relay' = "idle" /\ batch' = {}
  /\ UNCHANGED <<row, busVars, brokerVars, consumerVars>>

-------------------------------------------------------------------------------
(* The bus of the publishing service *)

OnWire == \E e \in Events : wire[e] > 0

\* A message reaches the broker, which routes it to the consumer's queue.
Arrive(e) ==
  /\ wire[e] > 0
  /\ wire' = [wire EXCEPT ![e] = @ - 1]
  /\ queue' = [queue EXCEPT ![e] = @ + 1]
  /\ UNCHANGED <<outboxVars, link, pending, dlq, consumerVars, faultVars>>

\* The connection closes; reconnect() starts its backoff loop.
ConnectionLost ==
  /\ link \in {"up", "opening"}
  /\ Fault(IF OnWire THEN {"cut"} ELSE {})
  /\ link' = "down"
  /\ wire' = NoCopies
  /\ UNCHANGED <<outboxVars, pending, brokerVars, consumerVars>>

\* open(): from here on publishes use the new channel, the setups are awaited.
Open ==
  /\ link = "down"
  /\ link' = "opening"
  /\ UNCHANGED <<outboxVars, pending, wire, brokerVars, consumerVars, faultVars>>

\* flushPending, and the service is as before the outage.
Flush ==
  /\ link = "opening"
  /\ link' = "up"
  /\ wire' = [e \in Events |-> wire[e] + Cardinality({k \in DOMAIN pending : pending[k] = e})]
  /\ pending' = <<>>
  /\ UNCHANGED <<outboxVars, brokerVars, consumerVars, faultVars>>

\* RabbitMqBus.connect: a service does not boot without the broker.
Boot ==
  /\ link = "booting"
  /\ link' = "up"
  /\ UNCHANGED <<outboxVars, pending, wire, brokerVars, consumerVars, faultVars>>

\* The buffer, the wire and the tick live in the process.
PublisherDies ==
  /\ link # "booting"
  /\ Fault((IF OnWire THEN {"cut"} ELSE {}) \cup (IF pending # <<>> THEN {"buffer"} ELSE {}))
  /\ link' = "booting"
  /\ pending' = <<>> /\ wire' = NoCopies
  /\ relay' = "idle" /\ batch' = {}
  /\ UNCHANGED <<row, brokerVars, consumerVars>>

-------------------------------------------------------------------------------
(* bindConsumer: one run per delivery *)

Deliver(r, e) ==
  /\ online /\ queue[e] > 0 /\ e \notin Invalid
  /\ At(r, "free")
  /\ queue' = [queue EXCEPT ![e] = @ - 1]
  /\ run' = [run EXCEPT ![r] = [step |-> "claim", event |-> e, attempt |-> 1, live |-> TRUE]]
  /\ UNCHANGED <<outboxVars, busVars, dlq, claimed, online, handled, faultVars>>

\* The schema rejects it: nacked before the first await.
RejectInvalid(e) ==
  /\ online /\ queue[e] > 0 /\ e \in Invalid
  /\ queue' = [queue EXCEPT ![e] = @ - 1]
  /\ dlq' = [dlq EXCEPT ![e] = @ + 1]
  /\ UNCHANGED <<outboxVars, busVars, consumerVars, faultVars>>

\* SET NX.  A duplicate is acknowledged, or left to the broker on a dead channel.
Claim(r) ==
  /\ At(r, "claim")
  /\ IF run[r].event \in claimed THEN Free(r) ELSE Move(r, "handle")
  /\ claimed' = claimed \cup {run[r].event}
  /\ UNCHANGED <<outboxVars, busVars, brokerVars, online, handled, faultVars>>

HandlerCompletes(r) ==
  /\ At(r, "handle")
  /\ Move(r, "ack")
  /\ handled' = [handled EXCEPT ![run[r].event] = @ + 1]
  /\ UNCHANGED <<outboxVars, busVars, brokerVars, claimed, online, faultVars>>

\* channel.ack stands inside the try: on a dead channel it throws, and the
\* handler that completed is run again.
Ack(r) ==
  /\ At(r, "ack")
  /\ IF run[r].live THEN Free(r) ELSE Caught(r)
  /\ UNCHANGED <<outboxVars, busVars, brokerVars, claimed, online, handled, faultVars>>

HandlerThrows(r) ==
  /\ At(r, "handle")
  /\ Caught(r)
  /\ happened' = happened \cup {"handler"}
  /\ UNCHANGED <<outboxVars, busVars, brokerVars, claimed, online, handled, faults>>

\* Exhausted: the claim goes, then the message is dead-lettered; on a dead
\* channel the nack throws and the outer catch takes over.
Release(r) ==
  /\ At(r, "release")
  /\ claimed' = claimed \ {run[r].event}
  /\ IF run[r].live
     THEN Free(r) /\ dlq' = [dlq EXCEPT ![run[r].event] = @ + 1]
     ELSE Move(r, "requeue") /\ UNCHANGED dlq
  /\ UNCHANGED <<outboxVars, busVars, queue, online, handled, faultVars>>

\* Redis throws under a claim or a release, having done it or not: the outer catch.
StoreFails(r) ==
  /\ Fault({"store"})
  /\ \/ At(r, "claim") /\ claimed' \in {claimed, claimed \cup {run[r].event}}
     \/ At(r, "release") /\ claimed' \in {claimed, claimed \ {run[r].event}}
  /\ Move(r, "requeue")
  /\ UNCHANGED <<outboxVars, busVars, brokerVars, online, handled>>

\* nack with requeue, one second later.
Requeue(r) ==
  /\ At(r, "requeue")
  /\ Free(r)
  /\ queue' = IF run[r].live THEN [queue EXCEPT ![run[r].event] = @ + 1] ELSE queue
  /\ UNCHANGED <<outboxVars, busVars, dlq, claimed, online, handled, faultVars>>

Unacked(e) == {r \in Runs : run[r].live /\ run[r].event = e}

\* What the broker does with the deliveries of a channel that closed.
Redeliver == queue' = [e \in Events |-> queue[e] + Cardinality(Unacked(e))]

\* The consumer's channel closes; the runs go on with it in their hands.
ChannelLost ==
  /\ online /\ Fault({"channel"})
  /\ online' = FALSE
  /\ Redeliver
  /\ run' = [r \in Runs |-> [run[r] EXCEPT !.live = FALSE]]
  /\ UNCHANGED <<outboxVars, busVars, dlq, claimed, handled>>

ConsumerDies ==
  /\ Fault({"consumer"})
  /\ online' = FALSE
  /\ Redeliver
  /\ run' = [r \in Runs |-> FreeRun]
  /\ UNCHANGED <<outboxVars, busVars, dlq, claimed, handled>>

\* The replayed ChannelSetup consumes again.
Consume ==
  /\ ~online
  /\ online' = TRUE
  /\ UNCHANGED <<outboxVars, busVars, brokerVars, claimed, run, handled, faultVars>>

\* The ttl of a claim ends.  Only a copy that comes later than that can tell.
ClaimExpires(e) ==
  /\ e \in claimed /\ Fault({"expiry"})
  /\ claimed' = claimed \ {e}
  /\ UNCHANGED <<outboxVars, busVars, brokerVars, online, run, handled>>

\* scripts/ops/dlq-replay.mjs
Replay(e) ==
  /\ dlq[e] > 0
  /\ dlq' = [dlq EXCEPT ![e] = @ - 1]
  /\ queue' = [queue EXCEPT ![e] = @ + 1]
  /\ UNCHANGED <<outboxVars, busVars, consumerVars, faultVars>>

-------------------------------------------------------------------------------
(* The specification *)

Relaying   == Tick \/ MarkPublished
Connecting == Open \/ Flush \/ Boot
Working(r) == \/ Claim(r) \/ HandlerCompletes(r) \/ Ack(r) \/ Release(r) \/ Requeue(r)
Serving(e) == Arrive(e) \/ RejectInvalid(e)

Faulty ==
  \/ MarkFails \/ ConnectionLost \/ PublisherDies \/ ChannelLost \/ ConsumerDies
  \/ \E r \in Runs : HandlerThrows(r) \/ StoreFails(r)
  \/ \E e \in Events : ClaimExpires(e)

MessagingNext ==
  \/ Relaying \/ Connecting \/ Consume \/ Faulty
  \/ \E e \in Events : Commit(e) \/ Serving(e) \/ Replay(e)
  \/ \E r \in Runs : Working(r) \/ \E e \in Events : Deliver(r, e)

MessagingSpec == MessagingInit /\ [][MessagingNext]_messageVars

\* The relay's timer keeps ticking, the reconnect loops keep trying against a
\* broker that comes back, and the broker delivers what it holds.
MessagingFairness ==
  /\ WF_messageVars(Relaying) /\ WF_messageVars(Connecting) /\ WF_messageVars(Consume)
  /\ \A r \in Runs : WF_messageVars(Working(r))
  /\ \A e \in Events : /\ WF_messageVars(Serving(e))
                       /\ SF_messageVars(\E r \in Runs : Deliver(r, e))

MessagingLiveSpec == MessagingSpec /\ MessagingFairness

-------------------------------------------------------------------------------
(* What outbox, bus and consumer promise together. *)

Never(k) == k \notin happened

Holding(r, e) == run[r].event = e /\ run[r].step \in {"handle", "ack", "release"}

\* The claim is a lock: two copies of one event never have the handler running
\* for both, whoever crashes, reconnects or replays, unless a claim expires.
OneRunAtATime ==
  Never("expiry") =>
    \A e \in Events, r, s \in Runs : Holding(r, e) /\ Holding(s, e) => r = s

\* "Effectively-once": republished batches, redelivery after a crash, retries and
\* replayed dead letters run the handler to its end at most once, as long as the
\* consumer keeps its channel.
HandledOnce ==
  Never("expiry") /\ Never("channel") => \A e \in Events : handled[e] <= 1

\* "Allow DLQ replay to reprocess": a key that makes later copies duplicates
\* belongs to a run under way or to an event that was handled.
ClaimsAreEarned ==
  Never("consumer") /\ Never("store") =>
    \A e \in claimed : handled[e] > 0 \/ \E r \in Runs : Holding(r, e)

\* Faults after which an event may be gone without a trace.
NoLossyFault ==
  /\ Never("cut") /\ Never("buffer") /\ Never("consumer") /\ Never("store")
  /\ Never("channel") \/ Never("handler")

\* "kill between publish and mark loses NOTHING", nor does an outage: unless one
\* of the faults above strikes, every committed event is handled in the end, or
\* lies in the dead-letter queue.
EveryEventSettles ==
  \A e \in Events :
    row[e] = "unpublished" ~> handled[e] > 0 \/ dlq[e] > 0 \/ ~NoLossyFault
===============================================================================
