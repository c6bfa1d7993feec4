# A verification project for lilochat

lilochat is a watch-party application: users meet in rooms, queue YouTube
videos, watch them in step, chat, and vote to skip. The code is a TypeScript
monorepo of NestJS services that talk over PostgreSQL, Redis, BullMQ and
RabbitMQ, and a web client. This directory holds TLA+ models of its protocols, TLC
runs on small instances, and theorems checked by TLAPS.

Paths below are relative to the repository. `PROJECT.json` maps every definition
that models code to its lines, and lists the runs, findings, hazards and theorems.

## 1. Inventory

### The system

| component | state | operations | talks to |
|---|---|---|---|
| **Playback timeline** `apps/services/playback`: `AddVideoUseCase`, `RemoveItemUseCase`, `PlaybackManager`, `BullMqAdvanceScheduler` | queue rows and outbox (PostgreSQL), hot tuple `room:{id}:playback` (Redis), one delayed job `adv-{itemId}` per playing video (BullMQ) | add, remove, advance (a due job), skip (a passed vote) | publishes `playback.*` through its outbox; the gateway reads the tuple |
| **Skip votes** `vote-engine.ts` | vote rows and outbox, ballots and cooldown keys (Redis), job `vote-{id}` | start, cast, timeout, resolve | calls `PlaybackManager.skip`; reads the gateway's presence keys |
| **Messaging** `packages/nest-shared/src/messaging` | outbox rows, in-memory publish buffer, broker queues, idempotency keys (Redis) | relay tick, publish/buffer, reconnect and flush, consume with claim, retry, dead-letter; operator's replay | every service publishes or consumes through it |
| **Realtime gateway** `apps/realtime-gateway` | sockets and their rooms, presence sorted sets and connection counts (Redis), checkpoint timers, lobby throttle | join, sync ping, chat send, vote start/cast, disconnect, sweep of expired members, checkpoints; broadcasts of consumed events | publishes presence, chat and watch checkpoint events on the bus directly, without an outbox |
| **Rooms** `apps/services/rooms` | room rows, directory cards (viewers, current video) | create a room with its card; apply viewer and video events; keyset pages | consumes presence and playback events |
| **Engagement** `apps/services/engagement` | watch sessions, room states, totals (PostgreSQL), leaderboards (Redis) | open, checkpoint, close a session; credit seconds; read a board | consumes presence, checkpoint and playback events |
| **Chat** `apps/services/chat` | messages and outbox | persist once; history | consumes what the gateway broadcast optimistically |
| **Identity** `apps/services/identity` | users, refresh tokens | register, login, refresh (rotation), logout, rename | publishes through its outbox |
| **API gateway** `apps/api-gateway` | rate-limit buckets (Redis), feature-flag cache, avatars behind a breaker | proxy HTTP, compose room creation, keep the refresh cookie, rate limit | calls the services |
| **Resilience** `nest-shared/src/resilience` | breaker state in memory, buckets in Redis, flags in Redis and memory, process guards | call through a breaker, take a token, read a flag, shut down | used by the gateways and services |
| **Web client** `apps/web` | session in memory, player, chat list, vote overlay, directory, dialogs | hooks on socket events, timers and answers | the gateways |
| **Contracts, observability, health, configuration** | none | schemas, logs, traces, probes | — |

### What is hard in it

1. *Nothing serialises a room.* Comments and ADR-004 speak of a single writer per
   room. The code has none: HTTP requests and eight worker slots interleave at
   every `await`, and updates are by id. So the checks (something plays, the row
   is PENDING, the vote is open, the video is queued) are stale when used.
2. *Three stores per step.* Finishing and starting a video touches PostgreSQL,
   then Redis, then BullMQ. A failed call or a crash stops in between; BullMQ runs a
   stalled job once more.
3. *A job and a vote name a room*, not the item they are about.
4. *At-least-once delivery plus a claim in front of the handler*: publish-then-mark,
   a bounded in-memory buffer, no publisher confirms, claims that outlive their
   owner, an acknowledgement inside the retry loop.
5. *Presence by heartbeats*: sweeper, disconnect and rejoin race for one user, and
   counters downstream are kept by +1/-1 events.
6. *Read models fed by unordered events*: consumers have no prefetch limit, so handlers
   of one queue overlap; a repeated attempt runs after later events.
7. *Pages that mix snapshots, broadcasts and answers*: each of the three may overtake
   the others, sockets are lost and replaced, and state derived from one is
   overwritten by another.
8. *Time*: a token that expires while a laptop sleeps, a timer that counts from
   an answer, caches read before and written after an await, ISO weeks at the turn of a year.

### What makes each component correct

* Timeline: at most one video on the air; first come, first played; a video that
  left never returns; the stores agree at rest; no room with a queue falls silent;
  consumers hear each act once, after it is committed.
* Votes: one open vote per room; each decided once and in the end; a passed vote
  cuts short its own video and nothing else.
* Messaging: a committed event is handled or dead-lettered, exactly which faults
  break that; no two handlers on one event; at most one completed handling.
* Gateway: a session that beats stays in its room; one that is gone is reported,
  once, and does not linger; a refresh beats the sweep.
* Rooms: viewers equal the presence the events describe; the card shows the newest
  video; a page of the directory follows the one before it.
* Engagement: a second of presence is credited once at most, and not before it passed;
  boards count the period they name.
* Identity: one usable refresh token per sign-in; a family falls as one.
* Chat: a message is stored once and shown once, with the status it has.
* Resilience: a bucket grants no more than capacity plus refill; a flip of a switch
  bites in time; a half-open circuit settles; a process hands its work over.
* Web client: what a page shows is what the services hold, once everything has
  arrived; what its buttons and dialogs say is what happened.

## 2. The modules

```
RoomTimeline ............ abstract: the broadcast channel a room promises
Playback ................ the timeline as coded, one action per awaited call
  PlaybackProperties .... what it should guarantee; refinement to RoomTimeline; a
                          history of the races between operations
  PlaybackProofs ........ theorems for any number of overlapping operations
  VoteEngine ............ EXTENDS Playback: skip votes driving the timeline
  VoteProofs ............ theorems for both together
  MCPlayback, MCVoteEngine
Messaging ............... outbox, relay, bus, broker queue, consumer, replay
  MessagingProofs, MCMessaging
Presence ................ who is in a room: sockets, the sorted set, the sweepers
  PresenceProofs, MCPresence
  RoomCards ............. EXTENDS Presence: viewers and video on the directory card
RoomsGrid ............... the directory, page by page, while rooms are created
RoomSearch .............. the search field and the URL
WatchTime ............... checkpoints, sessions, totals, leaderboard scores
Leaderboards ............ boards by week, month and of all time
  ReadModelProperties, ReadModelProofs, MCReadModels
Session ................. accounts, tabs, cookie jar, families of refresh tokens
PageAccess .............. one page: access token, renewal timer, socket
  SessionProperties, SessionProofs, MCSession
RateLimit ............... token buckets of the API gateway
KillSwitch .............. feature flags read through a cache
Breaker ................. the circuit breaker and its callers
Lifecycle ............... boot, reconnection, drain, shutdown of a service
  ResilienceProperties
QueueRequests ........... adding and removing a video, from the button to the answer
RoomCreation ............ the create-room dialog, two services, the way to the room
  RequestProperties, ResilienceProofs, MCResilience
PageSocket .............. the socket of one room page
  RoomPage .............. EXTENDS RoomTimeline: what the page shows of the room
  VotePage .............. the vote overlay
  ChatPage .............. messages, from the sender over the store to the list
Player .................. the embed and its drift correction
Audience ................ who is here: the page's list and the lobby's count
  ClientProperties, ClientProofs, MCClient
```

Each component module holds alternative bodies of some of its definitions that no
specification uses, each a plausible mistake. Putting one in the place of its
original must break a property, which shows that the property has teeth.

### Playback

One room: rooms share only worker slots. `Procs` are the operations in flight in
it, whichever process or slot they are in. `pc[p]` names the call operation `p`
is awaiting, `reg[p]` holds its locals. One action is the awaited call taking
effect, with the synchronous code up to the next await.

| state | code |
|---|---|
| `status`, `position` | columns of `queue_items` |
| `outbox[i]` | the events about item `i`, in commit order; `ended`, `vote`, `removed` are `video.skipped` with that reason |
| `lastQueue` | the list in the newest `queue.updated` |
| `tuple` | the item named by the Redis hash |
| `jobs`, `stalled` | `adv-{itemId}`: delayed, active, or unknown to BullMQ; recovered before |

Actions in program order: `AddVideo ReadMaxPosition ListForAdd Insert StartIfIdle`;
`RemoveItem ListForRemove MarkRemoved`; `Advance`/`Skip` `FindPlaying Finish
ClearTuple CancelAdvance FindNextPending ListAfterNext StartItem SetTuple
ScheduleAdvance`; `Return`. Adding a known job id is dropped and removing an
active job is refused, as BullMQ does. `CallFails` ends an operation at any
await; failing at the *next* label stands for a call that took effect and whose
answer was lost. `CancelFails` is the removal error the code swallows. `Crash`
ends all operations and recovers or fails the active jobs (`maxStalledCount` 1).

`PlaybackProperties` adds a history that steers nothing (`RaceSpec`). `since[p]` is what
the other operations have committed since `p` looked at the rows it acts on, and `races` the
kinds of commits that were made in ignorance of that: an item started beside one that
went on the air after the look (`air`), a row changed that another operation took on after it
was read (`row`), an add that inserts behind one that came after its duplicate check
(`twin`) or its `maxPosition` (`place`), a `queue.updated` older than the rows (`list`, until the
next one). Each kind is defined by what was committed and by the steps it was committed
between, not by the damage. The properties say which damage each kind can do, and that
nothing else does any.

Abstracted: metadata lookup and authorisation (their outcome is which requests are
made; `Breaker` and `QueueRequests` have them), timestamps (any delayed job may fire
at any time, so each order of advance and skip is covered), tuple contents other than
the item, the event payloads other than type and pending list.

### VoteEngine

Votes move by `vpc` and `vreg`; inside a passed vote `vpc` is `skipping` while
`pc` runs `PlaybackManager.skip`. A reading of presence returns any count up
to `MaxPresent`: it belongs to another service and may be stale or zero. `closed`
stands for `endsAt` having passed. Expiry of ballots and of cooldown keys are
actions of their own. `needed()` is `Quorum`, with the code's floor of one. A history of
the same kind (`heard`, `voteRaces`) tells when an ask opened a vote behind another that was
opened since its `findOpen`, and when a count decided a vote that was decided since its refetch.

### Messaging

One publishing service, one consumer queue. The consumer has no prefetch, so every
copy in the queue may be under way at once and the order of the queue does not matter:
`wire`, `queue` and `dlq` count copies. Messages on the `wire` were written to
the channel and have not reached the broker; they go with the connection, since
there are no confirms. `link` is `booting`, `up`, `down` or `opening` (the new
channel is in use, the setups are awaited, the buffer is not flushed). `run[r]`
is one delivery: `claim`, `handle`, `ack`, `release`, `requeue`. `happened`
remembers the *kinds* of fault so far; the properties name the kinds they tolerate.

`Ack` stands apart from `HandlerCompletes` because `channel.ack` is inside the try
around the handler: on a dead channel it throws into the retry loop.
`StoreFails` is a Redis error under claim or release, whether Redis did it or not.

Abstracted: the queue and its bindings exist already (they are durable and outlive
the first deployment); graceful shutdown (`Lifecycle` has it); a connection that closes
between the last setup and the flush; the script's own death between publish and ack;
the fan-out to several queues, which are independent.

### Presence and RoomCards

One room. A session is one accepted `room:join`; `socket[s]` says whether its socket is
still there to beat and to say goodbye, `joining[s]` which call of the handler
is awaited. `member[s]` is its entry in the sorted set, whose score is abstracted to
`fresh` or `expired`; `swept` is the room's place in `presence:rooms`. Every gateway
has one `sweep`, with the sessions it found until it reports them. `joined` and `left`
count the events published for a session; `happened` remembers the kinds of anomaly.

The gateway's commands travel on one connection, so the ZREM of a goodbye comes behind
the ZADD of its join, whatever order the events are published in. A socket may join
again or elsewhere: its old session is never said goodbye for, only swept. A socket that
closed while the occupants were counted leaves a session nobody owns. The lobby summary
is modelled because it lists, and `list()` deletes.

Abstracted: clocks (a member without heartbeats expires at some time, never
while a call about it is awaited), other rooms (except that a failed call about one
ends the sweep), the ZREMRANGEBYSCORE and ZRANGE of `list()` as one step, the
throttle's interval, and the limit on joins.

`RoomCards` composes the rooms service with it: each published join and departure is
applied once, in any order, with `GREATEST(0, …)`; beside that, the video fields
follow `video.started` events that may overtake one another.

### The other read models

`RoomsGrid` walks `listCards` as the infinite query does, first fetch, next page and the
refetch of all pages every 30 seconds, while rooms appear with any timestamps, equal ones
too. `RoomSearch` is the debounced field, the router and the browser's history.
`WatchTime` is the gateway's checkpoint clock, the tracker's handlers (each a run of
awaited store calls that may overlap, fail and be repeated), the rows, the totals and the
sorted set. Time is in ticks, `PerSecond` to a second, so what `Math.floor` drops is
there: `dropped` adds it up. Playback publishes starts and stops of the player and also,
while it plays on, the `video.skipped` of a queued item that is removed. `Leaderboards` is the arithmetic of period keys against a calendar that
simply turns over day by day, with a checkpoint handled up to a day after it is
dated, the ranks, and the page with its pinned row.

### Session and PageAccess

`Session` has the tabs of one browser over one cookie jar, the gateway's cookie
handling and identity's use cases, one awaited call to a step: check, rotate and
issue of a refresh are three, so two tabs interleave. `raced` notes the families two
requests worked on at once, the only excuse the properties accept. `PageAccess` is
`AuthProvider` with its renewal timer on a clock, and the socket that a
token opens; a laptop may sleep through a renewal.

### RateLimit, KillSwitch, Breaker, Lifecycle

`RateLimit` counts credit in fractions of a token, so the Lua script's arithmetic is
exact; requests take from the sender's bucket and then from the route's, through gateways
whose clocks may differ. `setBack` records the buckets that met a clock older than theirs:
the script then sets `ts` back, and the difference is earned twice. `KillSwitch` has the cache
entry that `isEnabled` reads before its await and overwrites after it. `Breaker`
has any number of callers inside `execute` at once. `Lifecycle` is the playback service from
bootstrap to exit: the order in which consumers, HTTP, relay, worker, Redis and bus start
and stop, and what a signal at each point cuts off.

### QueueRequests and RoomCreation

The dialogs and buttons with their requests: a dialog may be closed and reopened and the
user may change while an answer is under way; the gateway checks ownership or composes
two services; an answer may be lost. The use cases are one step here, `Playback` has
their interleavings.

### The room page

`RoomPage` extends the *abstract* timeline: what the page owes its user does not depend on
how playback keeps its promise, and `ImplementsTimeline` links the two. A page reads a
snapshot (in two reads) while broadcasts go on, which two queues deliver in any order.
`VotePage`, `ChatPage` and `Audience` do the same for votes, chat and presence. Each
keeps auxiliary sets (`behind`, `misled`, `unheard`, `crossed`, …) that say which known gap
a page has fallen into; the properties hold for everybody who has not, and a gap
closes when the code closes it. `Player` counts positions in steps of a soft correction
and seconds in `Second` steps. Buffering lasts any time up to the bound `MaxBuffer`, and
`slow` counts the seeks since the last disturbance that buffered for more than two seconds.

## 3. The runs

| run | instance | question | verdict |
|---|---|---|---|
| `playback_serial` | 3 items (2 of one video), 1 operation at a time, 2 skips, 2 faults; live | do the stores agree at rest, does a video end by its own job, does every video leave, is the room the promised channel? | holds |
| `playback_overlap` | 2 items of one video, 2 operations, 1 skip, 1 fault | what holds although nothing serialises a room, and which races alone break the rest? | holds |
| `votes_serial` | 1 item, 2 votes, 2 users, 1 fault; live | does every vote end, does a passed one skip, does the engine use the timeline as `Playback` allows? | holds |
| `votes_overlap` | 1 item, 2 votes, 1 user, 2 operations, 1 failed call | does an open vote always have somebody to resolve it, and which races alone open two votes or decide one twice? | holds |
| `messaging` | 2 events (1 invalid), 2 deliveries, batch and buffer of 1, 2 attempts, 2 faults; live | which faults does the pipeline survive, is the claim a lock? | holds |
| `presence` | 2 sessions on one gateway, a second one that only sweeps, 1 fault; live | does a heartbeat hold a session, is every departure reported, how often, does a ghost go? | holds |
| `read_models` | 2 sessions and 3 starts at a card; 4 rooms, pages of 1; 2 words, 4 changes; 2 watchers, 3 half-second ticks, 4 events; 4 fans, 3 years | what do the services and the home page make of the events? | holds |
| `sessions` | 2 tabs, 2 accounts, 3 tokens, 1 fault; 7 ticks of a 4-tick token, 1 cut | do sign-in sessions stay single and fresh, is a signed-in page served? | holds |
| `resilience` | 3 requests through 2 gateways in 4 ticks; 3 creations in 5 ticks; 3 callers in 8 ticks; 2 queues, 3 works, 2 lives; 2 visitors, 2 entries; 2 submissions | does admission hold, does a flip bite, does a probe settle, is a shutdown orderly, do buttons tell the truth? | holds |
| `client` | 2 items, 1 snapshot; 2 votes; 3 messages; 2 videos of 10 s, buffering of up to 4 s, a clock sample off by up to 1½ s; 3 tabs of 2 users on 2 gateways | does a room page show and do what the services hold? | holds |
| `v_two_playing` | 3 items, 2 operations | "only one item is PLAYING per room at any time" | violated |
| `v_revoked_lives` | as `sessions` | "the whole family is revoked" | violated |

**Composed runs.** `read_models`, `sessions`, `resilience` and `client` hold several
components that share no state, or only a socket. A behaviour follows one of them,
chosen in the initial state (`part`), and the others rest: their product would add
states and no interleaving that matters.

**Bounds.** Two operations are enough for every check-then-act pair of the code,
since each is one read and one write of one actor with one intruder; three items
give a playing, a next and a waiting one, and two of one video give the duplicate
check a case. Two faults let a recovered job be hit again (`stalled`) and let an outage
be followed by a death. Two votes give an open vote a successor. Batch and
buffer sizes of one put both at their limit with two events. Two sessions let one
join, rejoin or be listed while the other is expiring, and two sweepers find the
same member. Three tokens are a chain that is rotated twice, or two chains. Bucket sizes of 2
and 1 with different rates make each bucket the scarce one in turn; a threshold of two
failures lets calls of a closed circuit settle in an open or half-open one. Pages of one
card and four rooms put cursor boundaries everywhere, equal timestamps included. 2026 to
2028 have a year of 53 ISO weeks, a leap day, and years that start on a Thursday, a
Friday and a Saturday. A video of ten seconds is long enough for a stall, a seek and the correction
after both. Three tabs give a user a second tab on another gateway. Every bound is a
constant whose name begins with `Max`, or a size the code itself has. Two ticks
to a second give each window a fraction to drop, and four seconds of buffering reach the
loop of seeks. `votes_overlap` and `v_two_playing` use a `VIEW NoSnapshots`: no guard reads a
queue snapshot, and these runs check none; in the former neither the events of an item nor
which verdicts a vote had matter beyond their number and whether it started. Symmetry is used only where no liveness is checked.

**Deadlock** is not checked: users need not act, so a room, a page or a gateway may
rest for ever, and bounded clocks stop.

**Fairness.** *Playback* (`RaceLiveSpec`): weak fairness of an operation in flight, because an await that is
neither failed nor cut off settles; strong fairness of a due job, because a worker slot
keeps becoming free and BullMQ is first come, first served. Nobody is obliged to
add, remove or vote. *Votes* (`VoteRaceLiveSpec`): the same, and windows end. *Messaging*: the relay's
timer ticks for ever and retries; reconnect loops for ever, against a broker that
returns; the broker delivers what it holds; each awaited call settles. Faults are
bounded in number, but attempts of a handler may throw without bound. *Presence*:
awaited calls settle, the sweepers' timers tick for ever, and time passes for a member
that no socket refreshes; nobody is obliged to join, beat or leave. The composed runs
check safety only; where a component owes progress there, it is stated as a safety
property: there is a timer, a request or a probe that will act (`RenewalIsComing`,
`ProbeWillSettle`, a pending message has its timer).

## 4. What is proved

TLAPS checks these for every value of the constants.

| theorem | property | assumption |
|---|---|---|
| `PlaybackProofs!TypeCorrect` | `TypeOK` | none |
| `PlaybackProofs!OutboxFirst` | `NothingAheadOfItsEvent` | none |
| `PlaybackProofs!OutboxIsFaithful` | `OutboxTellsStatus` | none |
| `PlaybackProofs!NobodySleepsThrough` | `NoLostWakeUp` | none (no failure, no removal of a row that had started, in the property) |
| `PlaybackProofs!DoublesAreRaces` | `OnlyRacesDouble` | none (the races, in the property) |
| `PlaybackProofs!MisinformingIsRacing` | `OnlyRacesMisinform` | none (the races, in the property) |
| `PlaybackProofs!ChannelUpToARace` | `OnlyRacesBreakTimeline` | none (the races, in the property) |
| `VoteProofs!VotesRefinePlayback` | `ImplementsPlayback` | none |
| `VoteProofs!NoOrphans` | `OpenVoteHasResolver` | none (no failed call, in the property) |
| `VoteProofs!VotesInTurn` | `OnlyRacesDoubleVotes` | none (the races, in the property) |
| `MessagingProofs!ClaimExcludes` | `OneRunAtATime` | none (no expiry, in the property) |
| `MessagingProofs!EffectivelyOnce` | `HandledOnce` | none (no expiry, channel kept, in the property) |
| `MessagingProofs!NoIdleClaims` | `ClaimsAreEarned` | none (no consumer crash or Redis failure, in the property) |
| `PresenceProofs!Departures` | `GhostsAreReported` | none (the anomalies it excludes, in the property) |
| `PresenceProofs!Heartbeats` | `BeatingIsPresent` | none |
| `PresenceProofs!DeparturesOnce` | `LeavesOnce` | none (the anomalies it excludes, in the property) |
| `ReadModelProofs!CardsTell` | `CardsTellTheRoom` | none (the anomalies it excludes, in the property) |
| `ReadModelProofs!GridWhole` | `GridIsWhole` | none |
| `ReadModelProofs!WatchPaid` | `WatchTimeIsPaid` | none (the mishaps each part excludes, in the property) |
| `ReadModelProofs!CalendarKept` | `BoardsKeepTheCalendar` | none beyond `LeaderboardsAssumption`: the calendar starts in January, in an ISO week of that year |
| `SessionProofs!SessionTypes` | `SessionTypeOK` | none |
| `SessionProofs!SingleUse` | `OneUsableToken` | none (families nobody raced for, in the property) |
| `SessionProofs!FallsTogether` | `FamilyFallsTogether` | none (the same) |
| `SessionProofs!FreshCookie` | `CookieIsFresh` | none (no call or answer lost, in the property) |
| `SessionProofs!PageServed` | `PageIsServed` | none beyond `PageAccessAssumption`: a lifetime that leaves room for a renewal |
| `ResilienceProofs!BurstsAreBounded` | `NoBurstBeyondCapacity` | none (buckets that were not set back, in the property) |
| `ResilienceProofs!FlipBites` | `KillSwitchBites` | none (Redis answers, in the property) |
| `ResilienceProofs!BreakerTypeCorrect` | `BreakerTypeOK` | none |
| `ResilienceProofs!ProbeSettles` | `ProbeWillSettle` | none |
| `ResilienceProofs!Orderly` | `OrderlyLifecycle` | none |
| `ResilienceProofs!ButtonsHonest` | `ButtonsTellTheTruth` | none |
| `ClientProofs!PageCurrent` | `PageIsCurrent` | none (the gaps, in the property) |
| `ClientProofs!OverlayTells` | `OverlayTellsVote` | none (the gaps, in the property) |
| `ClientProofs!ChatTells` | `ChatTellsTheTruth` | none (the gaps, in the property) |
| `ClientProofs!PlayerFollows` | `PlayerFollowsRoom` | none (seeks that buffer long are counted, a clock sample within a second, in the property) |
| `ClientProofs!AudienceTold` | `AudienceIsTold` | none (the gaps, in the property) |

"None" leaves the `ASSUME`s of the modules, which type the constants. `TypeOK`,
`OutboxTellsStatus`, `BreakerTypeOK` and `SessionTypeOK` are proved
and are not in a run; so are the type invariants `MessagingTypeOK` and `PresenceTypeOK`, as parts of the
invariants of their modules.

*Playback.* `TypeOK` is strengthened by what each label guarantees about the
locals: an operation that acts on an item has one. `NothingAheadOfItsEvent` is
inductive once an operation about to write the tuple or the job is known to have
committed the item's `started` event. `OutboxTellsStatus` is inductive with
the fact that an operation between its check and its insert is the only one that
has its item, and that item has no row yet. `NoLostWakeUp` speaks of rest only; its
invariant (`SomeoneWakes`) speaks of every moment: while rows wait, something is on the
air or some operation is at a step from which it still reads the queue. No insert slips
past all of them, because an addition checks for a silent room after its insert.

*Races.* The comments in `ports.ts` and ADR-004 assume that a room has one writer; the code
does not see to it, and `v_two_playing` shows what happens. So the theorems assume nothing
of the kind: they hold for any number of operations at once, with failures and crashes, and say
that the damage is confined to commits that raced. Each operation knows something of the rows at
each label, and the invariant (`RaceInv`) says that it is current but for what it was told
since: the row it read has the status it read (`RowOf`), nothing else is on the air
(`AirOf`), nothing else shows its video (`TwinOf`), nothing stands behind its place in line
(`PlaceOf`), the head it picked is the head (`HeadOf`), and what it lists is what waits
(`ListOf`). Each commit of an operation is news to all others (`CommitIsNews`), and a commit that does not race finds the rows as its
operation read them (`CommitStep`). Then it is an `Enqueue`, `GoOnAir`, `LeaveAir` or
`Withdraw` of `RoomTimeline`, which gives the refinement up to the first race for the air, a
row or a place in line.

*Votes.* The engine is a second program over the variables of the first. Its refinement of
`Playback` needs one fact, that every vote is about an item that has been on the air
(`VotedOnAir`): a skip is asked for only then. With it the type invariant and the outbox
carry over, and the other proofs about votes use them. `OnlyRacesDoubleVotes` is made inductive
by what an operation would find if it looked again (`TurnOf`): while it asks, an open vote is
one it has heard of, and while it counts, so is a verdict. `OpenVoteHasResolver` needs who is
about to schedule the job of a vote that was just created (`JobOf`).

*Sign-in.* Requests hold tokens they read some awaits ago. `FamilyInv` ties what they
hold to the table for a family that only one request has worked on: what it found whole
is whole when it rotates and issues (`FoundWhole`). `CookieInv` says that a token on its way
to the browser is known to nobody else, and that while nothing failed a rotated token
in the jar is about to be replaced. `PageInv` adds the timing: an access token that is held, or
is on its way, expires after the next renewal can have answered.

*Messaging.* The invariant `ConsumerInv` says: a run between its claim and its
end holds the claim and no other run does for that event (`ClaimIsLock`); a run
that acknowledges has handled (`AckAfterHandling`); and, while no claim expires
and the channel lasts, an event without a claim, or with a run that may still
handle it, has not been handled (`NotHandledYet`). `HandledOnce` alone is not
inductive: it does not know why the next completion would be the first.

*Presence.* `GhostsAreReported` is inductive once three things are known: only a finished
join lets its member expire and a sweep at rest has found nobody (`StepsInOrder`); a
goodbye is published before its ZREM is sent; and a member about to be announced is
there unless its goodbye overtook the announcement (`ReportedInTime`). `LeavesOnce`
counts: in calm, a session that said goodbye is in no sweeper's hands; one whose socket is lost is
not reported while it is a member, and what was reported of it and what sweepers still hold come to
no more than the gateways there are (`CountedInCalm`).

*The card.* What the room counts is a difference of two sets: viewers are those counted in
less those counted out, or more once a departure hit the floor (`ViewersInv`).
Where nothing unusual happened a session is a member before it is announced and announced
before its join is done (`ArrivedInOrder`), so once all is applied the difference is the room.

*The directory.* A walk over pages is described by what it has shown: rooms in order, each once,
down to the cursor, and every room that existed at the first page and lies above the cursor
(`Walk`). A room that is created meanwhile is above or below the cursor and disturbs neither.

*Watch time.* Each session has a *mark*, the tick up to which it is accounted for: the marker of
its row, or its join while nobody has heard of it. The entries of its checkpoints are disjoint
intervals, each on one side of the mark (`LedgerShape`), worth their length less a fraction.
What a session *got* is its total and the awards under way to it, counted tick by tick. While
no handler is repeated and none writes over what it has not read, a session got no more than the
stretch from its join to its mark, and an entry that ends at the mark is counted in it (`Bounded`).
By the book, what it got *and what was dropped* are exactly that unless an earlier entry remains,
and every tick between the mark and the last checkpoint lies in an entry that remains
(`PaidToTheSecond`): when all events are handled none remains, the session has ended,
and the residue has paid the rest, but for its own fraction. An out-of-order credit is right because
it can only start at the mark or leave an entry behind that does. The leaderboard holds what the
total holds less the awards that are between the two (`OnBoard`).

*The leaderboards.* The invariant ties the calendar on the wall to the day's number
(`CalendarAt`) and says, of each period and fan, that what was watched in it is on the board
under today's key or on its way there (`BoardsAddUp`); every board is that of a day that has come
(`BoardsDated`). Three facts about keys carry it: a day before today has today's key exactly when
it is in the current period (`PeriodIs`), keys of two periods differ (`KeysApart`), and midnight
turns the calendar as the arithmetic does (`DayTurns`), so a period that turns over starts with a
key nobody has used. For weeks that rests on Thursdays being whole weeks apart and, in the
last week, which the end of the calendar may cut off, on a year's last day being in a 53rd week
by that count. The page follows from the places being a bijection (`PlacesTaken`). Proved are
any number of fans and years, any habits and any weekday the calendar may start on; the
bounds are still one checkpoint a day, worth a second, handled by the next day.

*Admission.* `NoBurstBeyondCapacity` says nothing of the credit that is left, so it does not
know that the next token is earned. `Thrift` does: in every window that reaches to the
bucket's timestamp, what was spent *and what is left* stay within the capacity and what
the window earned. It needs `InTime`: no token of a bucket that was never set back is newer
than the bucket's own timestamp.

*Kill switch.* Three ages add up: an answer "on" that is still under way was asked for
before the flip, a cached "on" arrived within a round trip of it, and who is let through
was let through while that was fresh (`OldNews`).

*Lifecycle.* A connection that is up consumes every declared queue whatever the phase, a
tick about to mark has published, and only a process that has closed its worker closes its
bus (`LifecycleInv`). A listening process then consumes all its queues because it listens
only after the last one is declared.

*Requests.* An answer tells the truth because a request that is still asked holds no entry and
no room yet, and the queue and the table of rooms only grow (`RequestsInv`, `CreationInv`).

*The room page.* The properties speak of the moment when all has arrived. Their invariants
number what is published and say of every moment what the *newest* event still to be broadcast
would show: it shows the room as it is (`NewestInv`, `NewestTurnInv`, `NewestCountInv`), and
when no such event is left the page is right or a gap is recorded (`CurrentInv`, `ShownInv`).
The same goes for what an answer under way has read (`reply`, `AnswerInv`, `ReadInv`).
In the chat, history is what was stored, in decreasing order, down to where the next page
starts (`HistoryInv`), so no page repeats another. In the lobby a wrong count has
another count coming (`LobbyInv`).

*The player.* The invariant is a ranking: once nothing disturbs it, the player starts within
three seconds of the room and gets nearer by a step each second (`NudgeInv`); and a seek
leaves it behind by no more than it buffers (`SeekInv`), which is within the threshold of
the next seek if it buffered for two seconds and the sample is a second off. Nothing bounds
the buffering, so seeks are counted against the long ones: at most one, and one more for each that
buffered longer (`seeks <= 1 + slow`). With `MaxBuffer = 4` the run reaches the loop that
`room-view.tsx:166-168` means to avoid, seek after seek on a slow connection.

**Only model-checked:** liveness (`EveryVideoLeaves`, `VotesEnd`, `EveryEventSettles`,
`GhostsLeave`), which needs ENABLED; and, with one operation of the room at a time, `InSyncAtRest`,
`EndedByItsOwnJob`, `PassedVoteSkips` and `ImplementsTimeline`. The first three are false with
overlapping operations and so no theorem; of the last, the overlapping program keeps
`OnlyRacesBreakTimeline`, which is one. Every other property of a passing run is a theorem.

## 5. What the code does against its documentation

Two divergences have a run:

| run | code | says otherwise |
|---|---|---|
| `v_two_playing` | `startIfIdle` reads `findPlaying` and starts several awaits later | `domain/ports.ts:82`, ADR-004:38 |
| `v_revoked_lives` | a refresh that has passed its check issues a token in a family that is revoked meanwhile | `refresh.usecase.ts:17` |

The models have these behaviours too, and the properties are stated around them.

*Services.* Removal updates by id after an await, so the playing item can be removed
(`remove-item.usecase.ts:39`, against `playback.integration.spec.ts:282`). `resolve`
writes the verdict by id two awaits after the refetch, so two may decide
(`vote-engine.ts:156`, against `:146`). A vote that outlives its video skips the next one
(`vote-engine.ts:174`, against the overlay's "Skip this video?"). A buffered publish
counts as published and is lost with the process (`rabbitmq-bus.ts:83`, against
ADR-005:49). `list()` drops expired members before a sweep finds them, so no departure is
published (`presence-store.ts:57`, against `:8-9`). A handler that fails after it has
written is repeated and pays again (`watch-time.tracker.ts:32-33` says
"effectively-once"); the residue that `end()` pays reaches the totals and not the
session's own seconds (against engagement's `schema.prisma:11-12`). The removal of a queued item
publishes `video.skipped` (`remove-item.usecase.ts:39-44`), and the tracker takes it, as every
skip, for the end of the video (`app.module.ts:122-128`, `watch-time.tracker.ts:80-83`, against
"the room is between videos (or idle) until the next started"): until the next start nobody
is paid in a room that plays on (hence `"removed"` in `PaidInFull`). So too when
`started` is handled before the `skipped` that precedes it. Each checkpoint floors
its seconds and moves its marker to the millisecond (`setup.ts:325`, `:333`), and the goodbye
floors its residue (`watch-time.tracker.ts:71`), so a fraction of a second is lost with each,
against "the left event credits the residue since the last checkpoint" (`:31-33`): `PaidInFull`
counts what was dropped. A consumer whose
channel dies under a completed handler runs the handler again (hence `Never("channel")` in
`HandledOnce`); one that dies between claim and handler turns the redelivery into a
duplicate that is acknowledged unhandled; two sweepers report one departure twice. A
member can outlive its room's place in `presence:rooms`, by a join between ZCARD and SREM
or by a heartbeat after a sweep or a failed join (hence `"unlisted"` in `GhostsLeave`).
The drain tick of a shutdown returns at once when a tick is under way, and takes one
batch; the shutdown cuts handlers off and leaves their claims. A bootstrap that rejects is
survived by the process guards: the process neither listens nor leaves. A gateway whose
clock is behind sets a bucket's `ts` back, and the next one with the clock ahead earns the
difference again (`token-bucket.ts:24-32`, against "shared across gateway instances" at `:6`).

*Sign-in.* A refresh that fails for the network signs the page out. A socket whose
handshake is refused is not tried again until the token changes. A sign-out is undone by a
refresh in flight; a sign-in during page load may be undone by the failing refresh of the
load; a logout whose request fails leaves the cookie.

*Room page.* A reconnect joins again and re-reads nothing, though `use-room-sync.ts:33-34`
says "reconnects re-apply it"; no broadcast tells a page that the room went idle, and a
card keeps its last video and LIVE. A refused `room:join` is ignored. `vote:started`
clears `hasVoted` that the answer to `vote:start` has set (`use-room-votes.ts:44`, `:85`),
progress and results are applied to whatever vote is shown, a late answer opens an overlay
again that was closed, and the timer of the result banner starts anew at each render. A
replaced socket's cleanup takes the timers of pending messages along
(`use-room-chat.ts:29-30`), and a refused message says nothing. `presence:left` names a
user who may have another tab. A video that is told before the player is ready is
swallowed.

*Requests.* The answer to an earlier submission closes a dialog that was reopened; an
addition without a token does nothing; after "could not add the video" a retry may say the
video is there already; `INVALID_VIDEO_URL` has no words of its own. A late answer takes
the browser to the new room from wherever it is by then, also after a sign-out; a lost
answer leaves a room nobody was told of, and the retry makes a second. A running debounce
overrides the back button; a navigation to the URL already shown leaves the field with a
text that is not searched for.

## 6. Not modelled, and the plan

* **Parsing and conversion without state**: video URLs, ISO durations, cursors' encoding,
  cookies and JWTs. They are the branch they take.
* **Views**: layout, animation, the countdown ring, the onboarding hint, the system lines
  of the chat, static pages.
* **Observability, health, configuration, deployment, load scripts**: no state that
  another component relies on.
* **Library behaviour** beyond what the code uses of it: BullMQ, amqplib, socket.io, the
  query cache, YouTube's player.
* **Limits on connections and joins** of the gateway, which are advisory; archived rooms,
  which no code produces.

What would add most next:

1. **Composition**: `ChatPage` and `RoomPage` over `Messaging` instead of their own sets of
   events, to relate the gaps a page falls into to the faults that cause them; `WatchTime`
   over `Presence`.
2. **Liveness of the pages**: a reconnected page is current again once the room moves
   on, under the fairness of the socket.
