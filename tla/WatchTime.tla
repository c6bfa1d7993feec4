------------------------------- MODULE WatchTime ------------------------------
(* Qualified watch time of one room: the gateway reports joins, leaves and     *)
(* checkpoints, playback reports starts and stops, and the engagement service  *)
(* pays whole seconds into user totals and the leaderboard.  Times and pay are *)
(* in ticks, some to a second.  Its queues have no prefetch limit, so handlers *)
(* of all events run at once and in any order; Messaging lets each run to its  *)
(* end once and repeats an attempt that fails.                                 *)
EXTENDS Integers, FiniteSets, FiniteSetsExt, Functions

CONSTANTS
  Watchers,     \* sockets in the room, each with a user of its own
  PerSecond,    \* ticks in a second
  MaxTicks,     \* bound: ticks that pass
  MaxEvents,    \* bound: events published
  MaxTroubles   \* bound: sweeps, starts and stops of the player, removals, failures

ASSUME WatchTimeAssumption ==
  /\ {MaxTicks, MaxEvents, MaxTroubles} \subseteq Nat /\ IsFiniteSet(Watchers)
  /\ PerSecond \in Nat \ {0}

VARIABLES
  tick,         \* the wall clock, in ticks
  client,       \* the gateway's socket data: [at, joined, since, gone]
  onAir,        \* whether the room's player runs
  sent,         \* events published
  event,        \* those that are not handled yet: [kind, of, at, pay, span]
  run,          \* the handler run of each: [step, entry, todo, read, worth, wrote]
  row,          \* watch_sessions: [seen, ended, marker]
  playing,      \* room_states.playing
  total, score, \* user_totals, and the sorted set
  dropped,      \* auxiliary: fractions of a second that were left out of the pay
  mishap, troubles

clockVars  == <<tick, client, onAir>>
storeVars  == <<row, playing, total, score, dropped>>
busVars    == <<sent, event>>
watchVars  == <<clockVars, busVars, run, storeVars, mishap, troubles>>

Ticks == 0 .. MaxTicks
Nobody  == "nobody"

\* Math.floor of milliseconds to seconds, and what it leaves out.
Fraction(t) == t % PerSecond
Whole(t)    == t - Fraction(t)
WholeSeconds(span) == [s \in Watchers |-> Whole(span[s])]

Mishaps == {"retry",      \* an attempt fails after it has written
            "stale",      \* a row is written that changed since it was read
            "backwards",  \* the marker of a row is set to an earlier time
            "late",       \* a checkpoint finds the session ended, and a later one paid
            "unseen",     \* a session is left before anybody heard of it
            "ghost",      \* a session is swept although its socket lasts
            "break",      \* the player stops or starts
            "removed"}    \* an item is removed from the queue

Unread == [seen |-> FALSE, ended |-> FALSE, marker |-> 0]
Queued == [step |-> "queued", entry |-> Nobody, todo |-> {}, read |-> Unread,
           worth |-> 0, wrote |-> FALSE]

WatchTypeOK ==
  /\ tick \in Ticks
  /\ client \in [Watchers -> [at : {"away", "here", "gone"},
                              joined : Ticks, since : Ticks, gone : Ticks]]
  /\ sent \in 0 .. MaxEvents /\ DOMAIN event \subseteq 1 .. sent /\ DOMAIN run = DOMAIN event
  /\ \A e \in DOMAIN run :
       /\ run[e].step \in {"queued", "gate", "find", "write", "tail", "totals", "score"}
       /\ run[e].worth \in Ticks /\ run[e].wrote \in BOOLEAN /\ run[e].todo \subseteq Watchers
  /\ row \in [Watchers -> [seen : BOOLEAN, ended : BOOLEAN, marker : Ticks]]
  /\ total \in [Watchers -> Nat] /\ score \in [Watchers -> Nat] /\ dropped \in [Watchers -> Nat]
  /\ mishap \subseteq Mishaps /\ troubles \in 0 .. MaxTroubles
  /\ onAir \in BOOLEAN /\ playing \in BOOLEAN

WatchInit ==
  /\ tick = 0
  /\ client = [s \in Watchers |-> [at |-> "away", joined |-> 0, since |-> 0, gone |-> 0]]
  /\ onAir \in BOOLEAN /\ playing = onAir
  /\ sent = 0 /\ event = <<>> /\ run = <<>>
  /\ row = [s \in Watchers |-> Unread]
  /\ total = [s \in Watchers |-> 0] /\ score = [s \in Watchers |-> 0]
  /\ dropped = [s \in Watchers |-> 0]
  /\ mishap = {} /\ troubles = 0

-------------------------------------------------------------------------------
(* The realtime gateway and playback *)

\* pay: what a checkpoint has for each session, 0 where it has no entry; span is
\* auxiliary, the time that the entry stands for.
Publish(kind, of, span) ==
  LET e == Min((1 .. MaxEvents) \ DOMAIN event) IN
  /\ sent < MaxEvents
  /\ sent' = sent + 1
  /\ event' = [f \in DOMAIN event \cup {e} |->
                 IF f = e THEN [kind |-> kind, of |-> of, at |-> tick,
                                pay |-> WholeSeconds(span), span |-> span] ELSE event[f]]
  /\ run' = [f \in DOMAIN run \cup {e} |-> IF f = e THEN Queued ELSE run[f]]

Trouble(kind) ==
  /\ troubles < MaxTroubles
  /\ troubles' = troubles + 1
  /\ mishap' = mishap \cup {kind}

NoPay == [s \in Watchers |-> 0]

Join(s) ==
  /\ client[s].at = "away"
  /\ client' = [client EXCEPT ![s] = [at |-> "here", joined |-> tick,
                                      since |-> tick, gone |-> 0]]
  /\ Publish("joined", s, NoPay)
  /\ UNCHANGED <<tick, onAir, storeVars, mishap, troubles>>

Leave(s) ==
  /\ client[s].at = "here"
  /\ client' = [client EXCEPT ![s].at = "gone", ![s].gone = tick]
  /\ Publish("left", s, NoPay)
  /\ UNCHANGED <<tick, onAir, storeVars, mishap, troubles>>

\* The ghost sweeper reports a session whose heartbeats stopped; its socket goes
\* on being checkpointed, and says goodbye again.
Sweep(s) ==
  /\ client[s].at = "here"
  /\ Publish("left", s, NoPay)
  /\ Trouble("ghost")
  /\ UNCHANGED <<clockVars, storeVars>>

\* One event for all sockets that have been here for a second or more since the
\* last one.
Due(s) == client[s].at = "here" /\ Whole(tick - client[s].since) > 0

Checkpoint ==
  /\ \E s \in Watchers : Due(s)
  /\ Publish("checkpoint", Nobody,
             [s \in Watchers |-> IF Due(s) THEN tick - client[s].since ELSE 0])
  /\ client' = [s \in Watchers |-> IF Due(s) THEN [client[s] EXCEPT !.since = tick]
                                             ELSE client[s]]
  /\ UNCHANGED <<tick, onAir, storeVars, mishap, troubles>>

\* PlaybackManager.startNext and finishCurrent.
Playback ==
  /\ onAir' = ~onAir
  /\ Publish(IF onAir THEN "skipped" ELSE "started", Nobody, NoPay)
  /\ Trouble("break")
  /\ UNCHANGED <<tick, client, storeVars>>

\* RemoveItem: the outbox has "skipped" for an item that never played, and the room
\* plays on.
RemoveQueued ==
  /\ onAir
  /\ Publish("skipped", Nobody, NoPay)
  /\ Trouble("removed")
  /\ UNCHANGED <<clockVars, storeVars>>

TickPasses ==
  /\ tick < MaxTicks
  /\ tick' = tick + 1
  /\ UNCHANGED <<client, onAir, busVars, run, storeVars, mishap, troubles>>

-------------------------------------------------------------------------------
(* WatchTimeTracker over PrismaSessionStore *)

Is(e, kinds)    == event[e].kind \in kinds
AtStep(e, step) == run[e].step = step
Goto(e, next)   == run' = [run EXCEPT ![e] = next] /\ UNCHANGED busVars

\* The run comes to its end: the event is done with.
Finish(e) ==
  /\ event' = Restrict(event, DOMAIN event \ {e}) /\ run' = Restrict(run, DOMAIN run \ {e})
  /\ UNCHANGED sent

\* Upsert: a session that is known already is left alone.
OnJoined(e) ==
  LET s == event[e].of IN
  /\ AtStep(e, "queued") /\ Is(e, {"joined"})
  /\ row' = IF row[s].seen THEN row
            ELSE [row EXCEPT ![s] = [seen |-> TRUE, ended |-> FALSE, marker |-> event[e].at]]
  /\ Finish(e)
  /\ UNCHANGED <<clockVars, playing, total, score, dropped, mishap, troubles>>

\* onPlaybackStarted, onPlaybackStopped: whichever item was skipped, and why.
SetRoomPlaying(e) ==
  /\ AtStep(e, "queued") /\ Is(e, {"started", "skipped"})
  /\ playing' = Is(e, {"started"})
  /\ Finish(e)
  /\ UNCHANGED <<clockVars, row, total, score, dropped, mishap, troubles>>

\* The next entry of a checkpoint, or the end of the loop.
NextEntry(e, todo) ==
  IF todo = {} THEN Finish(e)
  ELSE \E s \in todo :
         Goto(e, [Queued EXCEPT !.step = "gate", !.entry = s, !.todo = todo \ {s},
                                !.wrote = run[e].wrote])

Proceed(e) == NextEntry(e, run[e].todo)

\* award: PostgreSQL before Redis.
Award == <<"totals", "score">>

AfterStore(e) ==
  IF run[e].step = Award[1] THEN Goto(e, [run[e] EXCEPT !.step = Award[2]]) ELSE Proceed(e)

OnCheckpoint(e) ==
  /\ AtStep(e, "queued") /\ Is(e, {"checkpoint"})
  /\ NextEntry(e, {s \in Watchers : event[e].pay[s] > 0})
  /\ UNCHANGED <<clockVars, storeVars, mishap, troubles>>

OnLeft(e) ==
  /\ AtStep(e, "queued") /\ Is(e, {"left"})
  /\ Goto(e, [Queued EXCEPT !.step = "find", !.entry = event[e].of])
  /\ UNCHANGED <<clockVars, storeVars, mishap, troubles>>

\* isRoomPlaying, before a credit: an idle room pays nothing.
Gate(e) ==
  /\ AtStep(e, "gate")
  /\ Goto(e, [run[e] EXCEPT !.step = "find",
                            !.worth = IF playing THEN event[e].pay[run[e].entry] ELSE 0])
  /\ UNCHANGED <<clockVars, storeVars, mishap, troubles>>

\* A checkpoint of a session that ended is paid like any other.
FindAnything(e) ==
  LET found == row[run[e].entry] IN
  /\ AtStep(e, "find")
  /\ IF Is(e, {"left"}) /\ (found.ended \/ ~found.seen) THEN Proceed(e)
     ELSE Goto(e, [run[e] EXCEPT !.step = "write", !.read = found])
  /\ UNCHANGED <<clockVars, storeVars, mishap, troubles>>

\* findUnique of credit and of end: nothing more is paid to a session that ended.
Find(e) ==
  LET found == row[run[e].entry] IN
  /\ AtStep(e, "find")
  /\ IF found.ended \/ (Is(e, {"left"}) /\ ~found.seen) THEN Proceed(e)
     ELSE Goto(e, [run[e] EXCEPT !.step = "write", !.read = found])
  /\ mishap' = mishap \cup (IF Is(e, {"left"}) /\ ~found.seen THEN {"unseen"} ELSE {})
                      \cup (IF found.ended /\ event[e].at < found.marker THEN {"late"} ELSE {})
  /\ UNCHANGED <<clockVars, storeVars, troubles>>

\* The upsert of credit: the marker moves, and a session nobody heard of is opened.
Credit(e) ==
  LET s == run[e].entry  at == event[e].at IN
  /\ AtStep(e, "write") /\ Is(e, {"checkpoint"})
  /\ row' = [row EXCEPT ![s].seen = TRUE, ![s].marker = at]
  /\ dropped' = [dropped EXCEPT ![s] = @ + Fraction(event[e].span[s])]
  /\ IF run[e].worth > 0
     THEN Goto(e, [run[e] EXCEPT !.step = Award[1], !.read = Unread, !.wrote = TRUE])
     ELSE Proceed(e)
  /\ mishap' = mishap \cup (IF row[s].ended # run[e].read.ended THEN {"stale"} ELSE {})
                      \cup (IF at < row[s].marker THEN {"backwards"} ELSE {})
  /\ UNCHANGED <<clockVars, playing, total, score, troubles>>

\* The update of end, and the milliseconds since the marker that was read.
EndSession(e) ==
  LET s == run[e].entry  residue == Max({0, event[e].at - run[e].read.marker}) IN
  /\ AtStep(e, "write") /\ Is(e, {"left"})
  /\ row' = [row EXCEPT ![s].ended = TRUE]
  /\ Goto(e, [run[e] EXCEPT !.step = "tail", !.read = Unread, !.wrote = TRUE,
                            !.worth = Whole(residue)])
  /\ dropped' = [dropped EXCEPT ![s] = @ + Fraction(residue)]
  /\ mishap' = mishap \cup (IF row[s] # run[e].read THEN {"stale"} ELSE {})
  /\ UNCHANGED <<clockVars, playing, total, score, troubles>>

\* isRoomPlaying, before the residue is paid.
PayTail(e) ==
  /\ AtStep(e, "tail")
  /\ IF playing /\ run[e].worth > 0 THEN Goto(e, [run[e] EXCEPT !.step = Award[1]]) ELSE Finish(e)
  /\ UNCHANGED <<clockVars, storeVars, mishap, troubles>>

\* The totals of all periods, in one transaction.
AddToTotals(e) ==
  /\ AtStep(e, "totals")
  /\ total' = [total EXCEPT ![run[e].entry] = @ + run[e].worth]
  /\ AfterStore(e)
  /\ UNCHANGED <<clockVars, row, playing, score, dropped, mishap, troubles>>

\* The sorted sets of all periods.
IncrementScore(e) ==
  /\ AtStep(e, "score")
  /\ score' = [score EXCEPT ![run[e].entry] = @ + run[e].worth]
  /\ AfterStore(e)
  /\ UNCHANGED <<clockVars, row, playing, total, dropped, mishap, troubles>>

\* A call throws: the attempt is over, and the event is handled from the start.
AttemptFails(e) ==
  /\ ~AtStep(e, "queued")
  /\ troubles < MaxTroubles
  /\ troubles' = troubles + 1
  /\ Goto(e, Queued)
  /\ mishap' = mishap \cup (IF run[e].wrote THEN {"retry"} ELSE {})
  /\ UNCHANGED <<clockVars, storeVars>>

-------------------------------------------------------------------------------
(* The specification *)

Handling(e) ==
  \/ OnJoined(e) \/ OnCheckpoint(e) \/ OnLeft(e) \/ SetRoomPlaying(e)
  \/ Gate(e) \/ Find(e) \/ Credit(e) \/ EndSession(e) \/ PayTail(e)
  \/ AddToTotals(e) \/ IncrementScore(e)

WatchNext ==
  \/ TickPasses \/ Checkpoint \/ Playback \/ RemoveQueued
  \/ \E s \in Watchers : Join(s) \/ Leave(s) \/ Sweep(s)
  \/ \E e \in DOMAIN run : Handling(e) \/ AttemptFails(e)

WatchSpec == WatchInit /\ [][WatchNext]_watchVars
===============================================================================
