------------------------------- MODULE Lifecycle ------------------------------
(* The processes of one service, one after the other: a process binds its      *)
(* consumers, serves, is told to stop, drains its outbox, and leaves what is   *)
(* left to the next.  (Messaging has the bus and the claims in detail.)        *)
EXTENDS Integers, FiniteSets, FiniteSetsExt

CONSTANTS
  Queues,       \* how many consumers are bound, one after the other
  Works,        \* pieces of work, numbered; each commits one event
  Jobs,         \* those that BullMQ brings; the others come from the queues
  BatchSize,    \* rows of one tick
  MaxLives,     \* bound: processes
  MaxBreakdowns    \* bound: connections lost, ticks that fail

ASSUME LifecycleAssumption ==
  /\ {Queues, BatchSize, MaxLives, MaxBreakdowns} \subseteq Nat
  /\ Works \subseteq Nat /\ Jobs \subseteq Works

VARIABLES
  phase,        \* "binding", "listening", "stranded", "draining", "closing",
                \* "disconnecting", "exited"
  setups,       \* channel setups registered with the bus
  consuming,    \* queues consumed on the current channel
  link,         \* "up", "opening", "down", "closed"
  timer,        \* whether the relay's interval runs
  tick,         \* the relay's tick: [at, batch]
  pending,      \* the bus's buffer
  work,         \* "waiting", "active", "done"; "claimed": cut off with its claim
  stored, marked,   \* outbox rows, and those with a publishedAt
  delivered,    \* events at the broker
  lives, breakdowns,
  unclean       \* auxiliary: events in the bus's buffer when it is closed, or later

processVars   == <<phase, setups, consuming, timer>>
relayVars     == <<tick, stored, marked>>
busVars       == <<link, pending, delivered>>
boundVars     == <<lives, breakdowns>>
lifecycleVars == <<processVars, relayVars, busVars, work, boundVars, unclean>>

NoTick      == [at |-> "none", batch |-> {}]
Connected == link \in {"opening", "up"}
Running   == phase \in {"binding", "listening", "stranded", "draining"}

LifecycleInit ==
  /\ phase = "binding" /\ setups = 0 /\ consuming = {} /\ timer = TRUE
  /\ tick = NoTick /\ stored = {} /\ marked = {}
  /\ link = "up" /\ pending = {} /\ delivered = {}
  /\ work = [w \in Works |-> "waiting"]
  /\ lives = 1 /\ breakdowns = 0 /\ unclean = {}

-------------------------------------------------------------------------------
(* Boot *)

\* bindConsumer: the setup is registered, then run on the channel there is.
BindConsumer ==
  /\ phase = "binding" /\ setups < Queues /\ Connected
  /\ setups' = setups + 1 /\ consuming' = consuming \cup {setups'}
  /\ UNCHANGED <<phase, timer, relayVars, busVars, work, boundVars, unclean>>

\* On a dead channel it rejects, and so does bootstrap: the process survives that,
\* and never listens.
BindFails ==
  /\ phase = "binding" /\ setups < Queues /\ link = "down"
  /\ setups' = setups + 1 /\ phase' = "stranded"
  /\ UNCHANGED <<consuming, timer, relayVars, busVars, work, boundVars, unclean>>

Listen ==
  /\ phase = "binding" /\ setups = Queues /\ phase' = "listening"
  /\ UNCHANGED <<setups, consuming, timer, relayVars, busVars, work, boundVars, unclean>>

-------------------------------------------------------------------------------
(* The connection *)

LoseConnection ==
  /\ Connected /\ breakdowns < MaxBreakdowns
  /\ link' = "down" /\ consuming' = {} /\ breakdowns' = breakdowns + 1
  /\ UNCHANGED <<phase, setups, timer, relayVars, pending, delivered, work, lives, unclean>>

Reopen ==
  /\ link = "down" /\ link' = "opening"
  /\ UNCHANGED <<processVars, relayVars, pending, delivered, work, boundVars, unclean>>

\* One setup after the other; one that is registered meanwhile is run too.
RunSetup ==
  /\ link = "opening"
  /\ \E q \in 1 .. setups : q \notin consuming /\ consuming' = consuming \cup {q}
  /\ UNCHANGED <<phase, setups, timer, relayVars, busVars, work, boundVars, unclean>>

FlushPending ==
  /\ link = "opening" /\ consuming = 1 .. setups
  /\ link' = "up"
  /\ delivered' = delivered \cup pending /\ pending' = {}
  /\ UNCHANGED <<processVars, relayVars, work, boundVars, unclean>>

-------------------------------------------------------------------------------
(* The relay *)

Oldest(rows) == IF Cardinality(rows) <= BatchSize THEN rows
                ELSE CHOOSE B \in kSubset(BatchSize, rows) :
                       \A b \in B, r \in rows \ B : b < r

TickStarts ==
  /\ timer /\ tick = NoTick /\ tick' = [NoTick EXCEPT !.at = "fetch"]
  /\ UNCHANGED <<processVars, stored, marked, busVars, work, boundVars, unclean>>

TickFetches ==
  LET batch == Oldest(stored \ marked) IN
  /\ tick.at = "fetch"
  /\ tick' = IF batch = {} THEN NoTick ELSE [at |-> "publish", batch |-> batch]
  /\ UNCHANGED <<processVars, stored, marked, busVars, work, boundVars, unclean>>

\* Onto the channel, or into the buffer where there is none.
TickPublishes ==
  /\ tick.at = "publish" /\ tick' = [tick EXCEPT !.at = "mark"]
  /\ IF Connected THEN delivered' = delivered \cup tick.batch /\ UNCHANGED pending
     ELSE pending' = pending \cup tick.batch /\ UNCHANGED delivered
  /\ unclean' = IF link = "closed" THEN unclean \cup tick.batch ELSE unclean
  /\ UNCHANGED <<processVars, stored, marked, link, work, boundVars>>

TickMarks ==
  /\ tick.at = "mark" /\ tick' = NoTick /\ marked' = marked \cup tick.batch
  /\ UNCHANGED <<processVars, stored, busVars, work, boundVars, unclean>>

TickFails ==
  /\ tick.at \in {"fetch", "mark"} /\ tick' = NoTick
  /\ breakdowns < MaxBreakdowns /\ breakdowns' = breakdowns + 1
  /\ UNCHANGED <<processVars, stored, marked, busVars, work, lives, unclean>>

-------------------------------------------------------------------------------
(* Work *)

Begin(w) == work[w] = "waiting" /\ work' = [work EXCEPT ![w] = "active"]

\* The worker takes jobs until it is closed.
TakeJob(w) ==
  /\ w \in Jobs /\ Running /\ Begin(w)
  /\ UNCHANGED <<processVars, relayVars, busVars, boundVars, unclean>>

\* A message is claimed in Redis, as long as there is a connection to it.
TakeMessage(w) ==
  /\ w \notin Jobs /\ consuming # {} /\ phase # "disconnecting" /\ Begin(w)
  /\ UNCHANGED <<processVars, relayVars, busVars, boundVars, unclean>>

Commit(w) ==
  /\ work[w] = "active" /\ work' = [work EXCEPT ![w] = "done"]
  /\ stored' = stored \cup {w}
  /\ UNCHANGED <<processVars, tick, marked, busVars, boundVars, unclean>>

-------------------------------------------------------------------------------
(* Shutdown *)

\* Stop, then tick: which returns at once when a tick is under way.
StopRelay ==
  /\ phase \in {"listening", "stranded"}
  /\ timer' = FALSE
  /\ IF tick = NoTick THEN phase' = "draining" /\ tick' = [NoTick EXCEPT !.at = "fetch"]
     ELSE phase' = "closing" /\ UNCHANGED tick
  /\ UNCHANGED <<setups, consuming, stored, marked, busVars, work, boundVars, unclean>>

Drained ==
  /\ phase = "draining" /\ tick = NoTick /\ phase' = "closing"
  /\ UNCHANGED <<setups, consuming, timer, relayVars, busVars, work, boundVars, unclean>>

\* Mutant of CloseScheduler: the worker is left to itself.
LeaveScheduler ==
  /\ phase = "closing" /\ phase' = "disconnecting"
  /\ UNCHANGED <<setups, consuming, timer, relayVars, busVars, work, boundVars, unclean>>

\* The worker is closed when the jobs it has are done; and then Redis.
CloseScheduler ==
  /\ phase = "closing" /\ \A w \in Jobs : work[w] # "active"
  /\ phase' = "disconnecting"
  /\ UNCHANGED <<setups, consuming, timer, relayVars, busVars, work, boundVars, unclean>>

\* Last of all the bus.  What is in its buffer, or comes there, is gone.
CloseBus ==
  /\ phase = "disconnecting" /\ link # "closed"
  /\ link' = "closed" /\ consuming' = {}
  /\ unclean' = unclean \cup pending
  /\ UNCHANGED <<phase, setups, timer, relayVars, pending, delivered, work, boundVars>>

\* The signal is raised again: whatever is under way is cut off.  A handler leaves
\* its claim behind, and to the redelivery it looks handled.
Exit ==
  /\ link = "closed" /\ phase # "exited" /\ phase' = "exited"
  /\ tick' = NoTick /\ pending' = {}
  /\ work' = [w \in Works |-> IF work[w] = "active" THEN "claimed" ELSE work[w]]
  /\ UNCHANGED <<setups, consuming, timer, stored, marked, link, delivered, boundVars, unclean>>

NextProcess ==
  /\ phase = "exited" /\ lives < MaxLives /\ lives' = lives + 1
  /\ phase' = "binding" /\ setups' = 0 /\ consuming' = {} /\ timer' = TRUE
  /\ link' = "up"
  /\ UNCHANGED <<relayVars, pending, delivered, work, breakdowns, unclean>>

LifecycleNext ==
  \/ BindConsumer \/ BindFails \/ Listen
  \/ LoseConnection \/ Reopen \/ RunSetup \/ FlushPending
  \/ TickStarts \/ TickFetches \/ TickPublishes \/ TickMarks \/ TickFails
  \/ \E w \in Works : TakeJob(w) \/ TakeMessage(w) \/ Commit(w)
  \/ StopRelay \/ Drained \/ CloseScheduler \/ CloseBus \/ Exit \/ NextProcess

LifecycleSpec == LifecycleInit /\ [][LifecycleNext]_lifecycleVars
===============================================================================
