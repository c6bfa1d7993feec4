------------------------------- MODULE Playback -------------------------------
(***************************************************************************)
(* The playback service's timeline of ONE room: AddVideoUseCase,           *)
(* RemoveItemUseCase and PlaybackManager over PostgreSQL (the queue table  *)
(* and the outbox, one transaction per write), Redis (the hot tuple) and   *)
(* BullMQ (the delayed advance jobs).  Rooms share nothing but the worker  *)
(* pool, so one room is the whole story.                                   *)
(*                                                                         *)
(* Every operation is an async function of one Node.js process: it runs    *)
(* without interruption from one await to the next, and other operations   *)
(* of the same room run in between.  A label of pc therefore names the     *)
(* call the operation is waiting for, and one action is that call taking   *)
(* effect plus the synchronous code up to the next await.                  *)
(*                                                                         *)
(* Procs are the operations that may be in flight at once (HTTP requests   *)
(* and the worker's 8 slots alike).  With a single proc the module is the  *)
(* program under the serialisation its comments assume ("per-room          *)
(* serialization holds anyway"); with more it is the program as deployed.  *)
(***************************************************************************)
EXTENDS Naturals, Sequences

CONSTANTS
  Items,        \* queue item ids the id generator will hand out
  VideoOf,      \* the video each item plays (two items may share one)
  Procs,        \* operations in flight at the same time
  NoItem,       \* absence of an item
  MaxSkips,     \* bound: passed votes in a behaviour
  MaxFaults     \* bound: failed calls and process crashes in a behaviour

ASSUME NoItemAssumption == NoItem \notin Items
ASSUME VideoAssumption == DOMAIN VideoOf = Items
ASSUME BoundAssumption == MaxSkips \in Nat /\ MaxFaults \in Nat

VARIABLES
  status,       \* queue_items.status; "ABSENT" before the row exists
  position,     \* queue_items.position; 0 before the row exists
  outbox,       \* the events about each item committed to the outbox table, oldest first
  lastQueue,    \* the items listed by the newest playback.queue.updated event
  tuple,        \* room:{id}:playback in Redis
  jobs,         \* the advance job adv-{itemId} in BullMQ
  stalled,      \* items whose advance job was already recovered once
  pc,           \* the call each operation is waiting for
  reg,          \* its local variables
  skips,        \* passed votes so far
  faults        \* failed calls and crashes so far

database == <<status, position, outbox, lastQueue>>
queue    == <<jobs, stalled>>
budget   == <<skips, faults>>
vars     == <<database, tuple, queue, pc, reg, budget>>

-------------------------------------------------------------------------------
(* Types *)

Statuses  == {"ABSENT", "PENDING", "PLAYING", "DONE", "SKIPPED"}
JobStates == {"none", "delayed", "active"}
MaybeItem == Items \cup {NoItem}

\* "ended", "vote" and "removed" are playback.video.skipped with that reason.
SkipReasons == {"ended", "vote", "removed"}
EventTypes  == {"added", "started"} \cup SkipReasons

AddSteps    == {"maxPosition", "listForAdd", "insert"}
RemoveSteps == {"listForRemove", "markRemoved"}
FinishSteps == {"findPlaying", "finish", "clear", "cancel"}
StartSteps  == {"findNext", "listNext", "start", "set", "schedule"}
Labels      == {"idle", "findIdle", "return"}
                 \cup AddSteps \cup RemoveSteps \cup FinishSteps \cup StartSteps

\* item: the record in hand; before: maxPosition's answer; rest: listPending's
\* answer; job: the advance job this worker slot runs, NoItem for a request.
Registers == [item : MaybeItem, before : Nat, rest : SUBSET Items, job : MaybeItem]
Blank     == [item |-> NoItem, before |-> 0, rest |-> {}, job |-> NoItem]

Pending == {i \in Items : status[i] = "PENDING"}
Playing == {i \in Items : status[i] = "PLAYING"}

HasEvent(t, i) == \E k \in DOMAIN outbox[i] : outbox[i][k] = t

\* The event row a transaction on item i commits with it.
Announce(i, t) == outbox' = [outbox EXCEPT ![i] = Append(@, t)]

TypeOK ==
  /\ status \in [Items -> Statuses]
  /\ position \in [Items -> Nat]
  /\ outbox \in [Items -> Seq(EventTypes)]
  /\ lastQueue \in SUBSET Items
  /\ tuple \in MaybeItem
  /\ jobs \in [Items -> JobStates]
  /\ stalled \in SUBSET Items
  /\ pc \in [Procs -> Labels]
  /\ reg \in [Procs -> Registers]
  /\ skips \in 0 .. MaxSkips
  /\ faults \in 0 .. MaxFaults

Init ==
  /\ status = [i \in Items |-> "ABSENT"]
  /\ position = [i \in Items |-> 0]
  /\ outbox = [i \in Items |-> <<>>]
  /\ lastQueue = {}
  /\ tuple = NoItem
  /\ jobs = [i \in Items |-> "none"]
  /\ stalled = {}
  /\ pc = [p \in Procs |-> "idle"]
  /\ reg = [p \in Procs |-> Blank]
  /\ skips = 0
  /\ faults = 0

-------------------------------------------------------------------------------
(* Control of one operation *)

Goto(p, here, there) ==
  /\ pc[p] = here
  /\ pc' = [pc EXCEPT ![p] = there]

Load(p, i, before, rest) ==
  reg' = [reg EXCEPT ![p] = [item |-> i, before |-> before, rest |-> rest, job |-> @.job]]

Forget(p) == Load(p, NoItem, 0, {})

\* The response is sent, or BullMQ moves the finished job out of the queue
\* (removeOnComplete).  For an add this is the await of queue.findById.
Return(p) ==
  /\ Goto(p, "return", "idle")
  /\ reg' = [reg EXCEPT ![p] = Blank]
  /\ jobs' = [i \in Items |-> IF i = reg[p].job THEN "none" ELSE jobs[i]]
  /\ UNCHANGED <<database, tuple, stalled, budget>>

-------------------------------------------------------------------------------
(* Plausible mistakes.  No specification uses these: each one can stand in for *)
(* the definition it misrepresents, to see that a property would notice.       *)

\* startIfIdle leaves the start to whatever else the service is doing.
StartIfAlone(p) ==
  /\ Goto(p, "findIdle", IF Playing = {} /\ \A q \in Procs \ {p} : pc[q] = "idle"
                         THEN "findNext" ELSE "return")
  /\ UNCHANGED <<database, tuple, queue, reg, budget>>

\* startIfIdle without looking whether something plays.
StartRegardless(p) ==
  /\ Goto(p, "findIdle", "findNext")
  /\ UNCHANGED <<database, tuple, queue, reg, budget>>

\* The playing item may be removed as well.
RemoveAnyItem(p, i) ==
  /\ status[i] \in {"PENDING", "PLAYING"}
  /\ Goto(p, "idle", "listForRemove")
  /\ Load(p, i, 0, {})
  /\ UNCHANGED <<database, tuple, queue, budget>>

\* The hot tuple outlives its video.
LeaveTuple(p) ==
  /\ Goto(p, "clear", "cancel")
  /\ UNCHANGED <<database, tuple, queue, reg, budget>>

\* The advance job outlives its video.
LeaveAdvance(p) ==
  /\ Goto(p, "cancel", "findNext")
  /\ Forget(p)
  /\ UNCHANGED <<database, tuple, queue, budget>>

\* findNextPending without its order.
FindAnyPending(p) ==
  /\ \/ /\ Pending = {}
        /\ Goto(p, "findNext", "return")
        /\ UNCHANGED reg
     \/ \E i \in Pending :
          /\ Goto(p, "findNext", "listNext")
          /\ Load(p, i, 0, {})
  /\ UNCHANGED <<database, tuple, queue, budget>>

\* Redis is written before the database.
ListAndSetTuple(p) ==
  /\ Goto(p, "listNext", "start")
  /\ Load(p, reg[p].item, 0, Pending \ {reg[p].item})
  /\ tuple' = reg[p].item
  /\ UNCHANGED <<database, queue, budget>>

\* jobId = roomId: the running job of the last video swallows the next one.
ScheduleOncePerRoom(p) ==
  /\ Goto(p, "schedule", "return")
  /\ jobs' = [jobs EXCEPT ![reg[p].item] =
                IF \A i \in Items : jobs[i] = "none" THEN "delayed" ELSE @]
  /\ Forget(p)
  /\ UNCHANGED <<database, tuple, stalled, budget>>

-------------------------------------------------------------------------------
(* AddVideoUseCase.execute: check, read the position, list, insert, start *)

\* An id the generator has not handed out to a row or to a running add.
Fresh(i) ==
  /\ status[i] = "ABSENT"
  /\ \A p \in Procs : ~(pc[p] \in AddSteps /\ reg[p].item = i)

HasPendingVideo(v) == \E i \in Pending \cup Playing : VideoOf[i] = v

\* A request that passed the metadata checks and found no duplicate.
AddVideo(p, i) ==
  /\ Fresh(i)
  /\ ~HasPendingVideo(VideoOf[i])
  /\ Goto(p, "idle", "maxPosition")
  /\ Load(p, i, 0, {})
  /\ UNCHANGED <<database, tuple, queue, budget>>

ReadMaxPosition(p) ==
  /\ Goto(p, "maxPosition", "listForAdd")
  /\ \E n \in {0} \cup {position[i] : i \in Items} :
       /\ \A i \in Items : position[i] <= n
       /\ Load(p, reg[p].item, n, {})
  /\ UNCHANGED <<database, tuple, queue, budget>>

ListForAdd(p) ==
  /\ Goto(p, "listForAdd", "insert")
  /\ Load(p, reg[p].item, reg[p].before, Pending)
  /\ UNCHANGED <<database, tuple, queue, budget>>

\* insertWithEvents: the row, video.added and queue.updated in one transaction.
Insert(p) ==
  /\ Goto(p, "insert", "findIdle")
  /\ status' = [status EXCEPT ![reg[p].item] = "PENDING"]
  /\ position' = [position EXCEPT ![reg[p].item] = reg[p].before + 1]
  /\ Announce(reg[p].item, "added")
  /\ lastQueue' = reg[p].rest \cup {reg[p].item}
  /\ Forget(p)
  /\ UNCHANGED <<tuple, queue, budget>>

\* startIfIdle
StartIfIdle(p) ==
  /\ Goto(p, "findIdle", IF Playing = {} THEN "findNext" ELSE "return")
  /\ UNCHANGED <<database, tuple, queue, reg, budget>>

-------------------------------------------------------------------------------
(* RemoveItemUseCase.execute *)

\* findById saw a PENDING row; whether the requester may remove it is decided
\* by the request, and a refused request changes nothing.
RemoveItem(p, i) ==
  /\ status[i] = "PENDING"
  /\ Goto(p, "idle", "listForRemove")
  /\ Load(p, i, 0, {})
  /\ UNCHANGED <<database, tuple, queue, budget>>

ListForRemove(p) ==
  /\ Goto(p, "listForRemove", "markRemoved")
  /\ Load(p, reg[p].item, 0, Pending \ {reg[p].item})
  /\ UNCHANGED <<database, tuple, queue, budget>>

\* The update is by id only: whatever the row has become, it is SKIPPED now.
MarkRemoved(p) ==
  /\ Goto(p, "markRemoved", "return")
  /\ status' = [status EXCEPT ![reg[p].item] = "SKIPPED"]
  /\ Announce(reg[p].item, "removed")
  /\ lastQueue' = reg[p].rest
  /\ Forget(p)
  /\ UNCHANGED <<position, tuple, queue, budget>>

-------------------------------------------------------------------------------
(* PlaybackManager.advance and .skip: finishCurrent, then startNext *)

\* The worker picks up a due advance job.  The job carries the room id only.
Advance(p, i) ==
  /\ jobs[i] = "delayed"
  /\ Goto(p, "idle", "findPlaying")
  /\ jobs' = [jobs EXCEPT ![i] = "active"]
  /\ reg' = [reg EXCEPT ![p].job = i]
  /\ UNCHANGED <<database, tuple, stalled, budget>>

\* A vote passed.  Votes exist only for an item that once was on the air.
Skip(p) ==
  /\ skips < MaxSkips
  /\ skips' = skips + 1
  /\ \E i \in Items : HasEvent("started", i)
  /\ Goto(p, "idle", "findPlaying")
  /\ UNCHANGED <<database, tuple, queue, reg, faults>>

\* findFirst without an order: any PLAYING row may come back.
FindPlaying(p) ==
  /\ \/ /\ Playing = {}
        /\ Goto(p, "findPlaying", "findNext")
        /\ UNCHANGED reg
     \/ \E i \in Playing :
          /\ Goto(p, "findPlaying", "finish")
          /\ Load(p, i, 0, {})
  /\ UNCHANGED <<database, tuple, queue, budget>>

Reason(p) == IF reg[p].job # NoItem THEN "ended" ELSE "vote"

Finish(p) ==
  /\ Goto(p, "finish", "clear")
  /\ status' = [status EXCEPT ![reg[p].item] =
                  IF Reason(p) = "ended" THEN "DONE" ELSE "SKIPPED"]
  /\ Announce(reg[p].item, Reason(p))
  /\ UNCHANGED <<position, lastQueue, tuple, queue, reg, budget>>

ClearTuple(p) ==
  /\ Goto(p, "clear", "cancel")
  /\ tuple' = NoItem
  /\ UNCHANGED <<database, queue, reg, budget>>

\* BullMQ refuses to remove a job a worker holds, and the refusal is swallowed.
CancelAdvance(p) ==
  /\ Goto(p, "cancel", "findNext")
  /\ jobs' = [jobs EXCEPT ![reg[p].item] = IF @ = "delayed" THEN "none" ELSE @]
  /\ Forget(p)
  /\ UNCHANGED <<database, tuple, stalled, budget>>

\* Lowest position first; equal positions come back in any order.
FindNextPending(p) ==
  /\ \/ /\ Pending = {}
        /\ Goto(p, "findNext", "return")
        /\ UNCHANGED reg
     \/ \E i \in Pending :
          /\ \A j \in Pending : position[i] <= position[j]
          /\ Goto(p, "findNext", "listNext")
          /\ Load(p, i, 0, {})
  /\ UNCHANGED <<database, tuple, queue, budget>>

ListAfterNext(p) ==
  /\ Goto(p, "listNext", "start")
  /\ Load(p, reg[p].item, 0, Pending \ {reg[p].item})
  /\ UNCHANGED <<database, tuple, queue, budget>>

StartItem(p) ==
  /\ Goto(p, "start", "set")
  /\ status' = [status EXCEPT ![reg[p].item] = "PLAYING"]
  /\ Announce(reg[p].item, "started")
  /\ lastQueue' = reg[p].rest
  /\ Load(p, reg[p].item, 0, {})
  /\ UNCHANGED <<position, tuple, queue, budget>>

SetTuple(p) ==
  /\ Goto(p, "set", "schedule")
  /\ tuple' = reg[p].item
  /\ UNCHANGED <<database, queue, reg, budget>>

\* Adding a job id that is still known to BullMQ is silently dropped.
ScheduleAdvance(p) ==
  /\ Goto(p, "schedule", "return")
  /\ jobs' = [jobs EXCEPT ![reg[p].item] = IF @ = "none" THEN "delayed" ELSE @]
  /\ Forget(p)
  /\ UNCHANGED <<database, tuple, stalled, budget>>

-------------------------------------------------------------------------------
(* Faults *)

\* The awaited call throws: a request answers with an error, a job fails and is
\* not retried (attempts is 1, removeOnFail).
CallFails(p) ==
  /\ faults < MaxFaults
  /\ pc[p] \notin {"idle", "cancel", "return"}
  /\ pc' = [pc EXCEPT ![p] = "idle"]
  /\ reg' = [reg EXCEPT ![p] = Blank]
  /\ jobs' = [i \in Items |-> IF i = reg[p].job THEN "none" ELSE jobs[i]]
  /\ faults' = faults + 1
  /\ UNCHANGED <<database, tuple, stalled, skips>>

\* cancel() swallows the error of a removal that never reached Redis.
CancelFails(p) ==
  /\ faults < MaxFaults
  /\ Goto(p, "cancel", "findNext")
  /\ Forget(p)
  /\ faults' = faults + 1
  /\ UNCHANGED <<database, tuple, queue, skips>>

\* The service process dies.  Its operations are gone; BullMQ returns a job
\* whose lock expired to the queue once, and fails it the second time.
Crash ==
  /\ faults < MaxFaults
  /\ pc' = [p \in Procs |-> "idle"]
  /\ reg' = [p \in Procs |-> Blank]
  /\ jobs' = [i \in Items |-> IF jobs[i] # "active" THEN jobs[i]
                              ELSE IF i \in stalled THEN "none" ELSE "delayed"]
  /\ stalled' = stalled \cup {i \in Items : jobs[i] = "active"}
  /\ faults' = faults + 1
  /\ UNCHANGED <<database, tuple, skips>>

-------------------------------------------------------------------------------
(* The specification *)

\* Requests and due jobs that start an operation.
Begin(p) ==
  \/ \E i \in Items : AddVideo(p, i) \/ RemoveItem(p, i) \/ Advance(p, i)
  \/ Skip(p)

\* An operation in flight moves on.
Continue(p) ==
  \/ ReadMaxPosition(p) \/ ListForAdd(p) \/ Insert(p) \/ StartIfIdle(p)
  \/ ListForRemove(p) \/ MarkRemoved(p)
  \/ FindPlaying(p) \/ Finish(p) \/ ClearTuple(p) \/ CancelAdvance(p)
  \/ FindNextPending(p) \/ ListAfterNext(p) \/ StartItem(p)
  \/ SetTuple(p) \/ ScheduleAdvance(p) \/ Return(p)

Next ==
  \/ \E p \in Procs : Begin(p) \/ Continue(p) \/ CallFails(p) \/ CancelFails(p)
  \/ Crash

Spec == Init /\ [][Next]_vars

\* An await that is neither failed nor cut off by a crash completes, and BullMQ
\* hands every due job to a free worker slot sooner or later.  Nobody is obliged
\* to add, remove or vote.
Fairness ==
  /\ \A p \in Procs : WF_vars(Continue(p))
  /\ \A i \in Items : SF_vars(\E p \in Procs : Advance(p, i))
===============================================================================
