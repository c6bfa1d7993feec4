-------------------------- MODULE PlaybackProperties --------------------------
(***************************************************************************)
(* What the playback service's timeline is meant to guarantee.  Which of   *)
(* these survive overlapping operations, failed calls and crashes, and     *)
(* which need the serialisation the code's comments assume, is what the    *)
(* runs and the theorems settle.                                           *)
(***************************************************************************)
EXTENDS Playback

AtRest      == \A p \in Procs : pc[p] = "idle"
Undisturbed == faults = 0

\* One program: one video.  playback-manager.ts and ports.ts rest everything
\* else on it ("only one item is PLAYING per room at any time").
AtMostOnePlaying == \A i, j \in Playing : i = j

\* Redis and BullMQ never run ahead of the outbox: a tuple or an advance job
\* names an item whose video.started event is committed.  startNext writes the
\* database before the tuple and the tuple before the job.
NothingAheadOfItsEvent ==
  /\ tuple # NoItem => HasEvent("started", tuple)
  /\ \A i \in Items : jobs[i] # "none" => HasEvent("started", i)

\* The outbox tells the truth: the newest event about an item names the status
\* its row has.  Every status change and its event share one transaction.
StatusAfter(t) ==
  CASE t = "added" -> "PENDING" [] t = "started" -> "PLAYING"
    [] t = "ended" -> "DONE"    [] OTHER -> "SKIPPED"

OutboxTellsStatus ==
  \A i \in Items :
    status[i] = IF outbox[i] = <<>> THEN "ABSENT"
                                    ELSE StatusAfter(outbox[i][Len(outbox[i])])

\* Consumers hear each act of an item's life once: added, then started, then
\* one skip; a removed item is never started.
EachActAnnouncedOnce ==
  \A i \in Items :
    outbox[i] \in {<<>>, <<"added">>, <<"added", "removed">>, <<"added", "started">>,
                   <<"added", "started", "ended">>, <<"added", "started", "vote">>}

\* queue.updated carries a snapshot of the pending list: after every commit the
\* newest one lists exactly the pending rows.
LastQueueIsPending == lastQueue = Pending

\* Between operations of a room where no call failed, the three stores agree:
\* the playing row, the tuple and the one delayed job name the same item, and a
\* room without a playing row is empty ("tuple already cleared").
InSyncAtRest ==
  AtRest /\ Undisturbed =>
    /\ \A i \in Items : jobs[i] = IF i \in Playing THEN "delayed" ELSE "none"
    /\ Playing = IF tuple = NoItem THEN {} ELSE {tuple}
    /\ Playing = {} => Pending = {}

\* The duplicate check: no two rows that wait or play show the same video.
NoDuplicateVideo ==
  \A i, j \in Pending \cup Playing : VideoOf[i] = VideoOf[j] => i = j

\* An add that finds the room busy relies on the operation that is finishing to
\* see its row: unless a removal hit a row that had started meanwhile, no
\* interleaving leaves rows waiting with nothing on the air and no job to come.
RemovedAfterStart(i) ==
  \E k, l \in DOMAIN outbox[i] :
    k < l /\ outbox[i][k] = "started" /\ outbox[i][l] = "removed"

NoLostWakeUp ==
  (/\ AtRest
   /\ Undisturbed
   /\ Pending # {}
   /\ \A i \in Items : ~RemovedAfterStart(i))
  => Playing # {} \/ \E i \in Items : jobs[i] = "delayed"

\* A video ends when its own advance job fires, at startedAt + duration + grace,
\* and not when the job of an earlier video does: the job carries no item, so
\* only its cancellation stands between a skipped video and its successor.
EndedByItsOwnJob ==
  [][Undisturbed =>
       \A i \in Items :
         status[i] = "PLAYING" /\ status'[i] = "DONE" => jobs[i] = "active"]_vars

\* Auto-advance: every queued video is played or taken out, by itself, for as
\* long as no call fails.
EveryVideoLeaves ==
  \A i \in Items :
    status[i] = "PENDING" ~> status[i] \in {"DONE", "SKIPPED"} \/ ~Undisturbed

Timeline == INSTANCE RoomTimeline
  WITH waiting <- Pending,
       ticket  <- position,
       onAir   <- Playing,
       past    <- {i \in Items : status[i] \in {"DONE", "SKIPPED"}}

\* The queue rows behave as the abstract broadcast channel.
ImplementsTimeline == Timeline!Spec

-------------------------------------------------------------------------------
(* Races.  Nothing serialises the operations of a room, so what one of them    *)
(* has read may be old when it commits.  A history tells for each operation    *)
(* what the others committed since it looked at the rows, and which kinds of   *)
(* commits were made in ignorance of that.  It steers nothing.                 *)

VARIABLES
  since,        \* others' commits since the look of each operation: [act, item, step]
  races         \* the kinds of races that were run

raceVars == <<vars, since, races>>

RaceKinds == {
  "air",        \* an item goes on the air beside one that went there after the look
  "row",        \* a row is changed that another operation took on after it was read
  "twin",       \* an item joins the queue, its video having done so after the check
  "place",      \* an item joins the queue, another having done so after maxPosition
  "list"}       \* the newest queue.updated lists rows that had changed after the listing

\* Where an operation has not looked yet (the checks of an add and of a removal,
\* findPlaying for a skip, an advance and a start), or has nothing left to commit.
Unbound == {"idle", "findPlaying", "findIdle", "set", "schedule", "return"}

\* Each commit announces itself in the outbox.
Committed == {i \in Items : outbox'[i] # outbox[i]}

\* What a commit is to an operation that waits for a call meanwhile.
News(q) ==
  {[act |-> outbox'[i][Len(outbox'[i])], item |-> i, step |-> pc[q]] : i \in Committed}

\* The commit of p races in way k with what another operation committed before it.
Races(p, k) ==
  \E a \in since[p] :
    CASE k = "air"   -> pc[p] = "start" /\ a.act = "started" /\ a.item \in Playing
      [] k = "row"   -> a.item = reg[p].item /\ a.act # "added"
      [] k = "twin"  -> /\ pc[p] = "insert" /\ a.act = "added" /\ a.item \in Pending \cup Playing
                        /\ VideoOf[a.item] = VideoOf[reg[p].item]
      [] k = "place" -> pc[p] = "insert" /\ a.act = "added" /\ a.step \in {"listForAdd", "insert"}
      [] k = "list"  -> pc[p] # "finish" /\ a.step = pc[p] /\ a.act \in {"added", "started", "removed"}

Remember(p) ==
  /\ since' = [q \in Procs |-> IF pc'[q] \in Unbound THEN {}
                              ELSE IF q = p THEN since[p] ELSE since[q] \cup News(q)]
  /\ races' = IF Committed = {} THEN races
              ELSE (IF pc[p] = "finish" THEN races ELSE races \ {"list"})
                     \cup {k \in RaceKinds : Races(p, k)}

RaceInit == Init /\ since = [p \in Procs |-> {}] /\ races = {}

RaceNext ==
  \/ \E p \in Procs : (Begin(p) \/ Continue(p) \/ CallFails(p) \/ CancelFails(p)) /\ Remember(p)
  \/ Crash /\ since' = [p \in Procs |-> {}] /\ UNCHANGED races

RaceSpec     == RaceInit /\ [][RaceNext]_raceVars
RaceLiveSpec == RaceSpec /\ Fairness

Without(kinds) == races \cap kinds = {}

\* Only an operation that starts its item after another one did, both having
\* looked before, puts two items on the air; and only an add that inserts its row
\* after another add of the same video did, both having checked before, queues a
\* video twice, or a change to a row that another operation took on meanwhile.
OnlyRacesDouble ==
  /\ Without({"air"}) => AtMostOnePlaying
  /\ Without({"twin", "row"}) => NoDuplicateVideo

\* What consumers hear is true: an act of an item is announced once and in its
\* turn, unless an operation changed a row that another took on after it was
\* read; and the newest queue.updated lists the waiting rows, unless they changed
\* after they were listed for it, which the next one makes up for.
OnlyRacesMisinform ==
  /\ Without({"row"}) => EachActAnnouncedOnce
  /\ Without({"list"}) => LastQueueIsPending

\* However the operations of a room overlap, every commit up to the first race for
\* the air, for a row or for a place in line is a step of the broadcast channel.
OnlyRacesBreakTimeline ==
  [][races' \cap {"air", "row", "place"} = {} => [Timeline!Next]_(Timeline!timelineVars)]_raceVars
===============================================================================
